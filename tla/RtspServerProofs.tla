-------------------------- MODULE RtspServerProofs --------------------------
(***************************************************************************)
(* RtspLinked and RtspReadsForward for any number of clients, sessions,    *)
(* tracks and ports and for queues of any size.                            *)
(***************************************************************************)
EXTENDS RtspServer, WellFoundedInduction, TLAPS

----------------------------------------------------------------------------
\* The arithmetic of a stream queue.  All sums stay below two turns.
Wrap(x) == IF x < Slots THEN x ELSE x - Slots

LEMMA SlotsFacts ==
    ASSUME RtspConstants
    PROVE  Slots \in Nat /\ Slots = 2 * NbPkts + 1 /\ Slots >= 3 /\ NbPkts \in Nat
  BY DEF RtspConstants, Slots

LEMMA ModWrap ==
    ASSUME RtspConstants, NEW x \in Nat, x < 2 * Slots
    PROVE  x % Slots = Wrap(x) /\ Wrap(x) \in Indexes
  <1> PICK S \in Nat \ {0} : S = Slots BY SlotsFacts
  <1>1. PICK m \in Nat, r \in 0 .. S - 1 : x = S * m + r /\ r = x % S
    <2>1. x \div S \in Nat /\ x % S \in 0 .. S - 1 /\ x = S * (x \div S) + (x % S)
      OBVIOUS
    <2> QED BY <2>1
  <1>2. m < 2
    <2> SUFFICES ASSUME m >= 2 PROVE FALSE OBVIOUS
    <2>1. m - 2 \in Nat /\ m = 2 + (m - 2) OBVIOUS
    <2>2. PICK e \in Nat : m = 2 + e BY <2>1
    <2>3. S * m = 2 * S + S * e /\ S * e >= 0 BY <2>2
    <2> QED BY <2>3, <1>1
  <1>3. m = 0 \/ m = 1 BY <1>2
  <1>4. CASE m = 0 BY <1>1, <1>4 DEF Wrap, Indexes
  <1>5. CASE m = 1
    <2>1. x = S + r BY <1>1, <1>5
    <2> QED BY <1>1, <2>1 DEF Wrap, Indexes
  <1> QED BY <1>3, <1>4, <1>5

LEMMA AheadFacts ==
    ASSUME RtspConstants, NEW Q \in Queue, NEW i \in Indexes
    PROVE  /\ StreamqAhead(Q, i) = IF i <= Q.tail THEN Q.tail - i ELSE Q.tail - i + Slots
           /\ StreamqAhead(Q, i) \in Indexes
           /\ Q.head \in Indexes /\ Q.tail \in Indexes /\ Q.n \in Nat
  <1> USE SlotsFacts
  <1>1. Q.head \in Indexes /\ Q.tail \in Indexes /\ Q.n \in Nat
    BY DEF Queue
  <1>2. Q.tail - i + Slots \in Nat /\ Q.tail - i + Slots < 2 * Slots
    BY <1>1 DEF Indexes
  <1>3. StreamqAhead(Q, i) = Wrap(Q.tail - i + Slots) /\ Wrap(Q.tail - i + Slots) \in Indexes
    BY <1>2, ModWrap DEF StreamqAhead
  <1> QED BY <1>1, <1>3 DEF Wrap, Indexes

\* The packets in use are numbered in the order they came, up to the last.
Numbered(Q) ==
    \A i \in Indexes : StreamqInused(Q, i) => Q.slot[i] = Q.n - StreamqAhead(Q, i) + 1

\* A reader that has something before it or waits at the tail, and has sent
\* only what came before its place.
At(Q, r) ==
    /\ StreamqInused(Q, r.idx) \/ r.idx = Q.tail
    /\ r.last <= Q.n - StreamqAhead(Q, r.idx)

\* How far the index t is ahead of i on a ring of S places, the place k after
\* i, and whether i is in use with head h and tail t.
Dist(S, i, t) == IF i <= t THEN t - i ELSE (t - i) + S
Onward(S, i, k) == IF i + k < S THEN i + k ELSE (i + k) - S
Between(h, i, t) == (h <= i /\ i < t) \/ (h > t /\ (i >= h \/ i < t))

LEMMA QueueArith ==
    ASSUME RtspConstants, NEW Q \in Queue, NEW i \in Indexes
    PROVE  /\ StreamqAhead(Q, i) = Dist(Slots, i, Q.tail)
           /\ StreamqInused(Q, i) <=> Between(Q.head, i, Q.tail)
  <1>1. Slots \in Nat /\ i \in Int /\ Q.tail \in Int
    BY SlotsFacts DEF Queue, Indexes
  <1>2. StreamqAhead(Q, i) = IF i <= Q.tail THEN Q.tail - i ELSE Q.tail - i + Slots
    BY AheadFacts
  <1> QED BY <1>1, <1>2 DEF StreamqInused, Dist, Between

LEMMA DropArith ==
    ASSUME NEW S \in Nat, NEW h \in 0 .. S - 1, NEW t \in 0 .. S - 1, NEW k \in Nat,
           k <= Dist(S, h, t)
    PROVE  LET g == Onward(S, h, k) IN
           /\ Dist(S, g, t) = Dist(S, h, t) - k
           /\ Between(g, g, t) \/ g = t
           /\ \A i \in 0 .. S - 1 : Between(g, i, t) => Between(h, i, t)
           /\ \A i \in 0 .. S - 1 : Between(h, i, t) /\ ~Between(g, i, t)
                 => Dist(S, i, t) >= Dist(S, g, t)
  BY DEF Dist, Between, Onward

\* streamq_pop as often as it takes.
LEMMA GetFreeFacts ==
    ASSUME RtspConstants, NEW Q \in Queue
    PROVE  LET Q0 == GetFree(Q) IN
           /\ Q0 \in Queue /\ Q0.tail = Q.tail /\ Q0.n = Q.n /\ Q0.slot = Q.slot
           /\ StreamqAhead(Q0, Q0.head) <= NbPkts
           /\ \A i \in Indexes : StreamqAhead(Q0, i) = StreamqAhead(Q, i)
           /\ \A i \in Indexes : StreamqInused(Q0, i) => StreamqInused(Q, i)
           /\ \A i \in Indexes : StreamqInused(Q, i) /\ ~StreamqInused(Q0, i)
                 => StreamqAhead(Q, i) >= StreamqAhead(Q0, Q0.head)
           /\ StreamqInused(Q0, Q0.head) \/ Q0.head = Q0.tail
  <1> PICK hd \in 0 .. Slots - 1, tl \in 0 .. Slots - 1 : hd = Q.head /\ tl = Q.tail
    BY DEF Queue, Indexes
  <1> PICK S \in Nat, N \in Nat : S = Slots /\ N = NbPkts /\ S = 2 * N + 1
    BY SlotsFacts
  <1>0. StreamqAhead(Q, Q.head) = Dist(S, hd, tl) /\ Dist(S, hd, tl) \in 0 .. S - 1
    BY QueueArith DEF Indexes, Dist
  <1> PICK free \in 0 .. S - 1 : free = (S - 1) - Dist(S, hd, tl)
    BY <1>0
  <1> PICK drop \in 0 .. N : drop = IF free < N THEN N - free ELSE 0
    OBVIOUS
  <1> PICK h \in Int : h = Onward(S, hd, drop)
    BY DEF Onward
  <1>1. drop <= Dist(S, hd, tl) /\ Dist(S, hd, tl) - drop <= N
    BY <1>0
  <1>2. GetFree(Q) = [Q EXCEPT !.head = h] /\ h \in Indexes
    <2>1. hd + drop \in Nat /\ hd + drop < 2 * Slots
      OBVIOUS
    <2>2. (hd + drop) % Slots = h /\ h \in Indexes
      BY <2>1, ModWrap DEF Wrap, Onward
    <2>3. Slots - 1 - StreamqAhead(Q, Q.head) = free
      BY <1>0
    <2>4. Q.head + (IF free < NbPkts THEN NbPkts - free ELSE 0) = hd + drop
      OBVIOUS
    <2> QED BY <2>2, <2>3, <2>4 DEF GetFree
  <1> PICK Q0 : Q0 = [Q EXCEPT !.head = h] OBVIOUS
  <1>3. Q0 \in Queue /\ Q0.tail = Q.tail /\ Q0.n = Q.n /\ Q0.slot = Q.slot /\ Q0.head = h
    BY <1>2 DEF Queue
  <1>4. /\ Dist(S, h, tl) = Dist(S, hd, tl) - drop
        /\ Between(h, h, tl) \/ h = tl
        /\ \A i \in 0 .. S - 1 : Between(h, i, tl) => Between(hd, i, tl)
        /\ \A i \in 0 .. S - 1 : Between(hd, i, tl) /\ ~Between(h, i, tl)
                 => Dist(S, i, tl) >= Dist(S, h, tl)
    <2>1. hd \in 0 .. S - 1 /\ tl \in 0 .. S - 1 /\ drop \in Nat
      OBVIOUS
    <2> QED BY <2>1, <1>1, DropArith
  <1>5. ASSUME NEW i \in Indexes
        PROVE  /\ StreamqAhead(Q0, i) = Dist(S, i, tl) /\ StreamqAhead(Q, i) = Dist(S, i, tl)
               /\ StreamqInused(Q0, i) <=> Between(h, i, tl)
               /\ StreamqInused(Q, i) <=> Between(hd, i, tl)
               /\ i \in 0 .. S - 1
    BY ZenonT(60), <1>3, QueueArith DEF Indexes
  <1>6. StreamqAhead(Q0, Q0.head) = Dist(S, h, tl) /\ (StreamqInused(Q0, Q0.head) <=> Between(h, h, tl))
    BY <1>2, <1>3, <1>5
  <1>7. StreamqAhead(Q0, Q0.head) <= NbPkts
    BY <1>1, <1>4, <1>6
  <1> QED BY <1>2, <1>3, <1>4, <1>5, <1>6, <1>7

LEMMA PushArith ==
    ASSUME NEW N \in Nat, NEW S \in Nat, S = 2 * N + 1,
           NEW h \in 0 .. S - 1, NEW t \in 0 .. S - 1, NEW c \in 0 .. N,
           Dist(S, h, t) <= N, NEW i \in 0 .. S - 1
    PROVE  LET u == Onward(S, t, c) IN
           /\ u \in 0 .. S - 1
           /\ Between(h, i, t) \/ i = t =>
                 (Between(h, i, u) \/ i = u) /\ Dist(S, i, u) = Dist(S, i, t) + c
           /\ Between(h, i, u) =>
                 \/ Dist(S, t, i) < c /\ Dist(S, i, u) = c - Dist(S, t, i)
                 \/ ~(Dist(S, t, i) < c) /\ Between(h, i, t)
  BY DEF Dist, Between, Onward

LEMMA TxArith ==
    ASSUME NEW S \in Nat, NEW h \in 0 .. S - 1, NEW t \in 0 .. S - 1,
           NEW i \in 0 .. S - 1, Between(h, i, t) \/ i = t,
           NEW k \in Nat, k <= Dist(S, i, t)
    PROVE  LET j == Onward(S, i, k) IN
           /\ j \in 0 .. S - 1
           /\ Between(h, j, t) \/ j = t
           /\ k # 0 => Between(h, i, t)
           /\ Dist(S, j, t) = Dist(S, i, t) - k
  BY DEF Dist, Between, Onward

\* A reader stays where it was, or is moved to the oldest packet that is left.
LEMMA MoveSlowFacts ==
    ASSUME RtspConstants, NEW Q \in Queue, NEW r \in Rtp, At(Q, r)
    PROVE  /\ MoveSlow(GetFree(Q), r) \in Rtp
           /\ At(GetFree(Q), MoveSlow(GetFree(Q), r))
           /\ MoveSlow(GetFree(Q), r).port = r.port
  <1> PICK Q0 : Q0 = GetFree(Q) OBVIOUS
  <1>1. /\ Q0 \in Queue /\ Q0.tail = Q.tail /\ Q0.n = Q.n
        /\ \A i \in Indexes : StreamqAhead(Q0, i) = StreamqAhead(Q, i)
        /\ \A i \in Indexes : StreamqInused(Q, i) /\ ~StreamqInused(Q0, i)
                 => StreamqAhead(Q, i) >= StreamqAhead(Q0, Q0.head)
        /\ StreamqInused(Q0, Q0.head) \/ Q0.head = Q0.tail
    BY GetFreeFacts
  <1>2. r.idx \in Indexes /\ r.last \in Nat /\ Q.n \in Nat /\ Q0.head \in Indexes
    BY <1>1 DEF Rtp, Queue
  <1>3. CASE StreamqInused(Q0, r.idx) \/ r.idx = Q0.tail
    BY <1>1, <1>2, <1>3 DEF MoveSlow, At
  <1>4. CASE ~(StreamqInused(Q0, r.idx) \/ r.idx = Q0.tail)
    <2>1. MoveSlow(Q0, r) = [r EXCEPT !.idx = Q0.head]
      BY <1>4 DEF MoveSlow
    <2>2. PICK x : x = [r EXCEPT !.idx = Q0.head] OBVIOUS
    <2>3. x \in Rtp /\ x.idx = Q0.head /\ x.last = r.last /\ x.port = r.port
      BY <2>2, <1>2 DEF Rtp
    <2>4. StreamqAhead(Q, r.idx) >= StreamqAhead(Q0, Q0.head)
      BY <1>1, <1>2, <1>4 DEF At
    <2>5. StreamqAhead(Q, r.idx) \in Int /\ StreamqAhead(Q0, Q0.head) \in Int
      BY <1>1, <1>2, AheadFacts DEF Indexes
    <2>6. r.last <= Q0.n - StreamqAhead(Q0, Q0.head)
      BY <2>4, <2>5, <1>1, <1>2 DEF At
    <2> QED BY <2>1, <2>2, <2>3, <2>6, <1>1 DEF At
  <1> QED BY <1>3, <1>4

\* What a frame's packets do to the queue and to its readers.
LEMMA PushAllFacts ==
    ASSUME RtspConstants, NEW Q \in Queue, StreamqAhead(Q, Q.head) <= NbPkts,
           NEW count \in 0 .. NbPkts
    PROVE  LET Q1 == PushAll(Q, count) IN
           /\ Q1 \in Queue /\ Q1.n = Q.n + count
           /\ Numbered(Q) => Numbered(Q1)
           /\ \A r \in Rtp : At(Q, r) => At(Q1, r)
  <1> PICK hd \in 0 .. Slots - 1, tl \in 0 .. Slots - 1 : hd = Q.head /\ tl = Q.tail
    BY DEF Queue, Indexes
  <1> PICK S \in Nat, N \in Nat : S = Slots /\ N = NbPkts /\ S = 2 * N + 1
    BY SlotsFacts
  <1>n. Q.n \in Nat /\ Q.slot \in [Indexes -> Nat]
    BY DEF Queue
  <1>0. Dist(S, hd, tl) <= N
    BY QueueArith DEF Indexes
  <1> PICK u \in Int : u = Onward(S, tl, count)
    BY DEF Onward
  <1>1. u = (Q.tail + count) % Slots /\ u \in Indexes
    <2>1. tl + count \in Nat /\ tl + count < 2 * Slots
      OBVIOUS
    <2> QED BY <2>1, ModWrap DEF Wrap, Onward
  <1>2. ASSUME NEW i \in Indexes
        PROVE  (i - Q.tail + Slots) % Slots = Dist(S, tl, i) /\ Dist(S, tl, i) \in Nat
    <2>1. i - tl + Slots \in Nat /\ i - tl + Slots < 2 * Slots
      BY DEF Indexes
    <2>2. (i - tl + Slots) % Slots = Wrap(i - tl + Slots)
      BY <2>1, ModWrap
    <2> QED BY <2>2 DEF Wrap, Dist, Indexes
  <1> PICK sl : sl = [i \in Indexes |-> IF Dist(S, tl, i) < count
                                        THEN Q.n + 1 + Dist(S, tl, i) ELSE Q.slot[i]]
    OBVIOUS
  <1> PICK Q1 : Q1 = [Q EXCEPT !.tail = u, !.n = Q.n + count, !.slot = sl]
    OBVIOUS
  <1>3. PushAll(Q, count) = Q1
    <2>1. DOMAIN Q.slot = Indexes
      BY <1>n
    <2>2. [i \in DOMAIN Q.slot |-> IF (i - Q.tail + Slots) % Slots < count
              THEN Q.n + 1 + ((i - Q.tail + Slots) % Slots) ELSE Q.slot[i]] = sl
      BY <2>1, <1>2
    <2> QED BY <1>1, <2>2 DEF PushAll
  <1>4. sl \in [Indexes -> Nat]
    BY <1>n, <1>2
  <1>5. Q1 \in Queue /\ Q1.n = Q.n + count /\ Q1.tail = u /\ Q1.head = hd /\ Q1.slot = sl
    <2>1. PICK n1 \in Nat : n1 = Q.n + count BY <1>n
    <2>2. Q1 = [Q EXCEPT !.tail = u, !.n = n1, !.slot = sl] BY <2>1
    <2>3. Q1 \in Queue /\ Q1.n = n1 /\ Q1.tail = u /\ Q1.head = Q.head /\ Q1.slot = sl
      BY <2>2, <1>1, <1>4 DEF Queue
    <2> QED BY <2>1, <2>3
  <1>6. ASSUME NEW i \in Indexes
        PROVE  /\ StreamqAhead(Q, i) = Dist(S, i, tl) /\ StreamqAhead(Q1, i) = Dist(S, i, u)
               /\ StreamqInused(Q, i) <=> Between(hd, i, tl)
               /\ StreamqInused(Q1, i) <=> Between(hd, i, u)
               /\ Between(hd, i, tl) \/ i = tl =>
                     (Between(hd, i, u) \/ i = u) /\ Dist(S, i, u) = Dist(S, i, tl) + count
               /\ Between(hd, i, u) =>
                     \/ Dist(S, tl, i) < count /\ Dist(S, i, u) = count - Dist(S, tl, i)
                     \/ ~(Dist(S, tl, i) < count) /\ Between(hd, i, tl)
               /\ Dist(S, i, u) \in Int /\ Dist(S, i, tl) \in Int
    <2>1. i \in 0 .. S - 1 /\ count \in 0 .. N
      BY DEF Indexes
    <2>2. /\ Between(hd, i, tl) \/ i = tl =>
                (Between(hd, i, u) \/ i = u) /\ Dist(S, i, u) = Dist(S, i, tl) + count
          /\ Between(hd, i, u) =>
                \/ Dist(S, tl, i) < count /\ Dist(S, i, u) = count - Dist(S, tl, i)
                \/ ~(Dist(S, tl, i) < count) /\ Between(hd, i, tl)
      BY <1>0, <2>1, PushArith
    <2>3. Dist(S, i, u) \in Int /\ Dist(S, i, tl) \in Int
      BY <2>1 DEF Dist
    <2> QED BY <2>2, <2>3, <1>5, QueueArith
  <1>7. ASSUME Numbered(Q) PROVE Numbered(Q1)
    <2> SUFFICES ASSUME NEW i \in Indexes, StreamqInused(Q1, i)
                 PROVE  sl[i] = (Q.n + count) - StreamqAhead(Q1, i) + 1
      BY <1>5 DEF Numbered
    <2>1. CASE Dist(S, tl, i) < count
      <3>1. sl[i] = Q.n + 1 + Dist(S, tl, i) /\ Dist(S, tl, i) \in Nat
        BY <2>1, <1>2
      <3>2. StreamqAhead(Q1, i) = count - Dist(S, tl, i)
        BY <2>1, <1>6
      <3> QED BY <3>1, <3>2, <1>n
    <2>2. CASE ~(Dist(S, tl, i) < count)
      <3>1. StreamqInused(Q, i) /\ Dist(S, i, u) = Dist(S, i, tl) + count
        BY <2>2, <1>6
      <3>2. sl[i] = Q.n - Dist(S, i, tl) + 1
        BY <2>2, <3>1, <1>6, <1>7 DEF Numbered
      <3>3. StreamqAhead(Q1, i) = Dist(S, i, tl) + count /\ Dist(S, i, tl) \in Int
        BY <3>1, <1>6
      <3> QED BY <3>2, <3>3, <1>n
    <2> QED BY <2>1, <2>2
  <1>8. ASSUME NEW r \in Rtp, At(Q, r) PROVE At(Q1, r)
    <2>1. r.idx \in Indexes /\ r.last \in Nat
      BY DEF Rtp
    <2>2. r.last <= Q.n - Dist(S, r.idx, tl) /\ (Between(hd, r.idx, tl) \/ r.idx = tl)
      BY <2>1, <1>6, <1>8 DEF At
    <2>3. Dist(S, r.idx, u) = Dist(S, r.idx, tl) + count /\ (Between(hd, r.idx, u) \/ r.idx = u)
      BY <2>1, <2>2, <1>6
    <2>4. r.last <= (Q.n + count) - Dist(S, r.idx, u)
      <3>1. Dist(S, r.idx, tl) \in Int BY <2>1, <1>6
      <3> QED BY <3>1, <2>1, <2>2, <2>3, <1>n
    <2> QED BY <2>1, <2>3, <2>4, <1>5, <1>6 DEF At
  <1> QED BY <1>3, <1>5, <1>7, <1>8

\* k packets go out; the last one of them is the one before the new place.
LEMMA TxPacketsFacts ==
    ASSUME RtspConstants, NEW Q \in Queue, Numbered(Q), NEW r \in Rtp, At(Q, r),
           NEW k \in Nat, k <= StreamqAhead(Q, r.idx)
    PROVE  LET x == TxPackets(Q, r, k) IN
           /\ x \in Rtp /\ x.port = r.port /\ At(Q, x) /\ x.last <= Q.n
  <1> PICK hd \in 0 .. Slots - 1, tl \in 0 .. Slots - 1 : hd = Q.head /\ tl = Q.tail
    BY DEF Queue, Indexes
  <1> PICK S \in Nat : S = Slots
    BY SlotsFacts
  <1> PICK i \in 0 .. S - 1 : i = r.idx
    BY DEF Rtp, Indexes
  <1>n. Q.n \in Nat /\ Q.slot \in [Indexes -> Nat] /\ r.last \in Nat /\ i \in Indexes
    BY DEF Queue, Rtp, Indexes
  <1>0. ASSUME NEW m \in Indexes
        PROVE  /\ StreamqAhead(Q, m) = Dist(S, m, tl) /\ Dist(S, m, tl) \in 0 .. S - 1
               /\ StreamqInused(Q, m) <=> Between(hd, m, tl)
    BY QueueArith, AheadFacts DEF Indexes
  <1>1. /\ Between(hd, i, tl) \/ i = tl
        /\ r.last <= Q.n - Dist(S, i, tl) /\ k <= Dist(S, i, tl) /\ Dist(S, i, tl) \in 0 .. S - 1
    BY <1>n, <1>0 DEF At
  <1>2. ASSUME NEW m \in Nat, m <= k
        PROVE  /\ (i + m) % Slots = Onward(S, i, m) /\ Onward(S, i, m) \in Indexes
               /\ Between(hd, Onward(S, i, m), tl) \/ Onward(S, i, m) = tl
               /\ Dist(S, Onward(S, i, m), tl) = Dist(S, i, tl) - m
    <2>1. i + m \in Nat /\ i + m < 2 * Slots
      BY <1>1, <1>2
    <2>2. (i + m) % Slots = Onward(S, i, m)
      BY <2>1, ModWrap DEF Wrap, Onward
    <2>3. m <= Dist(S, i, tl)
      BY <1>1, <1>2
    <2>4. /\ Onward(S, i, m) \in 0 .. S - 1
          /\ Between(hd, Onward(S, i, m), tl) \/ Onward(S, i, m) = tl
          /\ Dist(S, Onward(S, i, m), tl) = Dist(S, i, tl) - m
      BY <1>1, <2>3, TxArith
    <2> QED BY <2>2, <2>4 DEF Indexes
  <1>3. CASE k = 0
    <2>0. (r.idx + k) % Slots = Onward(S, i, k)
      BY <1>2
    <2>1. TxPackets(Q, r, k) = [r EXCEPT !.idx = Onward(S, i, k), !.last = r.last]
      BY <2>0, <1>3 DEF TxPackets
    <2>2. Onward(S, i, k) = i
      BY <1>3 DEF Onward
    <2>3. PICK x : x = [r EXCEPT !.idx = i, !.last = r.last] OBVIOUS
    <2>4. x \in Rtp /\ x.idx = i /\ x.last = r.last /\ x.port = r.port
      BY <2>3 DEF Rtp
    <2> QED BY <2>1, <2>2, <2>3, <2>4, <1>1, <1>n DEF At
  <1>4. CASE k # 0
    <2> PICK j \in Indexes : j = Onward(S, i, k) BY <1>2
    <2> PICK m \in Indexes : m = Onward(S, i, k - 1) BY <1>2, <1>4
    <2>1. k - 1 \in Nat /\ k - 1 <= k /\ (i + k) - 1 = i + (k - 1) /\ i + k - 1 = i + (k - 1)
      BY <1>4
    <2>2. (i + k) % Slots = j /\ (i + (k - 1)) % Slots = m
      BY <1>2, <2>1
    <2>3. Dist(S, m, tl) = Dist(S, i, tl) - (k - 1) /\ Dist(S, j, tl) = Dist(S, i, tl) - k
      BY <1>2, <2>1
    <2>4. StreamqInused(Q, m)
      <3>1. Dist(S, m, tl) > 0 BY <2>3, <1>1, <1>4
      <3>2. m # tl BY <3>1 DEF Dist
      <3> QED BY <3>2, <1>0, <1>2, <2>1
    <2>5. Q.slot[m] = Q.n - Dist(S, j, tl) /\ Q.slot[m] \in Nat
      <3>1. Q.slot[m] = Q.n - Dist(S, m, tl) + 1
        BY <2>4, <1>0 DEF Numbered
      <3> QED BY <3>1, <2>3, <1>1, <1>n
    <2>6. PICK x : x = [r EXCEPT !.idx = j, !.last = Q.slot[m]] OBVIOUS
    <2>7. TxPackets(Q, r, k) = x
      BY <2>1, <2>2, <2>6, <1>4 DEF TxPackets
    <2>8. x \in Rtp /\ x.idx = j /\ x.last = Q.slot[m] /\ x.port = r.port
      BY <2>5, <2>6 DEF Rtp
    <2>9. StreamqInused(Q, j) \/ j = Q.tail
      BY <1>0, <1>2
    <2> QED BY <2>5, <2>7, <2>8, <2>9, <1>0, <1>n DEF At
  <1> QED BY <1>3, <1>4

----------------------------------------------------------------------------
\* The invariant.
Turn == [c : Clients \cup {None}, had : SUBSET Tracks, freed : SUBSET Tracks]

TypeOK ==
    /\ q \in [Sessions -> [Tracks -> Queue \cup {None}]]
    /\ cc \in [Clients -> Conn \cup {None}]
    /\ listed \in SUBSET Sessions
    /\ open \in SUBSET Ports
    /\ turn \in Turn

\* The connection of a turn is there until the turn ends, and what the turn
\* had and no request freed is there as well.
TurnInv ==
    turn.c # None =>
        /\ cc[turn.c] # None
        /\ \A t \in turn.had : cc[turn.c].rtp[t] = None => t \in turn.freed

LinkInv(c) ==
    cc[c] # None =>
        /\ cc[c].session # None => cc[c].session \in listed
        /\ \A t \in Tracks : cc[c].rtp[t] # None =>
              /\ cc[c].session # None /\ q[cc[c].session][t] # None
              /\ cc[c].state # "init"

QueueInv == \A s \in Sessions, t \in Tracks : q[s][t] # None => Numbered(q[s][t])

ReaderInv(c, t) ==
    cc[c] # None /\ cc[c].rtp[t] # None =>
        /\ cc[c].rtp[t].last <= q[cc[c].session][t].n
        /\ cc[c].state = "playing" => At(q[cc[c].session][t], cc[c].rtp[t])

\* The pair of UDP ports behind a track of a client; the open pairs are
\* those, and no two tracks share one.
PortOf(c, t) == IF cc[c] = None THEN None
                ELSE IF cc[c].rtp[t] = None THEN None ELSE cc[c].rtp[t].port
PortsInv ==
    /\ \A p \in Ports : p \in open <=> \E c \in Clients, t \in Tracks : PortOf(c, t) = p
    /\ \A c, d \in Clients, t, u \in Tracks :
          PortOf(c, t) = PortOf(d, u) /\ PortOf(c, t) # None => c = d /\ t = u

ServerInv ==
    /\ TypeOK /\ TurnInv /\ QueueInv /\ PortsInv
    /\ \A c \in Clients : LinkInv(c)
    /\ \A c \in Clients, t \in Tracks : ReaderInv(c, t)

LEMMA PortOfType ==
    ASSUME TypeOK, NEW c \in Clients, NEW t \in Tracks PROVE PortOf(c, t) \in Ports \cup {None}
  BY DEF TypeOK, PortOf, Conn, Rtp

LEMMA PairsFacts ==
    ASSUME RtspConstants, TypeOK, NEW c \in Clients, cc[c] # None, NEW T \in SUBSET Tracks
    PROVE  /\ PairsOf(c, T) \subseteq Ports
           /\ \A p \in Ports : p \in PairsOf(c, T) <=> \E t \in T : PortOf(c, t) = p
  BY DEF RtspConstants, TypeOK, PairsOf, PortOf, Conn, Rtp

\* Tracks of clients lose their pair, and one of them may get another one.
LEMMA PortsLost ==
    ASSUME RtspConstants, TypeOK, TypeOK', PortsInv, NEW L \in SUBSET (Clients \X Tracks),
           \A c \in Clients, t \in Tracks :
              PortOf(c, t)' = IF <<c, t>> \in L THEN None ELSE PortOf(c, t),
           \A p \in Ports : p \in open' <=>
              p \in open /\ ~\E c \in Clients, t \in Tracks : <<c, t>> \in L /\ PortOf(c, t) = p
    PROVE  PortsInv'
  <1>1. ASSUME NEW r \in Ports
        PROVE  r \in open' <=> \E c \in Clients, t \in Tracks : PortOf(c, t)' = r
    <2>0. r # None BY DEF RtspConstants
    <2>1. ASSUME r \in open' PROVE \E c \in Clients, t \in Tracks : PortOf(c, t)' = r
      <3>1. PICK c \in Clients, t \in Tracks : PortOf(c, t) = r
        BY <2>1 DEF PortsInv
      <3>2. <<c, t>> \notin L BY <2>1, <3>1
      <3> QED BY <3>1, <3>2
    <2>2. ASSUME NEW c \in Clients, NEW t \in Tracks, PortOf(c, t)' = r PROVE r \in open'
      <3>1. <<c, t>> \notin L /\ PortOf(c, t) = r BY <2>0, <2>2
      <3>2. r \in open BY <3>1 DEF PortsInv
      <3>3. ASSUME NEW d \in Clients, NEW u \in Tracks, <<d, u>> \in L, PortOf(d, u) = r
            PROVE  FALSE
        <4>1. c = d /\ t = u BY <2>0, <3>1, <3>3 DEF PortsInv
        <4> QED BY <3>1, <3>3, <4>1
      <3> QED BY <3>2, <3>3
    <2> QED BY <2>1, <2>2
  <1>2. ASSUME NEW c \in Clients, NEW e \in Clients, NEW t \in Tracks, NEW w \in Tracks,
               PortOf(c, t)' = PortOf(e, w)', PortOf(c, t)' # None
        PROVE  c = e /\ t = w
    <2>1. PortOf(c, t)' = PortOf(c, t) /\ PortOf(e, w)' = PortOf(e, w) BY <1>2
    <2>2. PortOf(c, t) = PortOf(e, w) /\ PortOf(c, t) # None BY <1>2, <2>1
    <2>3. \A a, b \in Clients, v, x \in Tracks :
             PortOf(a, v) = PortOf(b, x) /\ PortOf(a, v) # None => a = b /\ v = x
      BY DEF PortsInv
    <2> QED BY <2>2, <2>3
  <1>3. (\A r \in Ports : r \in open <=> \E c \in Clients, t \in Tracks : PortOf(c, t) = r)'
    BY <1>1
  <1> QED BY <1>2, <1>3 DEF PortsInv

LEMMA PortsTaken ==
    ASSUME RtspConstants, TypeOK, TypeOK', PortsInv,
           NEW d \in Clients, NEW u \in Tracks, NEW p \in Ports \cup {None},
           p # None => p \notin open \/ p = PortOf(d, u),
           PortOf(d, u)' = p,
           \A c \in Clients, t \in Tracks : c # d \/ t # u => PortOf(c, t)' = PortOf(c, t),
           \A r \in Ports : r \in open' <=> (r \in open /\ r # PortOf(d, u)) \/ r = p
    PROVE  PortsInv'
  <1>1. ASSUME NEW r \in Ports
        PROVE  r \in open' <=> \E c \in Clients, t \in Tracks : PortOf(c, t)' = r
    <2>1. CASE r = p BY <2>1
    <2>2. CASE r # p
      <3>1. ASSUME r \in open' PROVE \E c \in Clients, t \in Tracks : PortOf(c, t)' = r
        <4>1. PICK c \in Clients, t \in Tracks : PortOf(c, t) = r
          BY <2>2, <3>1 DEF PortsInv
        <4>2. c # d \/ t # u BY <2>2, <3>1, <4>1
        <4> QED BY <4>1, <4>2
      <3>2. ASSUME NEW c \in Clients, NEW t \in Tracks, PortOf(c, t)' = r PROVE r \in open'
        <4>1. c # d \/ t # u BY <2>2, <3>2
        <4>2. PortOf(c, t) = r BY <3>2, <4>1
        <4>3. r \in open BY <4>2 DEF PortsInv
        <4>4. r # None BY DEF RtspConstants
        <4>5. r # PortOf(d, u) BY <4>1, <4>2, <4>4 DEF PortsInv
        <4> QED BY <4>3, <4>5
      <3> QED BY <3>1, <3>2
    <2> QED BY <2>1, <2>2
  <1>2. ASSUME NEW c \in Clients, NEW e \in Clients, NEW t \in Tracks, NEW w \in Tracks,
               PortOf(c, t)' = PortOf(e, w)', PortOf(c, t)' # None
        PROVE  c = e /\ t = w
    <2>1. CASE (c # d \/ t # u) /\ (e # d \/ w # u)
      BY <1>2, <2>1 DEF PortsInv
    <2>2. ASSUME NEW a \in Clients, NEW b \in Tracks, a # d \/ b # u, PortOf(a, b)' = p, p # None
          PROVE  FALSE
      <3>1. PortOf(a, b) = p /\ p \in Ports BY <2>2
      <3>2. p \in open BY <3>1 DEF PortsInv
      <3>3. p = PortOf(d, u) BY <2>2, <3>2
      <3> QED BY <2>2, <3>1, <3>3 DEF PortsInv
    <2> QED BY <1>2, <2>1, <2>2
  <1>3. (\A r \in Ports : r \in open <=> \E c \in Clients, t \in Tracks : PortOf(c, t) = r)'
    BY <1>1
  <1> QED BY <1>2, <1>3 DEF PortsInv

\* __rtp_udp_local_setup finds the first free pair.
LEMMA MinFacts ==
    ASSUME NEW P \in SUBSET Nat, P # {} PROVE Min(P) \in P
  <1>1. \E x \in P : \A y \in P : ~(<<y, x>> \in OpToRel(<, Nat))
    BY NatLessThanWellFounded, WFMin
  <1>2. \E x \in P : \A y \in P : x <= y
    <2>1. PICK x \in P : \A y \in P : ~(<<y, x>> \in OpToRel(<, Nat))
      BY <1>1
    <2>2. ASSUME NEW y \in P PROVE x <= y
      <3>1. ~(y < x)
        BY <2>1 DEF OpToRel
      <3> QED BY <3>1
    <2> QED BY <2>2
  <1> QED BY <1>2 DEF Min

LEMMA InitServer == ASSUME RtspConstants, Init PROVE ServerInv
  <1>1. TypeOK BY DEF Init, TypeOK, Turn, Idle, RtspConstants
  <1>2. TurnInv BY DEF Init, TurnInv, Idle
  <1>3. PortsInv BY DEF Init, PortsInv, PortOf, RtspConstants
  <1>4. QueueInv BY DEF Init, QueueInv
  <1>5. ASSUME NEW c \in Clients PROVE LinkInv(c) /\ \A t \in Tracks : ReaderInv(c, t)
    BY DEF Init, LinkInv, ReaderInv
  <1> QED BY <1>1, <1>2, <1>3, <1>4, <1>5 DEF ServerInv

----------------------------------------------------------------------------
\* Requests.  Each puts a connection x of session s in the place of the one
\* that has the turn.
LEMMA RequestStep ==
    ASSUME RtspConstants, ServerInv, NEW d \in Clients, turn.c = d, NEW s \in listed,
           NEW x \in Conn, x.session = s, cc' = [cc EXCEPT ![d] = x],
           q' = q, listed' = listed, open' \in SUBSET Ports, PortsInv',
           turn' \in Turn, turn'.c = d, turn'.had = turn.had,
           turn.freed \subseteq turn'.freed,
           \A t \in Tracks : cc[d].rtp[t] # None /\ x.rtp[t] = None => t \in turn'.freed,
           \A t \in Tracks : x.rtp[t] # None =>
              /\ q[s][t] # None /\ x.state # "init"
              /\ x.rtp[t].last <= q[s][t].n
              /\ x.state = "playing" => At(q[s][t], x.rtp[t])
    PROVE  ServerInv'
  <1> USE DEF ServerInv
  <1>0. /\ cc'[d] = x /\ \A c \in Clients \ {d} : cc'[c] = cc[c]
        /\ x # None /\ s # None
        /\ cc' \in [Clients -> Conn \cup {None}]
    BY DEF TypeOK, RtspConstants
  <1>1. TypeOK' BY <1>0 DEF TypeOK
  <1>2. TurnInv'
    <2>1. cc[d] # None BY DEF TurnInv, RtspConstants
    <2>2. turn.had \subseteq Tracks BY DEF TypeOK, Turn
    <2> QED BY <1>0, <2>1, <2>2 DEF TurnInv, RtspConstants
  <1>3. QueueInv' BY DEF QueueInv
  <1>4. ASSUME NEW c \in Clients PROVE LinkInv(c)'
    BY <1>0 DEF LinkInv
  <1>5. ASSUME NEW c \in Clients, NEW t \in Tracks PROVE ReaderInv(c, t)'
    <2>1. CASE c = d BY <1>0, <2>1 DEF ReaderInv
    <2>2. CASE c # d BY <1>0, <2>2 DEF ReaderInv
    <2> QED BY <2>1, <2>2
  <1> QED BY <1>1, <1>2, <1>3, <1>4, <1>5

\* The pairs of a connection that was replaced.
LEMMA ReplacedPorts ==
    ASSUME TypeOK, NEW d \in Clients, NEW x \in Conn, cc' = [cc EXCEPT ![d] = x],
           None \notin Conn
    PROVE  /\ \A c \in Clients, t \in Tracks : c # d => PortOf(c, t)' = PortOf(c, t)
           /\ \A t \in Tracks : PortOf(d, t)' = IF x.rtp[t] = None THEN None ELSE x.rtp[t].port
  <1>1. cc'[d] = x /\ x # None /\ \A c \in Clients \ {d} : cc'[c] = cc[c]
    BY DEF TypeOK
  <1> QED BY <1>1 DEF PortOf

\* A request whose connection keeps its pairs.
LEMMA SamePorts ==
    ASSUME RtspConstants, TypeOK, TypeOK', PortsInv, open' = open,
           \A c \in Clients, t \in Tracks : PortOf(c, t)' = PortOf(c, t)
    PROVE  PortsInv'
  <1>1. \A p \in Ports : p \in open' <=>
              p \in open /\ ~\E c \in Clients, t \in Tracks : <<c, t>> \in {} /\ PortOf(c, t) = p
    OBVIOUS
  <1>2. \A c \in Clients, t \in Tracks :
              PortOf(c, t)' = IF <<c, t>> \in {} THEN None ELSE PortOf(c, t)
    OBVIOUS
  <1>3. {} \in SUBSET (Clients \X Tracks) OBVIOUS
  <1> QED BY <1>1, <1>2, <1>3, PortsLost

\* What a request that reaches its handler finds.
LEMMA ReachesFacts ==
    ASSUME RtspConstants, ServerInv, NEW s \in Sessions, Reaches(s)
    PROVE  /\ turn.c \in Clients /\ s \in listed
           /\ cc[turn.c] \in Conn /\ cc[turn.c] # None
           /\ cc[turn.c].rtp \in [Tracks -> Rtp \cup {None}]
           /\ \A t \in Tracks : cc[turn.c].rtp[t] # None =>
                /\ cc[turn.c].session = s /\ q[s][t] # None /\ q[s][t] \in Queue
                /\ cc[turn.c].state # "init"
                /\ cc[turn.c].rtp[t] \in Rtp
                /\ cc[turn.c].rtp[t].last <= q[s][t].n
                /\ cc[turn.c].state = "playing" => At(q[s][t], cc[turn.c].rtp[t])
  <1>1. turn.c \in Clients /\ s \in listed /\ cc[turn.c].session \in {None, s}
    BY DEF Reaches, ServerInv, TypeOK, Turn
  <1>2. cc[turn.c] \in Conn /\ cc[turn.c] # None
    BY <1>1 DEF Reaches, ServerInv, TypeOK, TurnInv
  <1>3. cc[turn.c].rtp \in [Tracks -> Rtp \cup {None}]
    BY <1>2 DEF Conn
  <1>4. ASSUME NEW t \in Tracks, cc[turn.c].rtp[t] # None
        PROVE  /\ cc[turn.c].session = s /\ q[s][t] # None /\ q[s][t] \in Queue
               /\ cc[turn.c].state # "init"
               /\ cc[turn.c].rtp[t] \in Rtp
               /\ cc[turn.c].rtp[t].last <= q[s][t].n
               /\ cc[turn.c].state = "playing" => At(q[s][t], cc[turn.c].rtp[t])
    <2>1. LinkInv(turn.c) /\ ReaderInv(turn.c, t) BY <1>1 DEF ServerInv
    <2>2. cc[turn.c].session = s BY <1>1, <1>2, <1>4, <2>1 DEF LinkInv
    <2>3. q[s][t] \in Queue \cup {None} BY DEF ServerInv, TypeOK
    <2> QED BY <1>2, <1>3, <1>4, <2>1, <2>2, <2>3 DEF LinkInv, ReaderInv
  <1> QED BY <1>1, <1>2, <1>3, <1>4

\* A reader that joins at the tail of a queue.
LEMMA AtTail ==
    ASSUME RtspConstants, NEW Q \in Queue, NEW r \in Rtp, r.idx = Q.tail, r.last <= Q.n
    PROVE  At(Q, r)
  <1>1. Q.tail \in Indexes /\ Q.n \in Nat /\ r.last \in Nat BY DEF Queue, Rtp
  <1>2. StreamqAhead(Q, Q.tail) = 0
    BY <1>1, QueueArith DEF Dist, Indexes
  <1> QED BY <1>1, <1>2 DEF At

\* Requests that change the state only, or where the readers stand.
LEMMA PlayStep ==
    ASSUME RtspConstants, ServerInv, NEW s \in Sessions, BindOnly(s) \/ PAUSE(s) \/ PLAY(s)
    PROVE  ServerInv'
  <1>r. Reaches(s) BY DEF BindOnly, PAUSE, PLAY
  <1> PICK d \in Clients : d = turn.c BY <1>r, ReachesFacts
  <1>1. /\ s \in listed /\ cc[d] \in Conn /\ cc[d] # None
        /\ cc[d].rtp \in [Tracks -> Rtp \cup {None}]
        /\ \A t \in Tracks : cc[d].rtp[t] # None =>
                /\ cc[d].session = s /\ q[s][t] # None /\ q[s][t] \in Queue
                /\ cc[d].state # "init"
                /\ cc[d].rtp[t] \in Rtp
                /\ cc[d].rtp[t].last <= q[s][t].n
                /\ cc[d].state = "playing" => At(q[s][t], cc[d].rtp[t])
    BY <1>r, ReachesFacts
  <1>2. q' = q /\ listed' = listed /\ open' = open /\ turn' = turn
    BY DEF BindOnly, PAUSE, PLAY
  <1>3. ASSUME NEW state \in {"init", "ready", "playing"},
               NEW rtp \in [Tracks -> Rtp \cup {None}],
               Handled(s, state, rtp),
               \A t \in Tracks : rtp[t] = None <=> cc[d].rtp[t] = None,
               \A t \in Tracks : rtp[t] # None =>
                  /\ state # "init" /\ rtp[t].port = cc[d].rtp[t].port
                  /\ rtp[t].last = cc[d].rtp[t].last
                  /\ state = "playing" => At(q[s][t], rtp[t])
        PROVE  ServerInv'
    <2> PICK x : x = [state |-> state, session |-> s, rtp |-> rtp] OBVIOUS
    <2>1. x \in Conn /\ x.session = s /\ x.rtp = rtp /\ x.state = state
      BY DEF Conn
    <2>2. cc' = [cc EXCEPT ![d] = x] BY <1>3 DEF Handled
    <2>3. TypeOK'
      BY <1>2, <2>1, <2>2 DEF ServerInv, TypeOK
    <2>4. \A c \in Clients, t \in Tracks : PortOf(c, t)' = PortOf(c, t)
      <3>1. ASSUME NEW t \in Tracks PROVE PortOf(d, t)' = PortOf(d, t)
        <4>1. PortOf(d, t)' = IF x.rtp[t] = None THEN None ELSE x.rtp[t].port
          BY <2>1, <2>2, ReplacedPorts DEF ServerInv, RtspConstants
        <4> QED BY <4>1, <2>1, <1>1, <1>3 DEF PortOf
      <3> QED BY ZenonT(60), <3>1, <2>1, <2>2, ReplacedPorts DEF ServerInv, RtspConstants
    <2>5. PortsInv'
      BY <1>2, <2>3, <2>4, SamePorts DEF ServerInv
    <2>6. turn' \in Turn /\ open' \in SUBSET Ports
      BY <1>2 DEF ServerInv, TypeOK
    <2>7. \A t \in Tracks : x.rtp[t] # None =>
              /\ q[s][t] # None /\ x.state # "init"
              /\ x.rtp[t].last <= q[s][t].n
              /\ x.state = "playing" => At(q[s][t], x.rtp[t])
      BY <1>1, <1>3, <2>1
    <2>8. \A t \in Tracks : cc[d].rtp[t] # None /\ x.rtp[t] = None => t \in turn'.freed
      BY <1>3, <2>1
    <2>9. turn.c = d /\ turn'.c = d /\ turn'.had = turn.had /\ turn.freed \subseteq turn'.freed
      BY <1>2
    <2>10. s \in listed /\ q' = q /\ listed' = listed
      BY <1>1, <1>2
    <2> QED BY ZenonT(60), <2>1, <2>2, <2>5, <2>6, <2>7, <2>8, <2>9, <2>10, RequestStep
  <1>4. CASE BindOnly(s)
    <2>1. cc[d].state \in {"init", "ready", "playing"} BY <1>1 DEF Conn
    <2>2. Handled(s, cc[d].state, cc[d].rtp) BY <1>4 DEF BindOnly
    <2> QED BY <1>1, <1>3, <2>1, <2>2
  <1>5. CASE PAUSE(s)
    <2>1. Handled(s, "ready", cc[d].rtp) BY <1>5 DEF PAUSE
    <2> QED BY <1>1, <1>3, <2>1
  <1>6. CASE PLAY(s)
    <2>1. CASE cc[d].state = "playing"
      <3>1. Handled(s, "playing", cc[d].rtp) BY <1>6, <2>1 DEF PLAY
      <3> QED BY <1>1, <1>3, <2>1, <3>1
    <2>2. CASE cc[d].state # "playing"
      <3> PICK rtp : rtp = [t \in Tracks |->
                        IF cc[d].rtp[t] = None THEN None
                        ELSE [cc[d].rtp[t] EXCEPT !.idx = q[s][t].tail]] OBVIOUS
      <3>1. Handled(s, "playing", rtp) BY <1>6, <2>2 DEF PLAY
      <3>2. ASSUME NEW t \in Tracks, cc[d].rtp[t] # None
            PROVE  /\ rtp[t] \in Rtp /\ rtp[t] # None
                   /\ rtp[t].port = cc[d].rtp[t].port
                   /\ rtp[t].last = cc[d].rtp[t].last
                   /\ At(q[s][t], rtp[t])
        <4>1. q[s][t] \in Queue /\ cc[d].rtp[t] \in Rtp /\ cc[d].rtp[t].last <= q[s][t].n
          BY <1>1, <3>2
        <4>2. q[s][t].tail \in Indexes BY <4>1 DEF Queue
        <4>3. rtp[t] = [cc[d].rtp[t] EXCEPT !.idx = q[s][t].tail]
          BY <3>2
        <4>4. /\ rtp[t] \in Rtp /\ rtp[t].port = cc[d].rtp[t].port
              /\ rtp[t].last = cc[d].rtp[t].last /\ rtp[t].idx = q[s][t].tail
          BY <4>1, <4>2, <4>3 DEF Rtp
        <4> QED BY <4>1, <4>4, AtTail DEF RtspConstants
      <3>3. ASSUME NEW t \in Tracks, cc[d].rtp[t] = None PROVE rtp[t] = None
        BY <3>3
      <3>4. rtp \in [Tracks -> Rtp \cup {None}]
        BY <3>2, <3>3
      <3> QED BY SMTT(30), <1>3, <3>1, <3>2, <3>3, <3>4
    <2> QED BY <2>1, <2>2
  <1> QED BY <1>4, <1>5, <1>6

\* The pointers a turn loses.
LEMMA FreedFacts ==
    ASSUME TypeOK, NEW T \in SUBSET Tracks, Freed(T)
    PROVE  /\ turn' \in Turn /\ turn'.c = turn.c /\ turn'.had = turn.had
           /\ turn.freed \subseteq turn'.freed
           /\ \A t \in T : cc[turn.c].rtp[t] # None => t \in turn'.freed
  <1> PICK F \in SUBSET Tracks : F = {t \in T : cc[turn.c].rtp[t] # None} OBVIOUS
  <1>1. turn' = [turn EXCEPT !.freed = @ \cup F] BY DEF Freed
  <1>2. turn'.freed = turn.freed \cup F BY <1>1 DEF TypeOK, Turn
  <1> QED BY <1>1, <1>2 DEF TypeOK, Turn

\* A SETUP that succeeds.
LEMMA SetupStep ==
    ASSUME RtspConstants, ServerInv, NEW s \in Sessions, NEW t \in Tracks,
           NEW port \in Ports \cup {None}, SETUP(s, t, port),
           port # None => port \in FreePorts(t)
    PROVE  ServerInv'
  <1>r. Reaches(s) BY DEF SETUP
  <1> PICK d \in Clients : d = turn.c BY <1>r, ReachesFacts
  <1>1. /\ s \in listed /\ cc[d] \in Conn /\ cc[d] # None
        /\ cc[d].rtp \in [Tracks -> Rtp \cup {None}]
        /\ \A u \in Tracks : cc[d].rtp[u] # None =>
                /\ cc[d].session = s /\ q[s][u] # None /\ q[s][u] \in Queue
                /\ cc[d].state # "init"
                /\ cc[d].rtp[u] \in Rtp
                /\ cc[d].rtp[u].last <= q[s][u].n
                /\ cc[d].state = "playing" => At(q[s][u], cc[d].rtp[u])
    BY <1>r, ReachesFacts
  <1>q. q[s][t] # None /\ q[s][t] \in Queue
    BY DEF SETUP, ServerInv, TypeOK
  <1> PICK state \in {"init", "ready", "playing"} :
         state = IF cc[d].state = "init" THEN "ready" ELSE cc[d].state
    BY <1>1 DEF Conn
  <1>n. PICK n : n = NewRtp(s, t, port) OBVIOUS
  <1>2. /\ n \in Rtp /\ n # None /\ n.port = port /\ n.last = 0
        /\ state = "playing" => n.idx = q[s][t].tail
    <2>0. 0 \in Indexes BY SlotsFacts DEF Indexes
    <2>1. q[s][t].tail \in Indexes /\ 0 \in Indexes
      BY <2>0, <1>q DEF Queue
    <2>2. n \in Rtp /\ n.port = port /\ n.last = 0
      BY <2>1, <1>n DEF NewRtp, Rtp
    <2>3. state = "playing" => n.idx = q[s][t].tail
      BY <1>n DEF NewRtp
    <2> QED BY <2>2, <2>3 DEF RtspConstants
  <1>3. At(q[s][t], n) \/ state # "playing"
    BY <1>2, <1>q, AtTail DEF Queue
  <1>p. PICK rtp : rtp = [cc[d].rtp EXCEPT ![t] = n] OBVIOUS
  <1>4. /\ rtp \in [Tracks -> Rtp \cup {None}] /\ rtp[t] = n
        /\ \A u \in Tracks \ {t} : rtp[u] = cc[d].rtp[u]
    BY <1>p, <1>1, <1>2
  <1>x. PICK x : x = [state |-> state, session |-> s, rtp |-> rtp] OBVIOUS
  <1>5. x \in Conn /\ x.session = s /\ x.rtp = rtp /\ x.state = state
    BY <1>x, <1>4 DEF Conn
  <1>6. cc' = [cc EXCEPT ![d] = x]
    BY <1>n, <1>p, <1>x DEF SETUP, Handled
  <1>7. /\ q' = q /\ listed' = listed
        /\ open' = (open \ PairsOf(d, {t})) \cup ({port} \ {None})
        /\ Freed({t})
    BY DEF SETUP
  <1>8. /\ turn' \in Turn /\ turn'.c = d /\ turn'.had = turn.had
        /\ turn.freed \subseteq turn'.freed
    BY <1>7, FreedFacts DEF ServerInv
  <1>9. open' \in SUBSET Ports
    BY <1>7 DEF ServerInv, TypeOK
  <1>10. TypeOK'
    BY <1>5, <1>6, <1>7, <1>8, <1>9 DEF ServerInv, TypeOK
  <1>11. PortsInv'
    <2>1. \A p \in Ports : p \in PairsOf(d, {t}) <=> PortOf(d, t) = p
      BY <1>1, PairsFacts DEF ServerInv
    <2>2. /\ \A c \in Clients, u \in Tracks : c # d => PortOf(c, u)' = PortOf(c, u)
          /\ \A u \in Tracks : PortOf(d, u)' = IF x.rtp[u] = None THEN None ELSE x.rtp[u].port
      BY <1>5, <1>6, ReplacedPorts DEF ServerInv, RtspConstants
    <2>3. PortOf(d, t)' = port BY <2>2, <1>2, <1>4, <1>5
    <2>4. ASSUME NEW u \in Tracks, u # t PROVE PortOf(d, u)' = PortOf(d, u)
      BY <2>2, <2>4, <1>1, <1>4, <1>5 DEF PortOf
    <2>5. \A r \in Ports : r \in open' <=> (r \in open /\ r # PortOf(d, t)) \/ r = port
      BY <2>1, <1>7 DEF RtspConstants
    <2>6. port # None => port \notin open \/ port = PortOf(d, t)
      BY <2>1 DEF FreePorts, RtspConstants
    <2>7. \A c \in Clients, u \in Tracks : c # d \/ u # t => PortOf(c, u)' = PortOf(c, u)
      BY <2>2, <2>4
    <2> QED BY <2>3, <2>5, <2>6, <2>7, <1>10, PortsTaken DEF ServerInv
  <1>12. \A u \in Tracks : x.rtp[u] # None =>
              /\ q[s][u] # None /\ x.state # "init"
              /\ x.rtp[u].last <= q[s][u].n
              /\ x.state = "playing" => At(q[s][u], x.rtp[u])
    <2>1. ASSUME NEW u \in Tracks, u # t, x.rtp[u] # None
          PROVE  /\ q[s][u] # None /\ x.state # "init"
                 /\ x.rtp[u].last <= q[s][u].n
                 /\ x.state = "playing" => At(q[s][u], x.rtp[u])
      BY <2>1, <1>1, <1>4, <1>5
    <2>2. /\ q[s][t] # None /\ x.state # "init"
          /\ x.rtp[t].last <= q[s][t].n
          /\ x.state = "playing" => At(q[s][t], x.rtp[t])
      BY <1>2, <1>3, <1>4, <1>5, <1>q DEF Queue
    <2> QED BY <2>1, <2>2
  <1>13. \A u \in Tracks : cc[d].rtp[u] # None /\ x.rtp[u] = None => u \in turn'.freed
    BY <1>2, <1>4, <1>5
  <1>14. turn.c = d /\ s \in listed /\ q' = q /\ listed' = listed
    BY <1>1, <1>7
  <1> QED BY <1>5, <1>6, <1>8, <1>9, <1>11, <1>12, <1>13, <1>14, RequestStep

\* The tracks in T lose their RTP connection: TEARDOWN, and a SETUP that fails.
LEMMA LossStep ==
    ASSUME RtspConstants, ServerInv, NEW s \in Sessions, NEW T \in SUBSET Tracks, Reaches(s),
           NEW state \in {"init", "ready", "playing"}, NEW rtp,
           rtp = [t \in Tracks |-> IF t \in T THEN None ELSE cc[turn.c].rtp[t]],
           state = "init" => \A t \in Tracks : rtp[t] = None,
           state = "playing" => cc[turn.c].state = "playing",
           Handled(s, state, rtp), open' = open \ PairsOf(turn.c, T), Freed(T),
           q' = q, listed' = listed
    PROVE  ServerInv'
  <1> PICK d \in Clients : d = turn.c BY ReachesFacts
  <1>1. /\ s \in listed /\ cc[d] \in Conn /\ cc[d] # None
        /\ cc[d].rtp \in [Tracks -> Rtp \cup {None}]
        /\ \A u \in Tracks : cc[d].rtp[u] # None =>
                /\ cc[d].session = s /\ q[s][u] # None /\ q[s][u] \in Queue
                /\ cc[d].state # "init"
                /\ cc[d].rtp[u] \in Rtp
                /\ cc[d].rtp[u].last <= q[s][u].n
                /\ cc[d].state = "playing" => At(q[s][u], cc[d].rtp[u])
    BY ReachesFacts
  <1>4. /\ rtp \in [Tracks -> Rtp \cup {None}] /\ \A t \in T : rtp[t] = None
        /\ \A u \in Tracks \ T : rtp[u] = cc[d].rtp[u]
    BY <1>1
  <1> PICK x : x = [state |-> state, session |-> s, rtp |-> rtp] OBVIOUS
  <1>5. x \in Conn /\ x.session = s /\ x.rtp = rtp /\ x.state = state
    BY <1>4 DEF Conn
  <1>6. cc' = [cc EXCEPT ![d] = x]
    BY DEF Handled
  <1>8. /\ turn' \in Turn /\ turn'.c = d /\ turn'.had = turn.had
        /\ turn.freed \subseteq turn'.freed
        /\ \A t \in T : cc[d].rtp[t] # None => t \in turn'.freed
    BY FreedFacts DEF ServerInv
  <1>9. open' \in SUBSET Ports
    BY DEF ServerInv, TypeOK
  <1>10. TypeOK'
    BY <1>5, <1>6, <1>8, <1>9 DEF ServerInv, TypeOK
  <1>11. PortsInv'
    <2> PICK L \in SUBSET (Clients \X Tracks) : L = {d} \X T OBVIOUS
    <2>1. \A p \in Ports : p \in PairsOf(d, T) <=> \E t \in T : PortOf(d, t) = p
      BY <1>1, PairsFacts DEF ServerInv
    <2>2. /\ \A c \in Clients, u \in Tracks : c # d => PortOf(c, u)' = PortOf(c, u)
          /\ \A u \in Tracks : PortOf(d, u)' = IF x.rtp[u] = None THEN None ELSE x.rtp[u].port
      BY <1>5, <1>6, ReplacedPorts DEF ServerInv, RtspConstants
    <2>3. ASSUME NEW u \in T PROVE PortOf(d, u)' = None
      BY <2>2, <1>4, <1>5
    <2>4. ASSUME NEW u \in Tracks \ T PROVE PortOf(d, u)' = PortOf(d, u)
      BY <2>2, <1>1, <1>4, <1>5 DEF PortOf
    <2>5. \A c \in Clients, u \in Tracks : <<c, u>> \in L <=> c = d /\ u \in T
      OBVIOUS
    <2>6. \A c \in Clients, u \in Tracks :
              PortOf(c, u)' = IF <<c, u>> \in L THEN None ELSE PortOf(c, u)
      <3> SUFFICES ASSUME NEW c \in Clients, NEW u \in Tracks
                   PROVE  PortOf(c, u)' = IF <<c, u>> \in L THEN None ELSE PortOf(c, u)
        OBVIOUS
      <3>1. CASE c # d
        <4>1. <<c, u>> \notin L BY <2>5, <3>1
        <4> QED BY <2>2, <3>1, <4>1
      <3>2. CASE c = d /\ u \in T
        <4>1. <<c, u>> \in L BY <2>5, <3>2
        <4> QED BY <2>3, <3>2, <4>1
      <3>3. CASE c = d /\ u \notin T
        <4>1. <<c, u>> \notin L BY <2>5, <3>3
        <4> QED BY <2>4, <3>3, <4>1
      <3> QED BY <3>1, <3>2, <3>3
    <2>7. \A p \in Ports : p \in open' <=>
              p \in open /\ ~\E c \in Clients, t \in Tracks : <<c, t>> \in L /\ PortOf(c, t) = p
      <3> SUFFICES ASSUME NEW p \in Ports
                   PROVE  (\E t \in T : PortOf(d, t) = p) <=>
                          \E c \in Clients, t \in Tracks : <<c, t>> \in L /\ PortOf(c, t) = p
        BY <2>1
      <3> QED BY <2>5
    <2> QED BY <2>6, <2>7, <1>10, PortsLost DEF ServerInv
  <1>12. \A u \in Tracks : x.rtp[u] # None =>
              /\ q[s][u] # None /\ x.state # "init"
              /\ x.rtp[u].last <= q[s][u].n
              /\ x.state = "playing" => At(q[s][u], x.rtp[u])
    BY <1>1, <1>4, <1>5
  <1>13. \A u \in Tracks : cc[d].rtp[u] # None /\ x.rtp[u] = None => u \in turn'.freed
    BY <1>4, <1>5, <1>8
  <1>14. turn.c = d /\ s \in listed
    BY <1>1
  <1> QED BY <1>5, <1>6, <1>8, <1>9, <1>11, <1>12, <1>13, <1>14, RequestStep

LEMMA RequestsStep ==
    ASSUME RtspConstants, ServerInv, NEW s \in Sessions, Requests(s) PROVE ServerInv'
  <1>1. CASE BindOnly(s) \/ PAUSE(s) \/ PLAY(s)
    BY <1>1, PlayStep
  <1>2. ASSUME NEW t \in Tracks, SETUP(s, t, None) PROVE ServerInv'
    BY <1>2, SetupStep
  <1>3. ASSUME NEW t \in Tracks, SETUPUdp(s, t) PROVE ServerInv'
    <2>1. FreePorts(t) \in SUBSET Nat /\ FreePorts(t) \subseteq Ports /\ FreePorts(t) # {}
      BY <1>3 DEF SETUPUdp, FreePorts, RtspConstants
    <2>2. Min(FreePorts(t)) \in FreePorts(t)
      BY <2>1, MinFacts
    <2>3. Min(FreePorts(t)) \in Ports BY <2>1, <2>2
    <2>4. SETUP(s, t, Min(FreePorts(t))) BY <1>3 DEF SETUPUdp
    <2> QED BY <2>2, <2>3, <2>4, SetupStep
  <1>4. ASSUME NEW t \in Tracks, SETUPFails(s, t) PROVE ServerInv'
    <2>r. Reaches(s) BY <1>4 DEF SETUPFails
    <2>1. /\ cc[turn.c] \in Conn /\ cc[turn.c].rtp \in [Tracks -> Rtp \cup {None}]
          /\ \A u \in Tracks : cc[turn.c].rtp[u] # None => cc[turn.c].state # "init"
      BY <2>r, ReachesFacts
    <2> PICK rtp : rtp = [u \in Tracks |-> IF u \in {t} THEN None ELSE cc[turn.c].rtp[u]]
      OBVIOUS
    <2>2. rtp = [cc[turn.c].rtp EXCEPT ![t] = None] BY <2>1
    <2> PICK state \in {"init", "ready", "playing"} : state = cc[turn.c].state
      BY <2>1 DEF Conn
    <2>3. /\ Handled(s, state, rtp) /\ open' = open \ PairsOf(turn.c, {t}) /\ Freed({t})
          /\ q' = q /\ listed' = listed
      BY <1>4, <2>2 DEF SETUPFails
    <2>4. state = "init" => \A u \in Tracks : rtp[u] = None BY <2>1
    <2>5. {t} \in SUBSET Tracks OBVIOUS
    <2> QED BY <2>r, <2>3, <2>4, <2>5, LossStep
  <1>5. ASSUME NEW T \in SUBSET Tracks, TEARDOWN(s, T) PROVE ServerInv'
    <2>r. Reaches(s) BY <1>5 DEF TEARDOWN
    <2>1. /\ cc[turn.c] \in Conn
          /\ \A u \in Tracks : cc[turn.c].rtp[u] # None => cc[turn.c].state # "init"
      BY <2>r, ReachesFacts
    <2> PICK rtp : rtp = [u \in Tracks |-> IF u \in T THEN None ELSE cc[turn.c].rtp[u]]
      OBVIOUS
    <2> PICK state \in {"init", "ready", "playing"} :
           state = IF \A u \in Tracks : rtp[u] = None THEN "init" ELSE cc[turn.c].state
      BY <2>1 DEF Conn
    <2>3. /\ Handled(s, state, rtp) /\ open' = open \ PairsOf(turn.c, T) /\ Freed(T)
          /\ q' = q /\ listed' = listed
      BY <1>5 DEF TEARDOWN
    <2>4. state = "init" => \A u \in Tracks : rtp[u] = None BY <2>1
    <2> QED BY <2>r, <2>3, <2>4, LossStep
  <1> QED BY <1>1, <1>2, <1>3, <1>4, <1>5 DEF Requests

----------------------------------------------------------------------------
\* Connections that go: rtsp_del_client_connection of those in C.  Sessions
\* and queues go only with the connections that use them.
LEMMA DelStep ==
    ASSUME RtspConstants, ServerInv, NEW C \in SUBSET Clients, DelClients(C),
           \A c \in C : cc[c] # None,
           listed' \in SUBSET Sessions,
           q' \in [Sessions -> [Tracks -> Queue \cup {None}]],
           \A s \in Sessions, t \in Tracks : q'[s][t] = q[s][t] \/ q'[s][t] = None,
           \A c \in Clients \ C : cc[c] # None /\ cc[c].session # None =>
              cc[c].session \in listed' /\ q'[cc[c].session] = q[cc[c].session],
           turn' \in Turn, turn'.c = None
    PROVE  ServerInv'
  <1> USE DEF ServerInv
  <1>0. /\ cc' \in [Clients -> Conn \cup {None}]
        /\ \A c \in C : cc'[c] = None
        /\ \A c \in Clients \ C : cc'[c] = cc[c]
    BY DEF DelClients, TypeOK
  <1>1. TypeOK'
    BY <1>0 DEF TypeOK, DelClients
  <1>2. TurnInv' BY DEF TurnInv
  <1>3. QueueInv' BY DEF QueueInv
  <1>4. ASSUME NEW c \in Clients PROVE LinkInv(c)'
    BY <1>0 DEF LinkInv
  <1>5. ASSUME NEW c \in Clients, NEW t \in Tracks PROVE ReaderInv(c, t)'
    <2>1. CASE c \in C BY <1>0, <2>1 DEF ReaderInv
    <2>2. CASE c \notin C
      <3>1. cc'[c] = cc[c] BY <1>0, <2>2
      <3>2. cc[c] # None /\ cc[c].rtp[t] # None => q'[cc[c].session] = q[cc[c].session]
        BY <2>2 DEF LinkInv
      <3> QED BY <3>1, <3>2 DEF ReaderInv
    <2> QED BY <2>1, <2>2
  <1>6. PortsInv'
    <2> PICK L \in SUBSET (Clients \X Tracks) : L = C \X Tracks OBVIOUS
    <2>1. \A c \in Clients, t \in Tracks : <<c, t>> \in L <=> c \in C
      OBVIOUS
    <2>2. ASSUME NEW c \in Clients, NEW t \in Tracks
          PROVE  PortOf(c, t)' = IF <<c, t>> \in L THEN None ELSE PortOf(c, t)
      <3>1. CASE c \in C BY <2>1, <3>1, <1>0 DEF PortOf
      <3>2. CASE c \notin C
        <4>1. cc'[c] = cc[c] /\ <<c, t>> \notin L BY <2>1, <3>2, <1>0
        <4> QED BY <4>1 DEF PortOf
      <3> QED BY <3>1, <3>2
    <2>3. ASSUME NEW p \in Ports
          PROVE  p \in open' <=>
              p \in open /\ ~\E c \in Clients, t \in Tracks : <<c, t>> \in L /\ PortOf(c, t) = p
      <3>1. open' = open \ UNION {PairsOf(c, Tracks) : c \in C} BY DEF DelClients
      <3>2. \A c \in C : p \in PairsOf(c, Tracks) <=> \E t \in Tracks : PortOf(c, t) = p
        BY PairsFacts
      <3>3. p \in UNION {PairsOf(c, Tracks) : c \in C} <=> \E c \in C, t \in Tracks : PortOf(c, t) = p
        BY <3>2
      <3>4. (\E c \in C, t \in Tracks : PortOf(c, t) = p) <=>
              \E c \in Clients, t \in Tracks : <<c, t>> \in L /\ PortOf(c, t) = p
        BY <2>1
      <3> QED BY <3>1, <3>3, <3>4
    <2> QED BY <2>2, <2>3, <1>1, PortsLost
  <1> QED BY <1>1, <1>2, <1>3, <1>4, <1>5, <1>6

LEMMA IdleFacts == Idle \in Turn /\ Idle.c = None
  BY DEF Idle, Turn

LEMMA GoneStep ==
    ASSUME RtspConstants, ServerInv,
           (\E s \in Sessions : DelSession(s)) \/ DelDemo \/ PeerGone
    PROVE  ServerInv'
  <1>t. q \in [Sessions -> [Tracks -> Queue \cup {None}]] /\ listed \in SUBSET Sessions
    BY DEF ServerInv, TypeOK
  <1>l. \A c \in Clients : cc[c] # None /\ cc[c].session # None => cc[c].session \in listed
    BY DEF ServerInv, LinkInv
  <1>1. ASSUME NEW s \in Sessions, DelSession(s) PROVE ServerInv'
    <2>1. /\ BoundTo(s) \in SUBSET Clients /\ \A c \in BoundTo(s) : cc[c] # None
          /\ \A c \in Clients \ BoundTo(s) : cc[c] # None => cc[c].session # s
      BY DEF BoundTo
    <2>2. /\ listed' = listed \ {s} /\ q' = [q EXCEPT ![s] = [t \in Tracks |-> None]]
          /\ turn' = Idle /\ DelClients(BoundTo(s))
      BY <1>1 DEF DelSession
    <2>3. /\ q' \in [Sessions -> [Tracks -> Queue \cup {None}]]
          /\ \A r \in Sessions, t \in Tracks : q'[r][t] = q[r][t] \/ q'[r][t] = None
          /\ \A r \in Sessions : r # s => q'[r] = q[r]
      BY <1>t, <2>2
    <2>4. \A c \in Clients \ BoundTo(s) : cc[c] # None /\ cc[c].session # None =>
              cc[c].session \in listed' /\ q'[cc[c].session] = q[cc[c].session]
      BY <1>t, <1>l, <2>1, <2>2, <2>3
    <2>5. listed' \in SUBSET Sessions BY <1>t, <2>2
    <2> QED BY <2>1, <2>2, <2>3, <2>4, <2>5, IdleFacts, DelStep
  <1>2. CASE DelDemo
    <2> PICK C \in SUBSET Clients : C = {c \in Clients : cc[c] # None} OBVIOUS
    <2>1. /\ listed' = {} /\ q' = [s \in Sessions |-> [t \in Tracks |-> None]]
          /\ turn' = Idle /\ DelClients(C)
      BY <1>2 DEF DelDemo
    <2>2. /\ q' \in [Sessions -> [Tracks -> Queue \cup {None}]]
          /\ \A r \in Sessions, t \in Tracks : q'[r][t] = q[r][t] \/ q'[r][t] = None
      BY <2>1
    <2> QED BY <2>1, <2>2, IdleFacts, DelStep
  <1>3. CASE PeerGone
    <2>1. {turn.c} \in SUBSET Clients /\ \A c \in {turn.c} : cc[c] # None
      BY <1>3 DEF PeerGone, ServerInv, TypeOK, Turn, TurnInv
    <2>2. listed' = listed /\ q' = q /\ turn' = Idle /\ DelClients({turn.c})
      BY <1>3 DEF PeerGone
    <2> QED BY <1>t, <1>l, <2>1, <2>2, IdleFacts, DelStep
  <1> QED BY <1>1, <1>2, <1>3

\* Sessions, codecs, connections and turns that begin.
LEMMA BeginStep ==
    ASSUME RtspConstants, ServerInv,
           \/ \E s \in Sessions : NewSession(s) \/ \E t \in Tracks : SetCodec(s, t)
           \/ \E c \in Clients : Accept(c) \/ TurnBegins(c)
    PROVE  ServerInv'
  <1> USE DEF ServerInv
  <1>1. ASSUME NEW s \in Sessions, NewSession(s) PROVE ServerInv'
    <2>1. /\ UNCHANGED <<q, cc, open, turn>> /\ listed \subseteq listed'
          /\ listed' \in SUBSET Sessions
      BY <1>1 DEF NewSession, TypeOK
    <2>2. TypeOK' /\ TurnInv' /\ QueueInv' BY <2>1 DEF TypeOK, TurnInv, QueueInv
    <2>3. PortsInv' BY <2>1 DEF PortsInv, PortOf
    <2>4. ASSUME NEW c \in Clients PROVE LinkInv(c)' /\ \A t \in Tracks : ReaderInv(c, t)'
      BY <2>1 DEF LinkInv, ReaderInv
    <2> QED BY <2>2, <2>3, <2>4
  <1>2. ASSUME NEW s \in Sessions, NEW t \in Tracks, SetCodec(s, t) PROVE ServerInv'
    <2>1. NewQueue \in Queue /\ Numbered(NewQueue)
      BY SlotsFacts DEF NewQueue, Queue, Numbered, StreamqInused, Indexes
    <2>2. /\ UNCHANGED <<listed, cc, open, turn>> /\ q[s][t] = None
          /\ q' = [q EXCEPT ![s][t] = NewQueue]
      BY <1>2 DEF SetCodec
    <2>3. /\ q' \in [Sessions -> [Tracks -> Queue \cup {None}]]
          /\ \A r \in Sessions, u \in Tracks :
                q'[r][u] = IF r = s /\ u = t THEN NewQueue ELSE q[r][u]
      BY <2>1, <2>2 DEF TypeOK
    <2>4. TypeOK' /\ TurnInv' BY <2>2, <2>3 DEF TypeOK, TurnInv
    <2>5. QueueInv'
      <3> SUFFICES ASSUME NEW r \in Sessions, NEW u \in Tracks, q'[r][u] # None
                   PROVE  Numbered(q'[r][u])
        BY DEF QueueInv
      <3>1. CASE r = s /\ u = t BY <2>1, <2>3, <3>1
      <3>2. CASE ~(r = s /\ u = t) BY <2>3, <3>2 DEF QueueInv
      <3> QED BY <3>1, <3>2
    <2>6. PortsInv' BY <2>2 DEF PortsInv, PortOf
    <2>7. ASSUME NEW c \in Clients, NEW u \in Tracks, cc[c] # None, cc[c].rtp[u] # None
          PROVE  q'[cc[c].session][u] = q[cc[c].session][u] /\ q[cc[c].session][u] # None
      <3>1. cc[c].session \in Sessions /\ q[cc[c].session][u] # None
        BY <2>7 DEF LinkInv, TypeOK
      <3> QED BY <2>2, <2>3, <3>1
    <2>8. ASSUME NEW c \in Clients PROVE LinkInv(c)' /\ \A u \in Tracks : ReaderInv(c, u)'
      <3>1. LinkInv(c)' BY <2>2, <2>7 DEF LinkInv
      <3>2. ASSUME NEW u \in Tracks PROVE ReaderInv(c, u)'
        BY <2>2, <2>7 DEF ReaderInv
      <3> QED BY <3>1, <3>2
    <2> QED BY <2>4, <2>5, <2>6, <2>8
  <1>3. ASSUME NEW d \in Clients, Accept(d) PROVE ServerInv'
    <2>1. NewConn \in Conn /\ NewConn.session = None /\ \A t \in Tracks : NewConn.rtp[t] = None
      BY DEF NewConn, Conn
    <2>2. /\ UNCHANGED <<q, listed, open, turn>> /\ turn = Idle /\ cc[d] = None
          /\ cc' = [cc EXCEPT ![d] = NewConn]
      BY <1>3 DEF Accept
    <2>3. /\ cc'[d] = NewConn /\ \A c \in Clients \ {d} : cc'[c] = cc[c]
          /\ cc' \in [Clients -> Conn \cup {None}]
      BY <2>1, <2>2 DEF TypeOK
    <2>4. TypeOK' BY <2>2, <2>3 DEF TypeOK
    <2>5. TurnInv' /\ QueueInv' BY <2>2, IdleFacts DEF TurnInv, QueueInv
    <2>6. PortsInv'
      <3>1. ASSUME NEW c \in Clients, NEW t \in Tracks PROVE PortOf(c, t)' = PortOf(c, t)
        <4>1. CASE c = d BY <4>1, <2>1, <2>2, <2>3 DEF PortOf
        <4>2. CASE c # d BY <4>2, <2>3 DEF PortOf
        <4> QED BY <4>1, <4>2
      <3> QED BY <3>1, <2>2, <2>4, SamePorts
    <2>7. ASSUME NEW c \in Clients PROVE LinkInv(c)' /\ \A t \in Tracks : ReaderInv(c, t)'
      <3>1. CASE c = d BY <3>1, <2>1, <2>3 DEF LinkInv, ReaderInv
      <3>2. CASE c # d BY <3>2, <2>2, <2>3 DEF LinkInv, ReaderInv
      <3> QED BY <3>1, <3>2
    <2> QED BY <2>4, <2>5, <2>6, <2>7
  <1>4. ASSUME NEW d \in Clients, TurnBegins(d) PROVE ServerInv'
    <2>1. /\ UNCHANGED <<q, listed, cc, open>> /\ cc[d] # None
          /\ turn'.c = d /\ turn'.had = {t \in Tracks : cc[d].rtp[t] # None} /\ turn' \in Turn
      BY <1>4 DEF TurnBegins, Turn
    <2>2. TypeOK' BY <2>1 DEF TypeOK
    <2>3. TurnInv' /\ QueueInv' BY <2>1 DEF TurnInv, QueueInv
    <2>4. PortsInv' BY <2>1 DEF PortsInv, PortOf
    <2>5. ASSUME NEW c \in Clients PROVE LinkInv(c)' /\ \A t \in Tracks : ReaderInv(c, t)'
      BY <2>1 DEF LinkInv, ReaderInv
    <2> QED BY <2>2, <2>3, <2>4, <2>5
  <1> QED BY <1>1, <1>2, <1>3, <1>4

----------------------------------------------------------------------------
\* Packets enter a queue and leave it; nothing else of a connection changes.
LEMMA ReadersMove ==
    ASSUME RtspConstants, ServerInv,
           listed' = listed, open' = open, turn' \in Turn, turn'.c = None,
           q' \in [Sessions -> [Tracks -> Queue \cup {None}]], QueueInv',
           \A s \in Sessions, t \in Tracks : q[s][t] # None => q'[s][t] # None,
           cc' \in [Clients -> Conn \cup {None}],
           \A c \in Clients : cc'[c] = None <=> cc[c] = None,
           \A c \in Clients : cc[c] # None =>
              cc'[c].state = cc[c].state /\ cc'[c].session = cc[c].session,
           \A c \in Clients, t \in Tracks : cc[c] # None =>
              /\ cc'[c].rtp[t] = None <=> cc[c].rtp[t] = None
              /\ cc[c].rtp[t] # None => cc'[c].rtp[t].port = cc[c].rtp[t].port,
           \A c \in Clients, t \in Tracks : ReaderInv(c, t)'
    PROVE  ServerInv'
  <1>1. TypeOK' BY DEF ServerInv, TypeOK
  <1>2. TurnInv' BY DEF TurnInv
  <1>3. ASSUME NEW c \in Clients PROVE LinkInv(c)'
    <2>1. LinkInv(c) BY DEF ServerInv
    <2>2. cc[c] # None => cc[c].session \in Sessions \cup {None} BY DEF ServerInv, TypeOK, Conn
    <2> QED BY <2>1, <2>2 DEF LinkInv
  <1>4. ASSUME NEW c \in Clients, NEW t \in Tracks PROVE PortOf(c, t)' = PortOf(c, t)
    BY DEF PortOf
  <1>5. PortsInv' BY <1>1, <1>4, SamePorts DEF ServerInv
  <1> QED BY <1>1, <1>2, <1>3, <1>5 DEF ServerInv

LEMMA TurnEndsStep ==
    ASSUME RtspConstants, ServerInv, NEW k \in [Tracks -> 0 .. Slots - 1], TurnEnds(k)
    PROVE  ServerInv'
  <1> PICK d \in Clients : d = turn.c /\ cc[d] # None
    BY DEF TurnEnds, ServerInv, TypeOK, Turn, TurnInv
  <1>0. turn' \in Turn /\ turn'.c = None /\ UNCHANGED <<q, listed, open>>
    BY IdleFacts DEF TurnEnds
  <1>1. CASE cc' = cc
    <2>1. TypeOK' /\ TurnInv' /\ QueueInv'
      BY <1>0, <1>1 DEF ServerInv, TypeOK, TurnInv, QueueInv
    <2>2. PortsInv' BY <1>0, <1>1 DEF ServerInv, PortsInv, PortOf
    <2>3. ASSUME NEW c \in Clients PROVE LinkInv(c)' /\ \A t \in Tracks : ReaderInv(c, t)'
      BY <1>0, <1>1 DEF ServerInv, LinkInv, ReaderInv
    <2> QED BY <2>1, <2>2, <2>3 DEF ServerInv
  <1>2. CASE cc' # cc
    <2>s. PICK sends \in SUBSET turn.had :
             sends = {t \in turn.had : StreamqInused(q[cc[d].session][t], cc[d].rtp[t].idx)}
      OBVIOUS
    <2>r. PICK rtp : rtp = [t \in Tracks |-> IF t \in sends
                      THEN TxPackets(q[cc[d].session][t], cc[d].rtp[t], k[t])
                      ELSE cc[d].rtp[t]]
      OBVIOUS
    <2>1. /\ cc[d].state = "playing" /\ turn.freed \cap turn.had = {}
          /\ \A t \in sends : k[t] <= StreamqAhead(q[cc[d].session][t], cc[d].rtp[t].idx)
          /\ cc' = [cc EXCEPT ![d].rtp = rtp]
      BY <1>2, <2>s, <2>r DEF TurnEnds
    <2>2. cc[d] \in Conn /\ cc[d].rtp \in [Tracks -> Rtp \cup {None}] /\ turn.had \subseteq Tracks
      BY DEF ServerInv, TypeOK, Conn, Turn
    <2>3. ASSUME NEW t \in sends
          PROVE  /\ rtp[t] \in Rtp /\ rtp[t] # None /\ cc[d].rtp[t] # None
                 /\ rtp[t].port = cc[d].rtp[t].port
                 /\ rtp[t].last <= q[cc[d].session][t].n
                 /\ At(q[cc[d].session][t], rtp[t])
      <3>1. t \in turn.had /\ t \in Tracks BY <2>2
      <3>2. cc[d].rtp[t] # None /\ cc[d].rtp[t] \in Rtp
        <4>1. t \notin turn.freed BY <2>1, <3>1
        <4>2. turn.c # None BY DEF RtspConstants
        <4>3. cc[d].rtp[t] = None => t \in turn.freed
          BY <3>1, <4>2 DEF ServerInv, TurnInv
        <4>4. cc[d].rtp[t] \in Rtp \cup {None} BY <2>2, <3>1
        <4> QED BY <4>1, <4>3, <4>4
      <3>3. cc[d].session \in Sessions /\ q[cc[d].session][t] # None
        BY <3>1, <3>2 DEF ServerInv, LinkInv, TypeOK
      <3> PICK Q : Q = q[cc[d].session][t] OBVIOUS
      <3>4. Q \in Queue /\ Numbered(Q)
        BY <3>1, <3>3 DEF ServerInv, TypeOK, QueueInv
      <3>5. At(Q, cc[d].rtp[t])
        BY <2>1, <3>1, <3>2 DEF ServerInv, ReaderInv
      <3>6. k[t] \in Nat /\ k[t] <= StreamqAhead(Q, cc[d].rtp[t].idx)
        BY <2>1, <3>1, SlotsFacts
      <3>7. rtp[t] = TxPackets(Q, cc[d].rtp[t], k[t]) BY <2>r, <3>1
      <3>8. /\ TxPackets(Q, cc[d].rtp[t], k[t]) \in Rtp
            /\ TxPackets(Q, cc[d].rtp[t], k[t]).port = cc[d].rtp[t].port
            /\ At(Q, TxPackets(Q, cc[d].rtp[t], k[t]))
            /\ TxPackets(Q, cc[d].rtp[t], k[t]).last <= Q.n
        BY <3>2, <3>4, <3>5, <3>6, TxPacketsFacts
      <3>9. rtp[t] # None BY <3>7, <3>8 DEF RtspConstants
      <3> QED BY <3>2, <3>7, <3>8, <3>9
    <2>4. ASSUME NEW t \in Tracks, t \notin sends PROVE rtp[t] = cc[d].rtp[t]
      BY <2>r, <2>4
    <2>5. rtp \in [Tracks -> Rtp \cup {None}]
      <3>1. \A t \in Tracks : rtp[t] \in Rtp \cup {None} BY <2>2, <2>3, <2>4
      <3> QED BY <2>r, <3>1
    <2>6. /\ cc' \in [Clients -> Conn \cup {None}]
          /\ cc'[d] \in Conn /\ cc'[d] # None
          /\ cc'[d].state = cc[d].state /\ cc'[d].session = cc[d].session /\ cc'[d].rtp = rtp
          /\ \A c \in Clients \ {d} : cc'[c] = cc[c]
      <3>x. PICK x : x = [cc[d] EXCEPT !.rtp = rtp] OBVIOUS
      <3>1. /\ x \in Conn /\ x.state = cc[d].state /\ x.session = cc[d].session /\ x.rtp = rtp
        BY <2>2, <2>5, <3>x DEF Conn
      <3>2. cc' = [cc EXCEPT ![d] = x] BY <2>1, <3>x
      <3>3. cc \in [Clients -> Conn \cup {None}] BY DEF ServerInv, TypeOK
      <3> QED BY <3>1, <3>2, <3>3 DEF RtspConstants
    <2>7. ASSUME NEW c \in Clients, NEW t \in Tracks PROVE ReaderInv(c, t)'
      <3>0. ReaderInv(c, t) BY DEF ServerInv
      <3>1. CASE c # d BY <3>0, <3>1, <2>6, <1>0 DEF ReaderInv
      <3>2. CASE c = d /\ t \in sends BY <3>2, <2>3, <2>6, <1>0 DEF ReaderInv
      <3>3. CASE c = d /\ t \notin sends BY <3>0, <3>3, <2>4, <2>6, <1>0 DEF ReaderInv
      <3> QED BY <3>1, <3>2, <3>3
    <2>8. ASSUME NEW c \in Clients, NEW t \in Tracks, cc[c] # None
          PROVE  /\ cc'[c].rtp[t] = None <=> cc[c].rtp[t] = None
                 /\ cc[c].rtp[t] # None => cc'[c].rtp[t].port = cc[c].rtp[t].port
      <3>1. CASE c # d BY <3>1, <2>6
      <3>2. CASE c = d BY <3>2, <2>3, <2>4, <2>6
      <3> QED BY <3>1, <3>2
    <2>9. q' \in [Sessions -> [Tracks -> Queue \cup {None}]] /\ QueueInv'
      BY <1>0 DEF ServerInv, TypeOK, QueueInv
    <2>10. /\ \A c \in Clients : cc'[c] = None <=> cc[c] = None
           /\ \A c \in Clients : cc[c] # None =>
                 cc'[c].state = cc[c].state /\ cc'[c].session = cc[c].session
      BY <2>6
    <2>11. \A s \in Sessions, t \in Tracks : q[s][t] # None => q'[s][t] # None
      BY <1>0
    <2> QED BY <1>0, <2>6, <2>7, <2>8, <2>9, <2>10, <2>11, ReadersMove
  <1> QED BY <1>1, <1>2

LEMMA TxStep ==
    ASSUME RtspConstants, ServerInv, NEW s \in Sessions, NEW t \in Tracks,
           NEW count \in 0 .. NbPkts, NEW sent \in [Clients -> 0 .. Slots - 1],
           Tx(s, t, count, sent)
    PROVE  ServerInv'
  <1>q. PICK Q : Q = q[s][t] OBVIOUS
  <1>a. PICK Q0 : Q0 = GetFree(Q) OBVIOUS
  <1>b. PICK Q1 : Q1 = PushAll(Q0, count) OBVIOUS
  <1>1. Q \in Queue /\ Numbered(Q)
    BY <1>q DEF Tx, ServerInv, TypeOK, QueueInv
  <1>2. /\ Q0 \in Queue /\ Numbered(Q0) /\ StreamqAhead(Q0, Q0.head) <= NbPkts /\ Q0.n = Q.n
    <2>1. /\ Q0 \in Queue /\ Q0.tail = Q.tail /\ Q0.n = Q.n /\ Q0.slot = Q.slot
          /\ StreamqAhead(Q0, Q0.head) <= NbPkts
          /\ \A i \in Indexes : StreamqAhead(Q0, i) = StreamqAhead(Q, i)
          /\ \A i \in Indexes : StreamqInused(Q0, i) => StreamqInused(Q, i)
      BY <1>1, <1>a, GetFreeFacts
    <2> QED BY <2>1, <1>1 DEF Numbered
  <1>3. /\ Q1 \in Queue /\ Numbered(Q1) /\ Q1.n = Q.n + count /\ Q1 # None
        /\ \A r \in Rtp : At(Q0, r) => At(Q1, r)
    BY <1>2, <1>b, PushAllFacts DEF RtspConstants
  <1>4. /\ q' = [q EXCEPT ![s][t] = Q1] /\ turn = Idle /\ UNCHANGED <<listed, open, turn>>
        /\ q[s][t] # None
    BY <1>q, <1>a, <1>b DEF Tx
  <1>5. /\ q' \in [Sessions -> [Tracks -> Queue \cup {None}]]
        /\ q'[s][t] = Q1
        /\ \A u \in Sessions, v \in Tracks : u # s \/ v # t => q'[u][v] = q[u][v]
    BY <1>3, <1>4 DEF ServerInv, TypeOK
  <1>6. ASSUME NEW c \in Playing(s, t)
        PROVE  /\ c \in Clients /\ cc[c] # None /\ cc[c] \in Conn /\ cc[c].session = s
               /\ cc'[c] \in Conn /\ cc'[c] # None
               /\ cc'[c].state = cc[c].state /\ cc'[c].session = s
               /\ cc[c].rtp[t] # None /\ cc'[c].rtp[t] # None
               /\ cc'[c].rtp[t].port = cc[c].rtp[t].port
               /\ cc'[c].rtp[t].last <= Q1.n /\ At(Q1, cc'[c].rtp[t])
               /\ \A u \in Tracks \ {t} : cc'[c].rtp[u] = cc[c].rtp[u]
    <2>1. /\ c \in Clients /\ cc[c] # None /\ cc[c].session = s
          /\ cc[c].state = "playing" /\ cc[c].rtp[t] # None
      BY DEF Playing, BoundTo
    <2>2. cc[c] \in Conn /\ cc[c].rtp \in [Tracks -> Rtp \cup {None}] /\ cc[c].rtp[t] \in Rtp
      BY <2>1 DEF ServerInv, TypeOK, Conn
    <2>3. At(Q, cc[c].rtp[t])
      BY <2>1, <1>q DEF ServerInv, ReaderInv
    <2>r. PICK r : r = MoveSlow(Q0, cc[c].rtp[t]) OBVIOUS
    <2>4. r \in Rtp /\ At(Q0, r) /\ r.port = cc[c].rtp[t].port
      BY <2>2, <2>3, <2>r, <1>a, <1>1, MoveSlowFacts
    <2>5. At(Q1, r) BY <2>4, <1>3
    <2>6. StreamqAhead(Q1, r.idx) \in Nat
      BY <2>4, <1>3, AheadFacts, SlotsFacts DEF Rtp, Indexes
    <2>k. PICK k \in Nat : /\ k = IF sent[c] > StreamqAhead(Q1, r.idx) THEN StreamqAhead(Q1, r.idx) ELSE sent[c]
                           /\ k <= StreamqAhead(Q1, r.idx)
      <3>1. sent[c] \in Nat BY <2>1, SlotsFacts
      <3> QED BY <2>6, <3>1
    <2>y. PICK y : y = TxPackets(Q1, r, k) OBVIOUS
    <2>7. y \in Rtp /\ y.port = r.port /\ At(Q1, y) /\ y.last <= Q1.n /\ y # None
      BY <2>4, <2>5, <2>k, <2>y, <1>3, TxPacketsFacts DEF RtspConstants
    <2>8. cc'[c] = [cc[c] EXCEPT !.rtp[t] = y]
      BY <2>1, <2>r, <2>k, <2>y, <1>q, <1>a, <1>b DEF Tx
    <2>p. PICK rtp : rtp = [cc[c].rtp EXCEPT ![t] = y] OBVIOUS
    <2>9. /\ rtp \in [Tracks -> Rtp \cup {None}] /\ rtp[t] = y
          /\ \A u \in Tracks \ {t} : rtp[u] = cc[c].rtp[u]
      BY <2>p, <2>2, <2>7
    <2>10. /\ cc'[c] = [cc[c] EXCEPT !.rtp = rtp]
      BY <2>8, <2>p
    <2>11. /\ cc'[c] \in Conn /\ cc'[c].rtp = rtp /\ cc'[c].state = cc[c].state
           /\ cc'[c].session = cc[c].session
      BY <2>10, <2>9, <2>2 DEF Conn
    <2> QED BY <2>1, <2>2, <2>4, <2>7, <2>9, <2>11 DEF RtspConstants
  <1>7. ASSUME NEW c \in Clients, c \notin Playing(s, t) PROVE cc'[c] = cc[c]
    BY <1>7 DEF Tx
  <1>8. cc' \in [Clients -> Conn \cup {None}]
    <2>1. \A c \in Clients : cc'[c] \in Conn \cup {None}
      BY <1>6, <1>7 DEF ServerInv, TypeOK
    <2> QED BY <2>1 DEF Tx
  <1>9. ASSUME NEW c \in Clients, NEW u \in Tracks PROVE ReaderInv(c, u)'
    <2>0. ReaderInv(c, u) BY DEF ServerInv
    <2>1. CASE c \in Playing(s, t) /\ u = t
      BY <2>1, <1>5, <1>6 DEF ReaderInv
    <2>2. CASE c \in Playing(s, t) /\ u # t
      BY <2>0, <2>2, <1>5, <1>6 DEF ReaderInv
    <2>3. CASE c \notin Playing(s, t)
      <3>1. cc'[c] = cc[c] BY <2>3, <1>7
      <3> SUFFICES ASSUME cc[c] # None, cc[c].rtp[u] # None PROVE ReaderInv(c, u)'
        BY <3>1 DEF ReaderInv
      <3>2. cc[c].session \in Sessions BY DEF ServerInv, TypeOK, LinkInv
      <3>3. CASE cc[c].session # s \/ u # t
        BY <2>0, <3>1, <3>2, <3>3, <1>5 DEF ReaderInv
      <3>4. CASE cc[c].session = s /\ u = t
        <4>1. cc[c].state # "playing" BY <2>3, <3>4 DEF Playing, BoundTo
        <4>2. cc[c].rtp[t].last <= Q.n /\ cc[c].rtp[t].last \in Nat
          BY <2>0, <3>4, <1>q DEF ReaderInv, ServerInv, TypeOK, Conn, Rtp
        <4>3. cc[c].rtp[t].last <= Q1.n BY <4>2, <1>1, <1>3 DEF Queue
        <4> QED BY <3>1, <3>4, <4>1, <4>3, <1>5 DEF ReaderInv
      <3> QED BY <3>3, <3>4
    <2> QED BY <2>1, <2>2, <2>3
  <1>10. QueueInv'
    <2> SUFFICES ASSUME NEW u \in Sessions, NEW v \in Tracks, q'[u][v] # None
                 PROVE  Numbered(q'[u][v])
      BY DEF QueueInv
    <2>1. CASE u = s /\ v = t BY <2>1, <1>3, <1>5
    <2>2. CASE u # s \/ v # t BY <2>2, <1>5 DEF ServerInv, QueueInv
    <2> QED BY <2>1, <2>2
  <1>11. \A u \in Sessions, v \in Tracks : q[u][v] # None => q'[u][v] # None
    BY <1>3, <1>5
  <1>12. /\ \A c \in Clients : cc'[c] = None <=> cc[c] = None
         /\ \A c \in Clients : cc[c] # None =>
                 cc'[c].state = cc[c].state /\ cc'[c].session = cc[c].session
    BY <1>6, <1>7
  <1>13. ASSUME NEW c \in Clients, NEW u \in Tracks, cc[c] # None
         PROVE  /\ cc'[c].rtp[u] = None <=> cc[c].rtp[u] = None
                /\ cc[c].rtp[u] # None => cc'[c].rtp[u].port = cc[c].rtp[u].port
    <2>1. CASE c \in Playing(s, t) BY <2>1, <1>6
    <2>2. CASE c \notin Playing(s, t) BY <2>2, <1>7
    <2> QED BY <2>1, <2>2
  <1>14. turn' \in Turn /\ turn'.c = None /\ listed' = listed /\ open' = open
    BY <1>4, IdleFacts
  <1> QED BY <1>5, <1>8, <1>9, <1>10, <1>11, <1>12, <1>13, <1>14, ReadersMove

----------------------------------------------------------------------------
LEMMA ServerStep ==
    ASSUME RtspConstants, ServerInv, [Next]_vars PROVE ServerInv'
  <1>1. CASE Next
    <2>1. CASE \E s \in Sessions : NewSession(s) \/ \E t \in Tracks : SetCodec(s, t)
      BY <2>1, BeginStep
    <2>2. CASE \E c \in Clients : Accept(c) \/ TurnBegins(c)
      BY <2>2, BeginStep
    <2>3. CASE (\E s \in Sessions : DelSession(s)) \/ DelDemo \/ PeerGone
      BY <2>3, GoneStep
    <2>4. CASE \E s \in Sessions : Requests(s)
      BY <2>4, RequestsStep
    <2>5. CASE \E k \in [Tracks -> 0 .. Slots - 1] : TurnEnds(k)
      BY <2>5, TurnEndsStep
    <2>6. ASSUME NEW s \in Sessions, NEW count \in 0 .. NbPkts,
                 NEW sent \in [Clients -> 0 .. Slots - 1],
                 \/ TxVideo(s, count, sent) \/ SeverTxVideo(s, count, sent)
                 \/ TxAudio(s, count, sent)
          PROVE  ServerInv'
      BY <2>6, TxStep DEF TxVideo, SeverTxVideo, TxAudio
    <2> QED BY <1>1, <2>1, <2>2, <2>3, <2>4, <2>5, <2>6 DEF Next
  <1>2. CASE UNCHANGED vars
    <2>1. TypeOK' /\ TurnInv' /\ QueueInv'
      BY <1>2 DEF vars, ServerInv, TypeOK, TurnInv, QueueInv
    <2>2. PortsInv' BY <1>2 DEF vars, ServerInv, PortsInv, PortOf
    <2>3. ASSUME NEW c \in Clients PROVE LinkInv(c)' /\ \A t \in Tracks : ReaderInv(c, t)'
      BY <1>2 DEF vars, ServerInv, LinkInv, ReaderInv
    <2> QED BY <2>1, <2>2, <2>3 DEF ServerInv
  <1> QED BY <1>1, <1>2

LEMMA ServerIsLinked == ASSUME RtspConstants, ServerInv PROVE RtspLinked
  <1>1. ASSUME NEW c \in Conns
        PROVE  /\ cc[c].session # None => cc[c].session \in listed
               /\ \A t \in Tracks : cc[c].rtp[t] # None =>
                     /\ cc[c].session # None /\ q[cc[c].session][t] # None
                     /\ cc[c].state # "init"
    BY DEF Conns, ServerInv, LinkInv
  <1>2. open = UNION {PairsOf(c, Tracks) : c \in Conns}
    <2>1. ASSUME NEW c \in Conns
          PROVE  /\ PairsOf(c, Tracks) \subseteq Ports
                 /\ \A p \in Ports : p \in PairsOf(c, Tracks) <=> \E t \in Tracks : PortOf(c, t) = p
      BY PairsFacts DEF Conns, ServerInv
    <2>2. ASSUME NEW p \in Ports
          PROVE  p \in open <=> \E c \in Conns : p \in PairsOf(c, Tracks)
      <3>1. p # None BY DEF RtspConstants
      <3>2. (\E c \in Clients, t \in Tracks : PortOf(c, t) = p) <=>
               \E c \in Conns, t \in Tracks : PortOf(c, t) = p
        BY <3>1 DEF PortOf, Conns
      <3> QED BY <2>1, <3>2 DEF ServerInv, PortsInv
    <2>3. open \subseteq Ports BY DEF ServerInv, TypeOK
    <2> QED BY <2>1, <2>2, <2>3
  <1>3. ASSUME NEW c \in Conns, NEW d \in Conns, NEW t \in Tracks, NEW u \in Tracks,
               cc[c].rtp[t] # None, cc[d].rtp[u] # None,
               cc[c].rtp[t].port = cc[d].rtp[u].port, cc[c].rtp[t].port # None
        PROVE  c = d /\ t = u
    <2>1. /\ c \in Clients /\ d \in Clients
          /\ PortOf(c, t) = cc[c].rtp[t].port /\ PortOf(d, u) = cc[d].rtp[u].port
      BY <1>3 DEF Conns, PortOf
    <2> QED BY <1>3, <2>1 DEF ServerInv, PortsInv
  <1> QED BY <1>1, <1>2, <1>3 DEF RtspLinked

LEMMA ServerReadsForward == ASSUME RtspConstants, ServerInv PROVE RtspReadsForward
  <1> SUFFICES ASSUME NEW s \in Sessions, NEW t \in Tracks, q[s][t] # None,
                      NEW c \in Playing(s, t)
               PROVE  \/ cc[c].rtp[t].idx = q[s][t].tail
                      \/ /\ StreamqInused(q[s][t], cc[c].rtp[t].idx)
                         /\ q[s][t].slot[cc[c].rtp[t].idx] > cc[c].rtp[t].last
    BY DEF RtspReadsForward
  <1>1. /\ c \in Clients /\ cc[c] # None /\ cc[c].session = s
        /\ cc[c].state = "playing" /\ cc[c].rtp[t] # None
    BY DEF Playing, BoundTo
  <1>2. q[s][t] \in Queue /\ Numbered(q[s][t]) /\ cc[c].rtp[t] \in Rtp
    BY <1>1 DEF ServerInv, TypeOK, QueueInv, Conn
  <1>3. At(q[s][t], cc[c].rtp[t]) BY <1>1 DEF ServerInv, ReaderInv
  <1>4. /\ cc[c].rtp[t].idx \in Indexes /\ cc[c].rtp[t].last \in Nat /\ q[s][t].n \in Nat
        /\ StreamqAhead(q[s][t], cc[c].rtp[t].idx) \in Int
    <2>1. cc[c].rtp[t].idx \in Indexes /\ cc[c].rtp[t].last \in Nat
      BY <1>2 DEF Rtp
    <2>2. StreamqAhead(q[s][t], cc[c].rtp[t].idx) \in Indexes /\ q[s][t].n \in Nat
      BY <1>2, <2>1, AheadFacts
    <2> QED BY <2>1, <2>2, SlotsFacts DEF Indexes
  <1> QED BY <1>2, <1>3, <1>4 DEF At, Numbered

\* After any requests, deletions, lost peers and packets, a connection's
\* session is listed, its RTP connections have a stream queue behind them, and
\* the open UDP sockets are those of live RTP connections, each pair in one of
\* them (rtsp_demo.c).
THEOREM ServerLinked == ASSUME RtspConstants PROVE Spec => []RtspLinked
  <1>1. Init => ServerInv BY InitServer
  <1>2. ServerInv /\ [Next]_vars => ServerInv' BY ServerStep
  <1>3. ServerInv => RtspLinked BY ServerIsLinked
  <1> QED BY <1>1, <1>2, <1>3, PTL DEF Spec

\* A playing client is never overtaken by the writer of its queue: what it
\* sends next is newer than all it has sent, also after it paused, was set up
\* again or was too slow (rtsp_tx_video, rtsp_tx_audio, stream_queue.c).
THEOREM ServerReads == ASSUME RtspConstants PROVE Spec => []RtspReadsForward
  <1>1. Init => ServerInv BY InitServer
  <1>2. ServerInv /\ [Next]_vars => ServerInv' BY ServerStep
  <1>3. ServerInv => RtspReadsForward BY ServerReadsForward
  <1> QED BY <1>1, <1>2, <1>3, PTL DEF Spec
=============================================================================
