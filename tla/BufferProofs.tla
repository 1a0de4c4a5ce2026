---------------------------- MODULE BufferProofs ----------------------------
(***************************************************************************)
(* Theorems about the buffers of the system, each an instance of its own.  *)
(* The two buffer managers: their counts and lists are exact, and both     *)
(* implement Pools, for any number of pools, sizes and queues.  The        *)
(* managers share the layout of a pool and the list of pools, and so do    *)
(* the proofs: the first part is about one pool and about the list as      *)
(* values, whoever holds the buffers that are out.  The two circular       *)
(* buffers of oslib, the blocks that FIFO_Alloc hands out and the bytes    *)
(* that RING_Read returns, for every size of the memory.                   *)
(***************************************************************************)
EXTENDS Integers, Sequences, FiniteSets, SequencesExt, SequenceTheorems,
        FiniteSetTheorems, WellFoundedInduction, TLAPS

CONSTANTS NPools, BufSize, BufMax, Mask, Sizes, Counts, Queues, Memories

VARIABLES freeq, pool_list, start, memory, restricted, unlinked, queue

Gki == INSTANCE GkiBuffer
Aki == INSTANCE AkiBuffer

CONSTANTS Size, Lengths, MaxSize, WrittenMax

VARIABLES fifo, blocks, refused, ring, written, taken, lost

Fifo == INSTANCE FifoBuf WITH Sizes <- Lengths
Ring == INSTANCE RingBuf

----------------------------------------------------------------------------
\* The buffers of O that belong to pool p.
OutOf(p, O) == {b \in O : b[1] = p}

PoolRecord(p) ==
    [size : Nat, total : Nat, cur_cnt : Nat, max_cnt : Nat, list : Seq({p} \X Nat)]

\* The headers in the memory of pool p.
LaidOut(Q, p) == {<<p, (i - 1) * Gki!ActSize(Q.size)>> : i \in 1 .. Q.total}

\* Q is pool p while the buffers O are out: its free list names buffers of its
\* own, each once and none that is out, and its counts add up.
PoolOk(Q, p, O) ==
    /\ Q \in PoolRecord(p)
    /\ \A i \in 1 .. Len(Q.list) : Q.list[i] \in LaidOut(Q, p)
    /\ OutOf(p, O) \subseteq LaidOut(Q, p)
    /\ \A i, j \in 1 .. Len(Q.list) : Q.list[i] = Q.list[j] => i = j
    /\ \A i \in 1 .. Len(Q.list) : Q.list[i] \notin O
    /\ Q.cur_cnt = Cardinality(OutOf(p, O))
    /\ Len(Q.list) + Q.cur_cnt = Q.total

\* The list s of pools names those of S, each once, the smaller sizes first.
ListOk(s, S, f) ==
    /\ s \in Seq(S)
    /\ \A x \in S : \E i \in 1 .. Len(s) : s[i] = x
    /\ \A i, j \in 1 .. Len(s) : s[i] = s[j] => i = j
    /\ \A i, j \in 1 .. Len(s) : i < j => f[s[i]].size <= f[s[j]].size

Buffers == Gki!PoolIds \X Nat

\* The pools f and the list s of those with memory, S, while the buffers O are
\* out.
PoolsOk(f, s, S, O) ==
    /\ DOMAIN f = Gki!PoolIds
    /\ O \in SUBSET Buffers /\ IsFiniteSet(O)
    /\ S \in SUBSET Gki!PoolIds
    /\ \A p \in Gki!PoolIds : PoolOk(f[p], p, O)
    /\ \A p \in Gki!PoolIds \ S : f[p].total = 0
    /\ ListOk(s, S, f)

GkiInv == PoolsOk(freeq, pool_list, start, unlinked)

AkiPools == {p \in Aki!PoolIds : memory[p] # 0}

Distinct(t) == \A i, j \in 1 .. Len(t) : t[i] = t[j] => i = j

\* Packages are on one queue, at one place.
QueuesOk(Qu) ==
    /\ Qu \in [Queues -> Seq(Buffers)]
    /\ \A q \in Queues : Distinct(Qu[q])
    /\ \A q, r \in Queues : q # r => ToSet(Qu[q]) \cap ToSet(Qu[r]) = {}

Held == unlinked \cup Aki!Queued

AkiInv ==
    /\ PoolsOk(freeq, pool_list, AkiPools, Held)
    /\ memory \in [Aki!PoolIds -> Nat]
    /\ QueuesOk(queue)
    /\ Aki!Queued \cap unlinked = {}

----------------------------------------------------------------------------
(***************************************************************************)
(* Sets and sequences.                                                     *)
(***************************************************************************)
LEMMA MinFacts ==
    ASSUME NEW P \in SUBSET Nat, P # {}
    PROVE  Min(P) \in P /\ \A x \in P : Min(P) <= x
  <1>1. PICK x \in P : \A y \in P : ~(<<y, x>> \in OpToRel(<, Nat))
    BY NatLessThanWellFounded, WFMin
  <1>2. \A y \in P : x <= y
    <2> SUFFICES ASSUME NEW y \in P PROVE x <= y
      OBVIOUS
    <2>1. ~(<<y, x>> \in OpToRel(<, Nat)) BY <1>1
    <2>2. <<y, x>> \in Nat \X Nat OBVIOUS
    <2>3. ~(y < x) BY <2>1, <2>2 DEF OpToRel
    <2> QED BY <2>3
  <1> QED BY <1>2 DEF Min

\* A sequence without repetitions has as many elements as it is long.
LEMMA SeqCardinality ==
    ASSUME NEW S, NEW s \in Seq(S),
           \A i, j \in 1 .. Len(s) : s[i] = s[j] => i = j
    PROVE  IsFiniteSet(ToSet(s)) /\ Cardinality(ToSet(s)) = Len(s)
  <1>1. Len(s) \in Nat /\ DOMAIN s = 1 .. Len(s) BY LenProperties
  <1>2. s \in [1 .. Len(s) -> ToSet(s)] BY <1>1, SeqOfRange DEF ToSet
  <1>3. \A x \in ToSet(s) : \E i \in 1 .. Len(s) : s[i] = x BY <1>1 DEF ToSet
  <1>4. s \in Bijection(1 .. Len(s), ToSet(s))
    BY <1>1, <1>2, <1>3 DEF Bijection, Injection, Surjection, IsInjective
  <1>5. ExistsBijection(1 .. Len(s), ToSet(s)) BY <1>4 DEF ExistsBijection
  <1> QED BY <1>1, <1>5, FS_NatBijection, FS_CountingElements

\* Removing position k.
LEMMA RemoveAtFacts ==
    ASSUME NEW S, NEW s \in Seq(S), NEW k \in 1 .. Len(s)
    PROVE  /\ RemoveAt(s, k) \in Seq(S)
           /\ Len(RemoveAt(s, k)) = Len(s) - 1
           /\ \A i \in 1 .. Len(s) - 1 :
                 RemoveAt(s, k)[i] = IF i < k THEN s[i] ELSE s[i + 1]
  <1> DEFINE a == SubSeq(s, 1, k - 1)
             b == SubSeq(s, k + 1, Len(s))
  <1>1. Len(s) \in Nat /\ k \in Nat BY LenProperties
  <1>2. a \in Seq(S) /\ Len(a) = k - 1 /\ \A i \in 1 .. k - 1 : a[i] = s[i]
    BY <1>1
  <1>3. /\ b \in Seq(S) /\ Len(b) = Len(s) - k
        /\ \A i \in 1 .. Len(s) - k : b[i] = s[k + i]
    BY <1>1
  <1>4. RemoveAt(s, k) = a \o b BY DEF RemoveAt
  <1> HIDE DEF a, b
  <1>5. /\ a \o b \in Seq(S) /\ Len(a \o b) = Len(a) + Len(b)
        /\ \A i \in 1 .. Len(a) + Len(b) :
              (a \o b)[i] = IF i <= Len(a) THEN a[i] ELSE b[i - Len(a)]
    BY <1>2, <1>3, ConcatProperties
  <1>6. ASSUME NEW i \in 1 .. Len(s) - 1
        PROVE  (a \o b)[i] = IF i < k THEN s[i] ELSE s[i + 1]
    <2>1. CASE i < k BY <1>1, <1>2, <1>3, <1>5, <2>1
    <2>2. CASE i >= k
      <3>1. (a \o b)[i] = b[i - (k - 1)] BY <1>1, <1>2, <1>3, <1>5, <2>2
      <3>2. i - (k - 1) \in 1 .. Len(s) - k /\ k + (i - (k - 1)) = i + 1
        BY <1>1, <2>2
      <3>3. b[i - (k - 1)] = s[k + (i - (k - 1))] BY <1>3, <3>2
      <3> QED BY <1>1, <2>2, <3>1, <3>2, <3>3
    <2>3. i < k \/ i >= k BY <1>1
    <2> QED BY <2>1, <2>2, <2>3
  <1> QED BY <1>1, <1>2, <1>3, <1>4, <1>5, <1>6

\* Inserting before position k.
LEMMA InsertAtFacts ==
    ASSUME NEW S, NEW s \in Seq(S), NEW k \in 1 .. Len(s) + 1, NEW e \in S
    PROVE  /\ InsertAt(s, k, e) \in Seq(S)
           /\ Len(InsertAt(s, k, e)) = Len(s) + 1
           /\ \A i \in 1 .. Len(s) + 1 :
                 InsertAt(s, k, e)[i] = IF i < k THEN s[i]
                                        ELSE IF i = k THEN e ELSE s[i - 1]
  <1> DEFINE a == SubSeq(s, 1, k - 1)
             b == SubSeq(s, k, Len(s))
  <1>1. Len(s) \in Nat /\ k \in Nat BY LenProperties
  <1>2. a \in Seq(S) /\ Len(a) = k - 1 /\ \A i \in 1 .. k - 1 : a[i] = s[i]
    BY <1>1
  <1>3. /\ b \in Seq(S) /\ Len(b) = Len(s) - k + 1
        /\ \A i \in 1 .. Len(s) - k + 1 : b[i] = s[(k - 1) + i]
    BY <1>1
  <1>4. InsertAt(s, k, e) = (a \o <<e>>) \o b BY DEF InsertAt
  <1> HIDE DEF a, b
  <1>5. /\ a \o <<e>> \in Seq(S) /\ Len(a \o <<e>>) = k
        /\ \A i \in 1 .. k : (a \o <<e>>)[i] = IF i < k THEN a[i] ELSE e
    BY <1>1, <1>2
  <1> DEFINE c == a \o <<e>>
  <1> HIDE DEF c
  <1>6. c \in Seq(S) /\ Len(c) = k /\ \A i \in 1 .. k : c[i] = IF i < k THEN a[i] ELSE e
    BY <1>5 DEF c
  <1>7. InsertAt(s, k, e) = c \o b BY <1>4 DEF c
  <1>8. /\ c \o b \in Seq(S) /\ Len(c \o b) = Len(c) + Len(b)
        /\ \A i \in 1 .. Len(c) + Len(b) :
              (c \o b)[i] = IF i <= Len(c) THEN c[i] ELSE b[i - Len(c)]
    BY <1>3, <1>6, ConcatProperties
  <1>9. ASSUME NEW i \in 1 .. Len(s) + 1
        PROVE  (c \o b)[i] = IF i < k THEN s[i] ELSE IF i = k THEN e ELSE s[i - 1]
    <2>1. CASE i <= k BY <1>1, <1>2, <1>3, <1>6, <1>8, <2>1
    <2>2. CASE i > k
      <3>1. (c \o b)[i] = b[i - k] BY <1>1, <1>3, <1>6, <1>8, <2>2, SMTT(30)
      <3>2. b[i - k] = s[(k - 1) + (i - k)] BY <1>1, <1>3, <2>2
      <3> QED BY <1>1, <2>2, <3>1, <3>2
    <2>3. i <= k \/ i > k BY <1>1
    <2> QED BY <2>1, <2>2, <2>3
  <1> QED BY <1>1, <1>3, <1>6, <1>7, <1>8, <1>9

----------------------------------------------------------------------------
(***************************************************************************)
(* One pool.                                                               *)
(***************************************************************************)

LEMMA TimesInjective ==
    ASSUME NEW a \in Nat, NEW b \in Nat, NEW c \in Nat \ {0}, a * c = b * c
    PROVE  a = b
  OBVIOUS

\* The layout of a new pool: its headers lie act bytes apart, at different
\* offsets, as none of its buffers is out.
LEMMA NewPool ==
    ASSUME NEW p, NEW O, OutOf(p, O) = {},
           NEW Q \in PoolRecord(p), NEW act \in Nat \ {0}, act = Gki!ActSize(Q.size),
           Q.cur_cnt = 0, Len(Q.list) = Q.total,
           \A i \in 1 .. Len(Q.list) : Q.list[i] = <<p, (i - 1) * act>>
    PROVE  PoolOk(Q, p, O)
  <1>1. Len(Q.list) \in Nat BY LenProperties DEF PoolRecord
  <1>3. ASSUME NEW i \in 1 .. Len(Q.list), NEW j \in 1 .. Len(Q.list),
               Q.list[i] = Q.list[j]
        PROVE  i = j
    <2>1. (i - 1) * act = (j - 1) * act BY <1>3
    <2>2. i - 1 \in Nat /\ j - 1 \in Nat BY <1>1
    <2>3. i - 1 = j - 1 BY ONLY act \in Nat \ {0}, <2>1, <2>2, TimesInjective
    <2> QED BY <1>1, <2>3
  <1>4. \A i \in 1 .. Len(Q.list) : Q.list[i] \notin O BY DEF OutOf
  <1>5. Cardinality(OutOf(p, O)) = 0 BY FS_EmptySet
  <1>6. Len(Q.list) + Q.cur_cnt = Q.total BY <1>1
  <1>7. \A i \in 1 .. Len(Q.list) : Q.list[i] \in LaidOut(Q, p) BY DEF LaidOut
  <1> QED BY <1>3, <1>4, <1>5, <1>6, <1>7 DEF PoolOk

\* A deleted pool.
LEMMA NoPool ==
    ASSUME NEW p, NEW O, OutOf(p, O) = {}
    PROVE  PoolOk(Gki!NoQueue, p, O)
  <1>1. Gki!NoQueue \in PoolRecord(p) BY DEF Gki!NoQueue, PoolRecord
  <1>2. /\ Gki!NoQueue.list = <<>> /\ Gki!NoQueue.cur_cnt = 0
        /\ Gki!NoQueue.total = 0 BY DEF Gki!NoQueue
  <1>3. Cardinality(OutOf(p, O)) = 0 BY FS_EmptySet
  <1> QED BY <1>1, <1>2, <1>3 DEF PoolOk

\* A pool that says it has a free buffer has one, and its count says so.
LEMMA PoolHasFree ==
    ASSUME NEW Q, NEW p, NEW O, PoolOk(Q, p, O), Q.cur_cnt < Q.total
    PROVE  /\ Q.list # <<>> /\ Q.list \in Seq({p} \X Nat)
           /\ Head(Q.list) \in {p} \X Nat /\ Head(Q.list) \notin O
           /\ Head(Q.list) = Q.list[1] /\ 1 \in 1 .. Len(Q.list)
  <1>1. /\ Q.list \in Seq({p} \X Nat) /\ Q.cur_cnt \in Nat /\ Q.total \in Nat
        /\ Len(Q.list) + Q.cur_cnt = Q.total
    BY DEF PoolOk, PoolRecord
  <1>2. Len(Q.list) \in Nat /\ Len(Q.list) > 0 BY <1>1
  <1>3. Q.list # <<>> BY <1>1, <1>2, EmptySeq
  <1>4. Head(Q.list) \in {p} \X Nat BY <1>1, <1>3, HeadTailProperties
  <1>5. Head(Q.list) = Q.list[1] BY <1>1
  <1>6. \A i \in 1 .. Len(Q.list) : Q.list[i] \notin O BY DEF PoolOk
  <1> QED BY <1>1, <1>2, <1>3, <1>4, <1>5, <1>6

LEMMA TakeKeepsPool ==
    ASSUME NEW Q, NEW p, NEW O, PoolOk(Q, p, O), IsFiniteSet(O),
           Q.cur_cnt < Q.total,
           NEW R \in PoolRecord(p), R.list = Tail(Q.list),
           R.cur_cnt = Q.cur_cnt + 1, R.total = Q.total, R.size = Q.size
    PROVE  PoolOk(R, p, O \cup {Head(Q.list)})
  <1>1. /\ Q.list \in Seq({p} \X Nat) /\ Q.cur_cnt \in Nat /\ Q.total \in Nat
        /\ Len(Q.list) + Q.cur_cnt = Q.total
        /\ Q.cur_cnt = Cardinality(OutOf(p, O))
        /\ \A i, j \in 1 .. Len(Q.list) : Q.list[i] = Q.list[j] => i = j
        /\ \A i \in 1 .. Len(Q.list) : Q.list[i] \notin O
    BY DEF PoolOk, PoolRecord
  <1> DEFINE h == Head(Q.list)
  <1>2. Q.list # <<>> /\ h \in {p} \X Nat /\ h \notin O /\ h = Q.list[1] /\ Len(Q.list) \in Nat
    BY PoolHasFree, <1>1, LenProperties
  <1> HIDE DEF h
  <1>3. Len(R.list) = Len(Q.list) - 1 /\ \A i \in 1 .. Len(R.list) : R.list[i] = Q.list[i + 1]
    BY <1>1, <1>2, HeadTailProperties
  <1>4. Len(R.list) \in Nat /\ 1 \in 1 .. Len(Q.list)
    BY <1>2, <1>3, LenProperties DEF PoolRecord
  <1>5. ASSUME NEW i \in 1 .. Len(R.list), NEW j \in 1 .. Len(R.list),
               R.list[i] = R.list[j]
        PROVE  i = j
    <2>1. i + 1 \in 1 .. Len(Q.list) /\ j + 1 \in 1 .. Len(Q.list) BY <1>2, <1>3, <1>4
    <2>2. Q.list[i + 1] = Q.list[j + 1] BY <1>3, <1>5
    <2>3. i + 1 = j + 1 BY <1>1, <2>1, <2>2
    <2> QED BY <1>4, <2>3
  <1>6. ASSUME NEW i \in 1 .. Len(R.list) PROVE R.list[i] \notin O \cup {h}
    <2>1. i + 1 \in 1 .. Len(Q.list) /\ i + 1 # 1 BY <1>2, <1>3, <1>4
    <2>2. R.list[i] = Q.list[i + 1] BY <1>3
    <2> QED BY <1>1, <1>2, <1>4, <2>1, <2>2
  <1>7. OutOf(p, O \cup {h}) = OutOf(p, O) \cup {h} BY <1>2 DEF OutOf
  <1>8. IsFiniteSet(OutOf(p, O)) BY FS_Subset DEF OutOf
  <1>9. h \notin OutOf(p, O) BY <1>2 DEF OutOf
  <1>10. Cardinality(OutOf(p, O \cup {h})) = Cardinality(OutOf(p, O)) + 1
    BY <1>7, <1>8, <1>9, FS_AddElement
  <1>11. R.cur_cnt = Cardinality(OutOf(p, O \cup {h})) BY <1>1, <1>10
  <1>12. Len(R.list) + R.cur_cnt = R.total BY <1>1, <1>2, <1>3
  <1>13. LaidOut(R, p) = LaidOut(Q, p) BY DEF LaidOut
  <1>14. /\ \A i \in 1 .. Len(Q.list) : Q.list[i] \in LaidOut(Q, p)
         /\ OutOf(p, O) \subseteq LaidOut(Q, p)
    BY DEF PoolOk
  <1>15. \A i \in 1 .. Len(R.list) : R.list[i] \in LaidOut(R, p)
    BY <1>2, <1>3, <1>4, <1>13, <1>14
  <1>16. OutOf(p, O \cup {h}) \subseteq LaidOut(R, p)
    BY <1>2, <1>4, <1>7, <1>13, <1>14
  <1>17. PoolOk(R, p, O \cup {h}) BY <1>5, <1>6, <1>11, <1>12, <1>15, <1>16 DEF PoolOk
  <1> QED BY <1>17 DEF h

LEMMA PutKeepsPool ==
    ASSUME NEW Q, NEW p, NEW O, PoolOk(Q, p, O), IsFiniteSet(O),
           NEW b \in {p} \X Nat, b \in O,
           NEW R \in PoolRecord(p), R.list = Append(Q.list, b),
           R.cur_cnt = Q.cur_cnt - 1, R.total = Q.total, R.size = Q.size
    PROVE  PoolOk(R, p, O \ {b})
  <1>1. /\ Q.list \in Seq({p} \X Nat) /\ Q.cur_cnt \in Nat /\ Q.total \in Nat
        /\ Len(Q.list) + Q.cur_cnt = Q.total
        /\ Q.cur_cnt = Cardinality(OutOf(p, O))
        /\ \A i, j \in 1 .. Len(Q.list) : Q.list[i] = Q.list[j] => i = j
        /\ \A i \in 1 .. Len(Q.list) : Q.list[i] \notin O
    BY DEF PoolOk, PoolRecord
  <1>2. /\ Len(R.list) = Len(Q.list) + 1 /\ Len(Q.list) \in Nat
        /\ \A i \in 1 .. Len(Q.list) : R.list[i] = Q.list[i]
        /\ R.list[Len(Q.list) + 1] = b
    BY <1>1, AppendProperties, LenProperties
  <1>3. ASSUME NEW i \in 1 .. Len(R.list), NEW j \in 1 .. Len(R.list),
               R.list[i] = R.list[j]
        PROVE  i = j
    <2>1. CASE i \in 1 .. Len(Q.list) /\ j \in 1 .. Len(Q.list)
      BY <1>1, <1>2, <1>3, <2>1
    <2>2. CASE i \in 1 .. Len(Q.list) /\ j = Len(Q.list) + 1
      BY <1>1, <1>2, <1>3, <2>2
    <2>3. CASE i = Len(Q.list) + 1 /\ j \in 1 .. Len(Q.list)
      BY <1>1, <1>2, <1>3, <2>3
    <2>4. CASE i = Len(Q.list) + 1 /\ j = Len(Q.list) + 1
      BY <2>4
    <2> QED BY <1>2, <2>1, <2>2, <2>3, <2>4
  <1>4. ASSUME NEW i \in 1 .. Len(R.list) PROVE R.list[i] \notin O \ {b}
    <2>1. CASE i \in 1 .. Len(Q.list) BY <1>1, <1>2, <2>1
    <2>2. CASE i = Len(Q.list) + 1 BY <1>2, <2>2
    <2> QED BY <1>2, <2>1, <2>2
  <1>5. OutOf(p, O \ {b}) = OutOf(p, O) \ {b} BY DEF OutOf
  <1>6. IsFiniteSet(OutOf(p, O)) BY FS_Subset DEF OutOf
  <1>7. b \in OutOf(p, O) BY DEF OutOf
  <1>8. Cardinality(OutOf(p, O \ {b})) = Cardinality(OutOf(p, O)) - 1
    BY <1>5, <1>6, <1>7, FS_RemoveElement, ZenonT(40)
  <1>9. R.cur_cnt = Cardinality(OutOf(p, O \ {b})) BY <1>1, <1>8
  <1>10. Len(R.list) + R.cur_cnt = R.total BY <1>1, <1>2
  <1>11. LaidOut(R, p) = LaidOut(Q, p) BY DEF LaidOut
  <1>12. /\ \A i \in 1 .. Len(Q.list) : Q.list[i] \in LaidOut(Q, p)
         /\ OutOf(p, O) \subseteq LaidOut(Q, p)
    BY DEF PoolOk
  <1>13. ASSUME NEW i \in 1 .. Len(R.list) PROVE R.list[i] \in LaidOut(R, p)
    <2>1. CASE i \in 1 .. Len(Q.list) BY <1>2, <1>11, <1>12, <2>1
    <2>2. CASE i = Len(Q.list) + 1 BY <1>2, <1>7, <1>11, <1>12, <2>2
    <2> QED BY <1>2, <2>1, <2>2
  <1>14. OutOf(p, O \ {b}) \subseteq LaidOut(R, p) BY <1>5, <1>11, <1>12
  <1> QED BY <1>3, <1>4, <1>9, <1>10, <1>13, <1>14 DEF PoolOk

\* A buffer that is out is counted.
LEMMA OutIsCounted ==
    ASSUME NEW Q, NEW p, NEW O, PoolOk(Q, p, O), IsFiniteSet(O)
    PROVE  Q.cur_cnt \in Nat /\ (Q.cur_cnt = 0 <=> OutOf(p, O) = {})
  <1>1. IsFiniteSet(OutOf(p, O)) BY FS_Subset DEF OutOf
  <1>2. Q.cur_cnt = Cardinality(OutOf(p, O)) /\ Q.cur_cnt \in Nat
    BY DEF PoolOk, PoolRecord
  <1> QED BY <1>1, <1>2, FS_EmptySet

\* What happens to the buffers of one pool does not concern another.
LEMMA OtherPool ==
    ASSUME NEW Q, NEW p, NEW O, PoolOk(Q, p, O), NEW P, OutOf(p, P) = OutOf(p, O)
    PROVE  PoolOk(Q, p, P)
  <1>1. ASSUME NEW i \in 1 .. Len(Q.list) PROVE Q.list[i] \notin P
    <2>1. Q.list \in Seq({p} \X Nat) /\ Q.list[i] \notin O BY DEF PoolOk, PoolRecord
    <2>2. Q.list[i] \in {p} \X Nat BY <2>1, ElementOfSeq
    <2> QED BY <2>1, <2>2 DEF OutOf
  <1> QED BY <1>1 DEF PoolOk

\* The counts of a pool as CountsMatch and OnePlace state them.
LEMMA PoolCounts ==
    ASSUME NEW Q, NEW p, NEW O, PoolOk(Q, p, O), IsFiniteSet(O)
    PROVE  Cardinality(ToSet(Q.list) \cup OutOf(p, O)) = Q.total
  <1>1. /\ Q.list \in Seq({p} \X Nat) /\ Q.cur_cnt \in Nat /\ Q.total \in Nat
        /\ Len(Q.list) + Q.cur_cnt = Q.total
        /\ Q.cur_cnt = Cardinality(OutOf(p, O))
        /\ \A i, j \in 1 .. Len(Q.list) : Q.list[i] = Q.list[j] => i = j
        /\ \A i \in 1 .. Len(Q.list) : Q.list[i] \notin O
    BY DEF PoolOk, PoolRecord
  <1>2. IsFiniteSet(ToSet(Q.list)) /\ Cardinality(ToSet(Q.list)) = Len(Q.list)
    BY <1>1, SeqCardinality
  <1>3. IsFiniteSet(OutOf(p, O)) BY FS_Subset DEF OutOf
  <1>4. ToSet(Q.list) \cap OutOf(p, O) = {} BY <1>1, LenProperties DEF ToSet, OutOf
  <1>5. Cardinality(ToSet(Q.list) \cap OutOf(p, O)) = 0 BY <1>4, FS_EmptySet
  <1>6. Len(Q.list) \in Nat BY <1>1, LenProperties
  <1>7. Cardinality(ToSet(Q.list) \cup OutOf(p, O)) =
          Cardinality(ToSet(Q.list)) + Cardinality(OutOf(p, O))
            - Cardinality(ToSet(Q.list) \cap OutOf(p, O))
    BY ONLY <1>2, <1>3, FS_Union
  <1> QED BY <1>1, <1>2, <1>5, <1>6, <1>7

----------------------------------------------------------------------------
(***************************************************************************)
(* The list of pools.                                                      *)
(***************************************************************************)

\* A list stays in order while the sizes stay.
LEMMA SameList ==
    ASSUME NEW s, NEW S, NEW f, NEW g, ListOk(s, S, f),
           \A x \in S : g[x].size = f[x].size
    PROVE  ListOk(s, S, g)
  <1>1. s \in Seq(S) BY DEF ListOk
  <1>2. \A i \in 1 .. Len(s) : s[i] \in S BY <1>1, ElementOfSeq
  <1> QED BY <1>2 DEF ListOk

\* gki_add_to_pool_list: the new pool comes before the first that is not
\* smaller.
LEMMA InsertKeepsList ==
    ASSUME NEW s, NEW S, NEW f, NEW g, ListOk(s, S, f),
           NEW p, p \notin S, g[p].size \in Nat,
           \A x \in S : g[x].size = f[x].size /\ f[x].size \in Nat,
           NEW k \in 1 .. Len(s) + 1,
           \A i \in 1 .. Len(s) : i < k => f[s[i]].size <= g[p].size,
           \A i \in 1 .. Len(s) : i >= k => g[p].size <= f[s[i]].size
    PROVE  ListOk(InsertAt(s, k, p), S \cup {p}, g)
  <1> DEFINE T == S \cup {p}
             n == Len(s)
             r == InsertAt(s, k, p)
  <1>1. /\ s \in Seq(S) /\ n \in Nat /\ k \in Nat
        /\ \A i \in 1 .. n : s[i] \in S
        /\ \A i, j \in 1 .. n : s[i] = s[j] => i = j
        /\ \A i, j \in 1 .. n : i < j => f[s[i]].size <= f[s[j]].size
        /\ \A x \in S : \E i \in 1 .. n : s[i] = x
    BY LenProperties, ElementOfSeq DEF ListOk
  <1>2. s \in Seq(T) BY <1>1, SeqMonotonic
  <1>3. /\ r \in Seq(T) /\ Len(r) = n + 1
        /\ \A i \in 1 .. n + 1 :
              r[i] = IF i < k THEN s[i] ELSE IF i = k THEN p ELSE s[i - 1]
    BY <1>2, InsertAtFacts
  <1> HIDE DEF T, n, r
  <1>k. k \in 1 .. n + 1 BY DEF n
  \* Where the element at i came from.
  <1> DEFINE From(i) == IF i < k THEN i ELSE i - 1
  <1>4. \A i \in 1 .. n + 1 : i # k => From(i) \in 1 .. n /\ r[i] = s[From(i)]
    BY <1>1, <1>3, <1>k
  <1>5. \A i, j \in 1 .. n + 1 : i # k /\ j # k => (From(i) = From(j) => i = j)
                                             /\ (i < j => From(i) < From(j))
    BY <1>1, <1>k
  <1>6. r[k] = p BY <1>1, <1>3, <1>k
  <1>7. \A i \in 1 .. n + 1 : (i < k => From(i) < k) /\ (i > k => From(i) >= k)
    BY <1>1, <1>k
  <1> HIDE DEF From
  <1>8. ASSUME NEW x \in T PROVE \E i \in 1 .. n + 1 : r[i] = x
    <2>1. CASE x = p BY <1>6, <1>k, <2>1
    <2>2. CASE x \in S
      <3>1. PICK i \in 1 .. n : s[i] = x BY <1>1, <2>2
      <3>2. CASE i < k
        <4>1. i \in 1 .. n + 1 /\ r[i] = s[i] BY <1>1, <1>3, <3>2
        <4> QED BY <3>1, <4>1
      <3>3. CASE i >= k
        <4>1. i + 1 \in 1 .. n + 1 /\ i + 1 > k /\ (i + 1) - 1 = i BY <1>1, <3>3
        <4>2. r[i + 1] = s[i] BY <1>1, <1>3, <4>1
        <4> QED BY <3>1, <4>1, <4>2
      <3> QED BY <1>1, <3>2, <3>3
    <2> QED BY <2>1, <2>2 DEF T
  <1>9. ASSUME NEW i \in 1 .. n + 1, NEW j \in 1 .. n + 1, r[i] = r[j]
        PROVE  i = j
    <2>1. CASE i # k /\ j # k
      <3>1. /\ From(i) \in 1 .. n /\ From(j) \in 1 .. n
            /\ s[From(i)] = s[From(j)]
        BY <1>4, <1>9, <2>1
      <3>2. From(i) = From(j) BY <1>1, <3>1
      <3> QED BY <1>5, <2>1, <3>2
    <2>2. CASE i = k /\ j # k BY ZenonT(60), <1>1, <1>4, <1>6, <1>9, <2>2
    <2>3. CASE i # k /\ j = k BY SMTT(30), <1>1, <1>4, <1>6, <1>9, <2>3
    <2> QED BY <2>1, <2>2, <2>3
  <1>10. ASSUME NEW i \in 1 .. n + 1, NEW j \in 1 .. n + 1, i < j
         PROVE  g[r[i]].size <= g[r[j]].size
    <2>1. CASE i # k /\ j # k
      <3>1. /\ From(i) \in 1 .. n /\ From(j) \in 1 .. n /\ From(i) < From(j)
            /\ r[i] = s[From(i)] /\ r[j] = s[From(j)]
        BY <1>4, <1>5, <1>10, <2>1
      <3>2. f[s[From(i)]].size <= f[s[From(j)]].size BY <1>1, <3>1
      <3>3. s[From(i)] \in S /\ s[From(j)] \in S BY <1>1, <3>1
      <3> QED BY <3>1, <3>2, <3>3
    <2>2. CASE i = k
      <3>1. /\ From(j) \in 1 .. n /\ From(j) >= k /\ r[j] = s[From(j)]
            /\ s[From(j)] \in S
        BY <1>1, <1>4, <1>7, <1>10, <2>2
      <3> QED BY <1>6, <2>2, <3>1 DEF n
    <2>3. CASE j = k
      <3>1. /\ From(i) \in 1 .. n /\ From(i) < k /\ r[i] = s[From(i)]
            /\ s[From(i)] \in S
        BY <1>1, <1>4, <1>7, <1>10, <2>3
      <3> QED BY <1>6, <2>3, <3>1 DEF n
    <2> QED BY <2>1, <2>2, <2>3
  <1>11. ListOk(r, T, g) BY <1>3, <1>8, <1>9, <1>10 DEF ListOk
  <1> QED BY <1>11 DEF r, T

\* gki_remove_from_pool_list.
LEMMA RemoveKeepsList ==
    ASSUME NEW s, NEW S, NEW f, NEW g, ListOk(s, S, f),
           NEW k \in 1 .. Len(s), NEW p, s[k] = p,
           \A x \in S \ {p} : g[x].size = f[x].size
    PROVE  ListOk(RemoveAt(s, k), S \ {p}, g)
  <1> DEFINE T == S \ {p}
             n == Len(s)
             r == RemoveAt(s, k)
  <1>1. /\ s \in Seq(S) /\ n \in Nat /\ k \in Nat /\ k <= n
        /\ \A i \in 1 .. n : s[i] \in S
        /\ \A i, j \in 1 .. n : s[i] = s[j] => i = j
        /\ \A i, j \in 1 .. n : i < j => f[s[i]].size <= f[s[j]].size
        /\ \A x \in S : \E i \in 1 .. n : s[i] = x
    BY LenProperties, ElementOfSeq DEF ListOk
  <1>2. /\ r \in Seq(S) /\ Len(r) = n - 1
        /\ \A i \in 1 .. n - 1 : r[i] = IF i < k THEN s[i] ELSE s[i + 1]
    BY <1>1, RemoveAtFacts
  <1>k. k \in 1 .. n /\ s[k] = p OBVIOUS
  <1> HIDE DEF T, n, r
  <1> DEFINE From(i) == IF i < k THEN i ELSE i + 1
  <1>3. \A i \in 1 .. n - 1 : From(i) \in 1 .. n /\ From(i) # k /\ r[i] = s[From(i)]
    <2>1. \A i \in 1 .. n - 1 : From(i) \in 1 .. n /\ From(i) # k
      BY <1>1
    <2>2. \A i \in 1 .. n - 1 : r[i] = s[From(i)]
      BY <1>2
    <2> QED BY <2>1, <2>2
  <1>4. \A i, j \in 1 .. n - 1 : (From(i) = From(j) => i = j)
                                 /\ (i < j => From(i) < From(j))
    BY <1>1
  <1> HIDE DEF From
  <1>5. \A i \in 1 .. n - 1 : r[i] \in T BY SMTT(30), <1>1, <1>3, <1>k DEF T
  <1>6. r \in Seq(T)
    <2>1. r \in [1 .. n - 1 -> S] /\ n - 1 \in Nat BY <1>2, <1>1, LenProperties
    <2>2. r \in [1 .. n - 1 -> T] BY <1>5, <2>1
    <2> QED BY <2>1, <2>2
  <1>7. ASSUME NEW x \in T PROVE \E i \in 1 .. n - 1 : r[i] = x
    <2>1. PICK i \in 1 .. n : s[i] = x BY <1>1 DEF T
    <2>2. i # k BY <1>k, <2>1 DEF T
    <2>3. CASE i < k
      <3>1. i \in 1 .. n - 1 /\ r[i] = s[i] BY <1>1, <1>2, <2>3
      <3> QED BY <2>1, <3>1
    <2>4. CASE i > k
      <3>1. i - 1 \in 1 .. n - 1 /\ ~(i - 1 < k) /\ (i - 1) + 1 = i BY <1>1, <2>4
      <3>2. r[i - 1] = s[i] BY <1>2, <3>1
      <3> QED BY <2>1, <3>1, <3>2
    <2> QED BY <1>1, <2>2, <2>3, <2>4
  <1>8. ASSUME NEW i \in 1 .. n - 1, NEW j \in 1 .. n - 1, r[i] = r[j]
        PROVE  i = j
    <2>1. From(i) \in 1 .. n /\ From(j) \in 1 .. n /\ s[From(i)] = s[From(j)]
      BY <1>3, <1>8
    <2>2. From(i) = From(j) BY <1>1, <2>1
    <2> QED BY <1>4, <2>2
  <1>9. ASSUME NEW i \in 1 .. n - 1, NEW j \in 1 .. n - 1, i < j
        PROVE  g[r[i]].size <= g[r[j]].size
    <2>1. /\ From(i) \in 1 .. n /\ From(j) \in 1 .. n /\ From(i) < From(j)
          /\ r[i] = s[From(i)] /\ r[j] = s[From(j)]
      BY <1>3, <1>4, <1>9
    <2>2. f[r[i]].size <= f[r[j]].size BY <1>1, <2>1, SMTT(30)
    <2>3. g[r[i]].size = f[r[i]].size /\ g[r[j]].size = f[r[j]].size
      BY <1>5 DEF T
    <2> QED BY <2>2, <2>3
  <1>10. ListOk(r, T, g) BY <1>2, <1>6, <1>7, <1>8, <1>9 DEF ListOk
  <1> QED BY <1>10 DEF r, T

\* The position that ListPos finds, by the first that fits.
LEMMA FirstFit ==
    ASSUME NEW s, NEW S, NEW f, ListOk(s, S, f), NEW size \in Nat,
           \A x \in S : f[x].size \in Nat,
           NEW fit \in SUBSET (1 .. Len(s)),
           \A i \in 1 .. Len(s) : i \in fit <=> size <= f[s[i]].size,
           NEW k, k = IF fit = {} THEN Len(s) + 1 ELSE Min(fit)
    PROVE  /\ k \in 1 .. Len(s) + 1
           /\ \A i \in 1 .. Len(s) : i < k => f[s[i]].size <= size
           /\ \A i \in 1 .. Len(s) : i >= k => size <= f[s[i]].size
  <1>h. /\ fit \in SUBSET (1 .. Len(s))
        /\ \A i \in 1 .. Len(s) : i \in fit <=> size <= f[s[i]].size
        /\ k = IF fit = {} THEN Len(s) + 1 ELSE Min(fit)
    OBVIOUS
  <1>1. /\ s \in Seq(S) /\ Len(s) \in Nat /\ DOMAIN s = 1 .. Len(s)
        /\ \A i \in 1 .. Len(s) : s[i] \in S
        /\ \A i, j \in 1 .. Len(s) : i < j => f[s[i]].size <= f[s[j]].size
    BY LenProperties, ElementOfSeq DEF ListOk
  <1>2. \A i \in 1 .. Len(s) : f[s[i]].size \in Nat BY <1>1
  <1>3. CASE fit = {} BY <1>h, <1>1, <1>2, <1>3
  <1>4. CASE fit # {}
    <2>1. fit \in SUBSET Nat BY <1>h, <1>1
    <2>2. Min(fit) \in fit /\ \A i \in fit : Min(fit) <= i
      BY <1>4, <2>1, MinFacts
    <2>3. k \in 1 .. Len(s) /\ size <= f[s[k]].size BY <1>h, <1>1, <1>4, <2>2
    <2>4. ASSUME NEW i \in 1 .. Len(s), i < k PROVE f[s[i]].size <= size
      <3>1. k = Min(fit) BY <1>h, <1>4
      <3>2. ~(k <= i) BY <1>1, <2>3, <2>4
      <3>3. i \notin fit BY <2>2, <3>1, <3>2
      <3> QED BY <1>h, <1>1, <1>2, <3>3
    <2>5. ASSUME NEW i \in 1 .. Len(s), i >= k PROVE size <= f[s[i]].size
      <3>1. k = i \/ k < i BY <1>1, <2>3, <2>5
      <3>2. f[s[k]].size <= f[s[i]].size BY <1>1, <1>2, <2>3, <3>1
      <3> QED BY SMTT(30), <1>2, <2>3, <3>2
    <2>6. k \in 1 .. Len(s) + 1 BY <1>1, <2>3
    <2> QED BY <2>4, <2>5, <2>6
  <1> QED BY <1>3, <1>4

----------------------------------------------------------------------------
(***************************************************************************)
(* All pools and their list, under the four changes that both managers     *)
(* make.                                                                   *)
(***************************************************************************)

LEMMA Alignment ==
    ASSUME NEW size \in Nat
    PROVE  /\ Gki!Align(size) \in Nat /\ Gki!ActSize(size) \in Nat
           /\ Gki!ActSize(Gki!Align(size)) = Gki!ActSize(size)
  <1>1. Gki!Align(size) \in Nat BY DEF Gki!Align
  <1>2. Gki!Align(Gki!Align(size)) = Gki!Align(size)
    <2>1. PICK n \in Nat : n = (size + 3) \div 4 OBVIOUS
    <2>2. Gki!Align(size) = n * 4 BY <2>1 DEF Gki!Align
    <2>3. (n * 4 + 3) \div 4 = n OBVIOUS
    <2> QED BY <2>2, <2>3 DEF Gki!Align
  <1> QED BY <1>1, <1>2 DEF Gki!ActSize, Gki!Padding

\* gki_init_free_queue lays out a pool of the asked number of buffers.
LEMMA FreeQueueOk ==
    ASSUME NEW p, NEW O, OutOf(p, O) = {},
           NEW size \in Nat, NEW total \in Nat, Gki!ActSize(size) # 0
    PROVE  /\ PoolOk(Gki!FreeQueue(p, size, total), p, O)
           /\ Gki!FreeQueue(p, size, total).size = Gki!Align(size)
  <1> DEFINE Q == Gki!FreeQueue(p, size, total)
             act == Gki!ActSize(size)
             s == [i \in 1 .. total |-> <<p, (i - 1) * act>>]
  <1>1. /\ act \in Nat \ {0} /\ Gki!Align(size) \in Nat
        /\ Gki!ActSize(Gki!Align(size)) = act
    BY Alignment
  <1>2. Q = [size |-> Gki!Align(size), total |-> total, cur_cnt |-> 0,
             max_cnt |-> 0, list |-> s]
    BY <1>1 DEF Gki!FreeQueue
  <1> HIDE DEF Q, act
  <1>3. \A i \in 1 .. total : <<p, (i - 1) * act>> \in {p} \X Nat BY <1>1
  <1>4. s \in [1 .. total -> {p} \X Nat] BY <1>3
  <1>5. s \in Seq({p} \X Nat) /\ Len(s) = total BY <1>4
  <1>6. \A i \in 1 .. Len(s) : s[i] = <<p, (i - 1) * act>> BY <1>5
  <1> HIDE DEF s
  <1>7. Q \in PoolRecord(p) BY <1>1, <1>2, <1>5 DEF PoolRecord
  <1>8. /\ Q.list = s /\ Q.total = total /\ Q.cur_cnt = 0
        /\ Q.size = Gki!Align(size)
    BY <1>2
  <1>9. PoolOk(Q, p, O) BY <1>1, <1>5, <1>6, <1>7, <1>8, NewPool
  <1> QED BY <1>8, <1>9 DEF Q

\* The pools after Take(p), FreeBuf(b), CreatePool and DeletePool(p), and the
\* places on the list that the last two find.
TakenFrom(f, p) ==
    [f EXCEPT ![p] = [f[p] EXCEPT !.list = Tail(@), !.cur_cnt = @ + 1,
                                  !.max_cnt = IF f[p].cur_cnt + 1 > @
                                              THEN f[p].cur_cnt + 1 ELSE @]]
GivenBack(f, b) ==
    [f EXCEPT ![b[1]].list = Append(@, b),
              ![b[1]].cur_cnt = IF @ > 0 THEN @ - 1 ELSE 0]
MadeIn(f, p, size, total) == [f EXCEPT ![p] = Gki!FreeQueue(p, size, total)]
GivenUp(f, p) == [f EXCEPT ![p] = Gki!NoQueue]
PlaceFor(f, s, size) ==
    LET fit == {i \in DOMAIN s : size <= f[s[i]].size}
    IN  IF fit = {} THEN Len(s) + 1 ELSE Min(fit)
PlaceOf(s, p) ==
    LET at == {i \in DOMAIN s : s[i] = p} IN IF at = {} THEN Len(s) ELSE Min(at)

\* A buffer leaves its pool.
LEMMA PoolsTake ==
    ASSUME NEW f, NEW s, NEW S, NEW O, PoolsOk(f, s, S, O),
           NEW p \in Gki!PoolIds, f[p].cur_cnt < f[p].total
    PROVE  /\ PoolsOk(TakenFrom(f, p), s, S, O \cup {Head(f[p].list)})
           /\ Head(f[p].list) \in LaidOut(f[p], p) \ O
           /\ \A r \in Gki!PoolIds :
                 LaidOut(TakenFrom(f, p)[r], r) = LaidOut(f[r], r)
  <1> SUFFICES ASSUME NEW R,
                      R = [f[p] EXCEPT !.list = Tail(@), !.cur_cnt = @ + 1,
                                       !.max_cnt = IF f[p].cur_cnt + 1 > @
                                                   THEN f[p].cur_cnt + 1 ELSE @],
                      NEW g, g = [f EXCEPT ![p] = R]
               PROVE  /\ PoolsOk(g, s, S, O \cup {Head(f[p].list)})
                      /\ Head(f[p].list) \in LaidOut(f[p], p) \ O
                      /\ \A r \in Gki!PoolIds : LaidOut(g[r], r) = LaidOut(f[r], r)
    BY DEF TakenFrom
  <1> DEFINE Q == f[p]
             h == Head(Q.list)
             P == O \cup {h}
  <1>1. /\ DOMAIN f = Gki!PoolIds /\ O \in SUBSET Buffers /\ IsFiniteSet(O)
        /\ S \in SUBSET Gki!PoolIds /\ PoolOk(Q, p, O) /\ ListOk(s, S, f)
        /\ \A r \in Gki!PoolIds : PoolOk(f[r], r, O)
        /\ \A r \in Gki!PoolIds \ S : f[r].total = 0
    BY DEF PoolsOk
  <1>2. /\ Q \in PoolRecord(p) /\ Q.list # <<>> /\ Q.list \in Seq({p} \X Nat)
        /\ h \in {p} \X Nat /\ h \notin O /\ h \in LaidOut(Q, p)
    <2>1. /\ Q.list # <<>> /\ Q.list \in Seq({p} \X Nat) /\ h \in {p} \X Nat
          /\ h \notin O /\ h = Q.list[1] /\ 1 \in 1 .. Len(Q.list)
      BY <1>1, PoolHasFree
    <2> QED BY <1>1, <2>1 DEF PoolOk
  <1>3. Tail(Q.list) \in Seq({p} \X Nat) BY <1>2, HeadTailProperties
  <1>4. /\ R \in PoolRecord(p) /\ R.list = Tail(Q.list)
        /\ R.cur_cnt = Q.cur_cnt + 1 /\ R.total = Q.total /\ R.size = Q.size
    <2>1. PICK m \in Nat : m = IF Q.cur_cnt + 1 > Q.max_cnt THEN Q.cur_cnt + 1
                               ELSE Q.max_cnt
      BY <1>2 DEF PoolRecord
    <2>2. PICK c \in Nat : c = Q.cur_cnt + 1 BY <1>2 DEF PoolRecord
    <2>3. PICK l \in Seq({p} \X Nat) : l = Tail(Q.list) BY <1>3
    <2>4. R = [Q EXCEPT !.list = l, !.cur_cnt = c, !.max_cnt = m]
      BY <2>1, <2>2, <2>3
    <2>5. Q \in PoolRecord(p) BY <1>2
    <2>6. /\ R \in PoolRecord(p) /\ R.list = l /\ R.cur_cnt = c
          /\ R.total = Q.total /\ R.size = Q.size
      BY ONLY l \in Seq({p} \X Nat), c \in Nat, m \in Nat, <2>4, <2>5 DEF PoolRecord
    <2> QED BY <2>2, <2>3, <2>6
  <1>5. /\ DOMAIN g = Gki!PoolIds /\ g[p] = R
        /\ \A r \in Gki!PoolIds : r # p => g[r] = f[r]
    BY <1>1
  <1> HIDE DEF Q, h, P
  <1>6. PoolOk(R, p, P) BY <1>1, <1>4, TakeKeepsPool DEF h, P, Q
  <1>7. ASSUME NEW r \in Gki!PoolIds PROVE PoolOk(g[r], r, P)
    <2>1. CASE r = p BY <1>5, <1>6, <2>1
    <2>2. CASE r # p
      <3>1. OutOf(r, P) = OutOf(r, O) BY <1>2, <2>2 DEF OutOf, P
      <3>2. PoolOk(f[r], r, O) BY <1>1
      <3>3. PoolOk(f[r], r, P) BY ONLY <3>1, <3>2, OtherPool
      <3> QED BY <1>5, <2>2, <3>3
    <2> QED BY <2>1, <2>2
  <1>8. \A r \in Gki!PoolIds : g[r].size = f[r].size /\ g[r].total = f[r].total
    BY <1>4, <1>5 DEF Q
  <1>9. ListOk(s, S, g) BY <1>1, <1>8, SameList
  <1>10. P \in SUBSET Buffers /\ IsFiniteSet(P)
    BY <1>1, <1>2, FS_AddElement DEF P, Buffers
  <1>11. PoolsOk(g, s, S, P) BY <1>1, <1>5, <1>7, <1>8, <1>9, <1>10 DEF PoolsOk
  <1>12. \A r \in Gki!PoolIds : LaidOut(g[r], r) = LaidOut(f[r], r)
    BY <1>8 DEF LaidOut
  <1> QED BY <1>2, <1>11, <1>12 DEF P, h, Q

\* A buffer that is out comes back.
LEMMA PoolsPut ==
    ASSUME NEW f, NEW s, NEW S, NEW O, PoolsOk(f, s, S, O), NEW b \in O
    PROVE  /\ PoolsOk(GivenBack(f, b), s, S, O \ {b})
           /\ \A r \in Gki!PoolIds :
                 LaidOut(GivenBack(f, b)[r], r) = LaidOut(f[r], r)
           /\ b \in LaidOut(f[b[1]], b[1]) /\ b[1] \in Gki!PoolIds
  <1> SUFFICES ASSUME NEW g,
                      g = [f EXCEPT ![b[1]].list = Append(@, b),
                                    ![b[1]].cur_cnt = IF @ > 0 THEN @ - 1 ELSE 0]
               PROVE  /\ PoolsOk(g, s, S, O \ {b})
                      /\ \A r \in Gki!PoolIds : LaidOut(g[r], r) = LaidOut(f[r], r)
                      /\ b \in LaidOut(f[b[1]], b[1]) /\ b[1] \in Gki!PoolIds
    BY DEF GivenBack
  <1> DEFINE p == b[1]
             Q == f[p]
             P == O \ {b}
             R == [Q EXCEPT !.list = Append(@, b),
                            !.cur_cnt = IF @ > 0 THEN @ - 1 ELSE 0]
  <1>1. /\ DOMAIN f = Gki!PoolIds /\ O \in SUBSET Buffers /\ IsFiniteSet(O)
        /\ S \in SUBSET Gki!PoolIds /\ ListOk(s, S, f)
        /\ \A r \in Gki!PoolIds : PoolOk(f[r], r, O)
        /\ \A r \in Gki!PoolIds \ S : f[r].total = 0
    BY DEF PoolsOk
  <1>2. p \in Gki!PoolIds /\ b \in {p} \X Nat /\ PoolOk(Q, p, O)
    BY <1>1 DEF Buffers
  <1>3. Q \in PoolRecord(p) /\ Q.list \in Seq({p} \X Nat) /\ Q.cur_cnt \in Nat
    BY <1>2 DEF PoolOk, PoolRecord
  <1>4. Q.cur_cnt # 0 BY <1>1, <1>2, OutIsCounted DEF OutOf
  <1>5. g = [f EXCEPT ![p] = R]
    <2>1. g = [f EXCEPT ![p] = [[f[p] EXCEPT !.list = Append(@, b)] EXCEPT
                                   !.cur_cnt = IF @ > 0 THEN @ - 1 ELSE 0]]
      BY <1>1, <1>2
    <2> QED BY <2>1
  <1>6. Append(Q.list, b) \in Seq({p} \X Nat) BY <1>2, <1>3, AppendProperties
  <1>7. /\ R \in PoolRecord(p) /\ R.list = Append(Q.list, b)
        /\ R.cur_cnt = Q.cur_cnt - 1 /\ R.total = Q.total /\ R.size = Q.size
    <2>1. PICK m \in Nat : m = Q.max_cnt BY <1>3 DEF PoolRecord
    <2>2. PICK c \in Nat : c = Q.cur_cnt - 1 /\ c = IF Q.cur_cnt > 0 THEN Q.cur_cnt - 1 ELSE 0
      BY <1>3, <1>4
    <2>3. PICK l \in Seq({p} \X Nat) : l = Append(Q.list, b) BY <1>6
    <2>4. R = [Q EXCEPT !.list = l, !.cur_cnt = c] BY <2>2, <2>3
    <2>5. [Q EXCEPT !.list = l, !.cur_cnt = c] =
          [Q EXCEPT !.list = l, !.cur_cnt = c, !.max_cnt = m]
      BY <1>3, <2>1 DEF PoolRecord
    <2>6. R = [Q EXCEPT !.list = l, !.cur_cnt = c, !.max_cnt = m]
      BY <2>4, <2>5
    <2>7. Q \in PoolRecord(p) BY <1>3
    <2> HIDE DEF Q, R, p
    <2>8. /\ R \in PoolRecord(p) /\ R.list = l /\ R.cur_cnt = c
          /\ R.total = Q.total /\ R.size = Q.size
      BY ONLY l \in Seq({p} \X Nat), c \in Nat, m \in Nat, <2>6, <2>7 DEF PoolRecord
    <2> QED BY <2>2, <2>3, <2>8
  <1>8. /\ DOMAIN g = Gki!PoolIds /\ g[p] = R
        /\ \A r \in Gki!PoolIds : r # p => g[r] = f[r]
    BY <1>1, <1>2, <1>5
  <1> HIDE DEF Q, p, P, R
  <1>9. PoolOk(R, p, P) BY <1>1, <1>2, <1>7, PutKeepsPool DEF P
  <1>10. ASSUME NEW r \in Gki!PoolIds PROVE PoolOk(g[r], r, P)
    <2>1. CASE r = p BY <1>8, <1>9, <2>1
    <2>2. CASE r # p
      <3>1. OutOf(r, P) = OutOf(r, O) BY <1>2, <2>2 DEF OutOf, P
      <3>2. PoolOk(f[r], r, O) BY <1>1
      <3>3. PoolOk(f[r], r, P) BY ONLY <3>1, <3>2, OtherPool
      <3> QED BY <1>8, <2>2, <3>3
    <2> QED BY <2>1, <2>2
  <1>11. \A r \in Gki!PoolIds : g[r].size = f[r].size /\ g[r].total = f[r].total
    BY <1>7, <1>8 DEF Q
  <1>12. ListOk(s, S, g) BY <1>1, <1>11, SameList
  <1>13. P \in SUBSET Buffers /\ IsFiniteSet(P)
    BY <1>1, FS_RemoveElement DEF P
  <1>14. PoolsOk(g, s, S, P) BY <1>1, <1>8, <1>10, <1>11, <1>12, <1>13 DEF PoolsOk
  <1>15. \A r \in Gki!PoolIds : LaidOut(g[r], r) = LaidOut(f[r], r)
    BY <1>11 DEF LaidOut
  <1>16. b \in LaidOut(Q, p)
    <2>1. b \in OutOf(p, O) BY <1>2 DEF OutOf
    <2> QED BY <1>2, <2>1 DEF PoolOk
  <1> QED BY <1>2, <1>14, <1>15, <1>16 DEF P, Q, p

\* A pool without memory is laid out and enters the list.
LEMMA PoolsCreate ==
    ASSUME NEW f, NEW s, NEW S, NEW O, PoolsOk(f, s, S, O),
           NEW p \in Gki!PoolIds \ S,
           NEW size \in Nat, NEW total \in Nat, Gki!ActSize(size) # 0
    PROVE  /\ PoolsOk(MadeIn(f, p, size, total),
                      InsertAt(s, PlaceFor(f, s, Gki!Align(size)), p), S \cup {p}, O)
           /\ \A r \in Gki!PoolIds :
                 LaidOut(f[r], r) \subseteq LaidOut(MadeIn(f, p, size, total)[r], r)
  <1> SUFFICES ASSUME NEW g, g = [f EXCEPT ![p] = Gki!FreeQueue(p, size, total)],
                      NEW fit,
                      fit = {i \in DOMAIN s : Gki!Align(size) <= f[s[i]].size},
                      NEW k, k = IF fit = {} THEN Len(s) + 1 ELSE Min(fit)
               PROVE  /\ PoolsOk(g, InsertAt(s, k, p), S \cup {p}, O)
                      /\ \A r \in Gki!PoolIds :
                            LaidOut(f[r], r) \subseteq LaidOut(g[r], r)
    BY DEF MadeIn, PlaceFor
  <1> DEFINE Q == Gki!FreeQueue(p, size, total)
  <1>1. /\ DOMAIN f = Gki!PoolIds /\ O \in SUBSET Buffers /\ IsFiniteSet(O)
        /\ S \in SUBSET Gki!PoolIds /\ ListOk(s, S, f)
        /\ \A r \in Gki!PoolIds : PoolOk(f[r], r, O)
        /\ \A r \in Gki!PoolIds \ S : f[r].total = 0
    BY DEF PoolsOk
  <1>2. g[p] = Q /\ DOMAIN g = Gki!PoolIds /\ \A r \in Gki!PoolIds : r # p => g[r] = f[r]
    BY <1>1
  <1>3. \A r \in Gki!PoolIds : f[r].size \in Nat BY <1>1 DEF PoolOk, PoolRecord
  <1>4. OutOf(p, O) = {}
    <2>1. PoolOk(f[p], p, O) /\ f[p].total = 0 BY <1>1
    <2>2. f[p].cur_cnt \in Nat /\ (f[p].cur_cnt = 0 <=> OutOf(p, O) = {})
      BY ONLY <1>1, <2>1, OutIsCounted
    <2>3. f[p].list \in Seq({p} \X Nat) /\ Len(f[p].list) + f[p].cur_cnt = 0
      BY <2>1 DEF PoolOk, PoolRecord
    <2>4. Len(f[p].list) \in Nat BY <2>3, LenProperties
    <2> QED BY <2>2, <2>3, <2>4
  <1>5. PoolOk(Q, p, O) /\ Q.size = Gki!Align(size) BY ONLY <1>4, FreeQueueOk,
      size \in Nat, total \in Nat, Gki!ActSize(size) # 0
  <1>6. Gki!Align(size) \in Nat BY Alignment
  <1>7. /\ k \in 1 .. Len(s) + 1
        /\ \A i \in 1 .. Len(s) : i < k => f[s[i]].size <= Gki!Align(size)
        /\ \A i \in 1 .. Len(s) : i >= k => Gki!Align(size) <= f[s[i]].size
    <2>1. ListOk(s, S, f) /\ \A x \in S : f[x].size \in Nat BY <1>1, <1>3
    <2>2. PICK z \in Nat : z = Gki!Align(size) BY <1>6
    <2>3. /\ fit \in SUBSET (1 .. Len(s))
          /\ \A i \in 1 .. Len(s) : i \in fit <=> z <= f[s[i]].size
          /\ k = IF fit = {} THEN Len(s) + 1 ELSE Min(fit)
      <3>1. s \in Seq(S) BY <2>1 DEF ListOk
      <3>2. DOMAIN s = 1 .. Len(s) BY <3>1, LenProperties
      <3> QED BY <2>2, <3>2
    <2>4. z \in Nat OBVIOUS
    <2>5. /\ k \in 1 .. Len(s) + 1
          /\ \A i \in 1 .. Len(s) : i < k => f[s[i]].size <= z
          /\ \A i \in 1 .. Len(s) : i >= k => z <= f[s[i]].size
      BY ONLY <2>1, <2>3, <2>4, FirstFit
    <2> QED BY <2>2, <2>5
  <1> HIDE DEF Q
  <1>8. g[p].size \in Nat /\ g[p].size = Gki!Align(size) BY <1>2, <1>5, <1>6
  <1>9. \A x \in S : g[x].size = f[x].size /\ f[x].size \in Nat
    BY <1>1, <1>2, <1>3
  <1>10. ListOk(InsertAt(s, k, p), S \cup {p}, g)
    <2>1. /\ \A i \in 1 .. Len(s) : i < k => f[s[i]].size <= g[p].size
          /\ \A i \in 1 .. Len(s) : i >= k => g[p].size <= f[s[i]].size
      BY <1>7, <1>8
    <2>2. ListOk(s, S, f) /\ p \notin S /\ k \in 1 .. Len(s) + 1 BY <1>1, <1>7
    <2> QED BY ONLY <1>8, <1>9, <2>1, <2>2, InsertKeepsList
  <1>11. \A r \in Gki!PoolIds : PoolOk(g[r], r, O) BY <1>1, <1>2, <1>5
  <1>12. \A r \in Gki!PoolIds \ (S \cup {p}) : g[r].total = 0 BY <1>1, <1>2
  <1>13. PoolsOk(g, InsertAt(s, k, p), S \cup {p}, O)
    BY <1>1, <1>2, <1>10, <1>11, <1>12 DEF PoolsOk
  <1>14. ASSUME NEW r \in Gki!PoolIds
         PROVE  LaidOut(f[r], r) \subseteq LaidOut(g[r], r)
    <2>1. CASE r = p
      <3>1. f[p].total = 0 BY <1>1
      <3>2. LaidOut(f[p], p) = {} BY <3>1 DEF LaidOut
      <3> QED BY <2>1, <3>2
    <2>2. CASE r # p BY <1>2, <2>2
    <2> QED BY <2>1, <2>2
  <1> QED BY <1>13, <1>14

\* A pool of which no buffer is out is given up.
LEMMA PoolsDelete ==
    ASSUME NEW f, NEW s, NEW S, NEW O, PoolsOk(f, s, S, O),
           NEW p \in S, f[p].cur_cnt = 0
    PROVE  /\ PoolsOk(GivenUp(f, p), RemoveAt(s, PlaceOf(s, p)), S \ {p}, O)
           /\ \A r \in Gki!PoolIds :
                 LaidOut(GivenUp(f, p)[r], r) \subseteq LaidOut(f[r], r)
           /\ \A r \in Gki!PoolIds :
                 OutOf(r, O) \subseteq LaidOut(GivenUp(f, p)[r], r)
  <1> SUFFICES ASSUME NEW g, g = [f EXCEPT ![p] = Gki!NoQueue],
                      NEW at, at = {i \in DOMAIN s : s[i] = p}
               PROVE  /\ at # {} /\ PoolsOk(g, RemoveAt(s, Min(at)), S \ {p}, O)
                      /\ \A r \in Gki!PoolIds :
                            LaidOut(g[r], r) \subseteq LaidOut(f[r], r)
                      /\ \A r \in Gki!PoolIds :
                            OutOf(r, O) \subseteq LaidOut(g[r], r)
    BY DEF GivenUp, PlaceOf
  <1>1. /\ DOMAIN f = Gki!PoolIds /\ O \in SUBSET Buffers /\ IsFiniteSet(O)
        /\ S \in SUBSET Gki!PoolIds /\ ListOk(s, S, f) /\ p \in Gki!PoolIds
        /\ \A r \in Gki!PoolIds : PoolOk(f[r], r, O)
        /\ \A r \in Gki!PoolIds \ S : f[r].total = 0
    BY DEF PoolsOk
  <1>2. /\ g[p] = Gki!NoQueue /\ DOMAIN g = Gki!PoolIds
        /\ \A r \in Gki!PoolIds : r # p => g[r] = f[r]
    BY <1>1
  <1>3. OutOf(p, O) = {}
    <2>1. PoolOk(f[p], p, O) BY <1>1
    <2> QED BY <1>1, <2>1, OutIsCounted
  <1>4. PoolOk(Gki!NoQueue, p, O) BY <1>3, NoPool
  <1>5. at # {} /\ at \in SUBSET Nat /\ DOMAIN s = 1 .. Len(s)
    <2>1. s \in Seq(S) /\ \E i \in 1 .. Len(s) : s[i] = p BY <1>1 DEF ListOk
    <2>2. DOMAIN s = 1 .. Len(s) /\ Len(s) \in Nat BY <2>1, LenProperties
    <2> QED BY <2>1, <2>2
  <1>6. Min(at) \in 1 .. Len(s) /\ s[Min(at)] = p
    <2>1. Min(at) \in at BY <1>5, MinFacts
    <2> QED BY <1>5, <2>1
  <1>7. \A x \in S \ {p} : g[x].size = f[x].size BY <1>1, <1>2
  <1>8. ListOk(RemoveAt(s, Min(at)), S \ {p}, g)
    <2>1. ListOk(s, S, f) BY <1>1
    <2> QED BY ONLY <1>6, <1>7, <2>1, RemoveKeepsList
  <1>9. \A r \in Gki!PoolIds : PoolOk(g[r], r, O) BY <1>1, <1>2, <1>4
  <1>10. Gki!NoQueue.total = 0 BY DEF Gki!NoQueue
  <1>11. \A r \in Gki!PoolIds \ (S \ {p}) : g[r].total = 0 BY <1>1, <1>2, <1>10
  <1>12. PoolsOk(g, RemoveAt(s, Min(at)), S \ {p}, O)
    BY <1>1, <1>2, <1>8, <1>9, <1>11 DEF PoolsOk
  <1>13. ASSUME NEW r \in Gki!PoolIds
         PROVE  LaidOut(g[r], r) \subseteq LaidOut(f[r], r)
    <2>1. CASE r = p
      <3>1. LaidOut(g[p], p) = {} BY <1>2, <1>10 DEF LaidOut
      <3> QED BY <2>1, <3>1
    <2>2. CASE r # p BY <1>2, <2>2
    <2> QED BY <2>1, <2>2
  <1>14. \A r \in Gki!PoolIds : OutOf(r, O) \subseteq LaidOut(g[r], r)
    BY <1>9 DEF PoolOk
  <1> QED BY <1>5, <1>12, <1>13, <1>14

\* What BufferPoolsAccounted says of the pools and their list.
LEMMA PoolsAccounted ==
    ASSUME NEW f, NEW s, NEW S, NEW O, PoolsOk(f, s, S, O)
    PROVE  /\ \A p \in Gki!PoolIds :
                 /\ f[p].cur_cnt = Cardinality(OutOf(p, O))
                 /\ Len(f[p].list) + f[p].cur_cnt = f[p].total
                 /\ Cardinality(ToSet(f[p].list) \cup OutOf(p, O)) = f[p].total
           /\ ToSet(s) = S /\ Len(s) = Cardinality(S) /\ IsInjective(s)
           /\ \A i, j \in DOMAIN s : i < j => f[s[i]].size <= f[s[j]].size
  <1>1. /\ IsFiniteSet(O) /\ ListOk(s, S, f)
        /\ \A p \in Gki!PoolIds : PoolOk(f[p], p, O)
    BY DEF PoolsOk
  <1>2. ASSUME NEW p \in Gki!PoolIds
        PROVE  /\ f[p].cur_cnt = Cardinality(OutOf(p, O))
               /\ Len(f[p].list) + f[p].cur_cnt = f[p].total
               /\ Cardinality(ToSet(f[p].list) \cup OutOf(p, O)) = f[p].total
    <2>1. PoolOk(f[p], p, O) BY <1>1
    <2> QED BY <1>1, <2>1, PoolCounts DEF PoolOk
  <1>3. /\ s \in Seq(S) /\ DOMAIN s = 1 .. Len(s)
        /\ \A x \in S : \E i \in 1 .. Len(s) : s[i] = x
        /\ \A i \in 1 .. Len(s) : s[i] \in S
        /\ \A i, j \in 1 .. Len(s) : s[i] = s[j] => i = j
    BY <1>1, LenProperties, ElementOfSeq DEF ListOk
  <1>4. ToSet(s) = S BY <1>3 DEF ToSet
  <1>5. Len(s) = Cardinality(S) BY <1>3, <1>4, SeqCardinality
  <1>6. \A i, j \in DOMAIN s : i < j => f[s[i]].size <= f[s[j]].size
    BY <1>1, <1>3 DEF ListOk
  <1> QED BY <1>2, <1>3, <1>4, <1>5, <1>6 DEF IsInjective

----------------------------------------------------------------------------
(***************************************************************************)
(* GKI.                                                                    *)
(***************************************************************************)

\* The buffers that exist, as the refinement mapping sees them.
Live == UNION {LaidOut(freeq[p], p) : p \in Gki!PoolIds}

LEMMA GkiLive == UNION {Gki!Laid(p) : p \in Gki!PoolIds} = Live
  BY DEF Gki!Laid, LaidOut, Live

LEMMA GkiGets ==
    ASSUME NEW b, b \in Live \ unlinked, unlinked' = unlinked \cup {b}, Live' = Live
    PROVE  Gki!Abstract!Next
  <1>1. /\ UNION {Gki!Laid(p) : p \in Gki!PoolIds} = Live
        /\ UNION {Gki!Laid(p) : p \in Gki!PoolIds}' = Live'
    BY GkiLive DEF Gki!Laid, LaidOut, Live
  <1> QED BY <1>1 DEF Gki!Abstract!Next, Gki!Abstract!Get

LEMMA GkiPuts ==
    ASSUME NEW b, b \in Live \cap unlinked, unlinked' = unlinked \ {b}, Live' = Live
    PROVE  Gki!Abstract!Next
  <1>1. /\ UNION {Gki!Laid(p) : p \in Gki!PoolIds} = Live
        /\ UNION {Gki!Laid(p) : p \in Gki!PoolIds}' = Live'
    BY GkiLive DEF Gki!Laid, LaidOut, Live
  <1> QED BY <1>1 DEF Gki!Abstract!Next, Gki!Abstract!Put

LEMMA GkiMakes ==
    ASSUME Live \subseteq Live', UNCHANGED unlinked
    PROVE  [Gki!Abstract!Next]_Gki!Abstract!vars
  <1>1. /\ UNION {Gki!Laid(p) : p \in Gki!PoolIds} = Live
        /\ UNION {Gki!Laid(p) : p \in Gki!PoolIds}' = Live'
    BY GkiLive DEF Gki!Laid, LaidOut, Live
  <1>2. CASE Live' \ Live = {}
    BY <1>1, <1>2 DEF Gki!Abstract!vars
  <1>3. CASE Live' \ Live # {}
    BY <1>1, <1>3 DEF Gki!Abstract!Next, Gki!Abstract!Create
  <1> QED BY <1>2, <1>3

LEMMA GkiDrops ==
    ASSUME Live' \subseteq Live, unlinked \subseteq Live', UNCHANGED unlinked
    PROVE  Gki!Abstract!Next
  <1>1. /\ UNION {Gki!Laid(p) : p \in Gki!PoolIds} = Live
        /\ UNION {Gki!Laid(p) : p \in Gki!PoolIds}' = Live'
    BY GkiLive DEF Gki!Laid, LaidOut, Live
  <1> QED BY <1>1 DEF Gki!Abstract!Next, Gki!Abstract!Destroy

LEMMA GkiTake ==
    ASSUME GkiInv, NEW p \in Gki!PoolIds, Gki!HasFree(p), Gki!Take(p)
    PROVE  GkiInv' /\ Gki!Abstract!Next
  <1> DEFINE h == Head(freeq[p].list)
  <1>1. /\ freeq' = TakenFrom(freeq, p) /\ unlinked' = unlinked \cup {h}
        /\ pool_list' = pool_list /\ start' = start
        /\ freeq[p].cur_cnt < freeq[p].total
        /\ PoolsOk(freeq, pool_list, start, unlinked)
    BY DEF Gki!Take, Gki!HasFree, GkiInv, TakenFrom
  <1>2. /\ PoolsOk(freeq', pool_list, start, unlinked \cup {h})
        /\ h \in LaidOut(freeq[p], p) \ unlinked
        /\ \A r \in Gki!PoolIds : LaidOut(freeq'[r], r) = LaidOut(freeq[r], r)
    BY <1>1, PoolsTake
  <1>3. GkiInv' BY <1>1, <1>2 DEF GkiInv
  <1>4. Live' = Live BY <1>2 DEF Live
  <1>5. h \in Live \ unlinked BY <1>2 DEF Live
  <1> HIDE DEF h
  <1> QED BY <1>1, <1>3, <1>4, <1>5, GkiGets

LEMMA GkiGetBuf ==
    ASSUME GkiInv, NEW size, Gki!GetBuf(size)
    PROVE  GkiInv' /\ Gki!Abstract!Next
  <1> DEFINE F == Gki!Fits(size)
             i == Min(F)
  <1>1. ListOk(pool_list, start, freeq) /\ start \in SUBSET Gki!PoolIds
    BY DEF GkiInv, PoolsOk
  <1>2. pool_list \in Seq(start) BY <1>1 DEF ListOk
  <1>3. DOMAIN pool_list = 1 .. Len(pool_list) BY <1>2, LenProperties
  <1>4. F # {} /\ F \in SUBSET Nat BY <1>3 DEF Gki!GetBuf, Gki!Fits
  <1>5. i \in F BY <1>4, MinFacts
  <1>6. i \in 1 .. Len(pool_list) /\ Gki!HasFree(pool_list[i])
    BY <1>3, <1>5 DEF Gki!Fits
  <1>7. pool_list[i] \in Gki!PoolIds BY <1>1, <1>2, <1>6, ElementOfSeq
  <1>8. Gki!Take(pool_list[i]) BY DEF Gki!GetBuf, Gki!Min, Min
  <1> QED BY <1>6, <1>7, <1>8, GkiTake

LEMMA GkiFreeBuf ==
    ASSUME GkiInv, NEW b \in unlinked, Gki!FreeBuf(b)
    PROVE  GkiInv' /\ Gki!Abstract!Next
  <1>1. /\ freeq' = GivenBack(freeq, b) /\ unlinked' = unlinked \ {b}
        /\ pool_list' = pool_list /\ start' = start
        /\ PoolsOk(freeq, pool_list, start, unlinked)
    BY DEF Gki!FreeBuf, GkiInv, GivenBack
  <1>2. /\ PoolsOk(freeq', pool_list, start, unlinked \ {b})
        /\ \A r \in Gki!PoolIds : LaidOut(freeq'[r], r) = LaidOut(freeq[r], r)
        /\ b \in LaidOut(freeq[b[1]], b[1]) /\ b[1] \in Gki!PoolIds
    BY <1>1, PoolsPut
  <1>3. GkiInv' BY <1>1, <1>2 DEF GkiInv
  <1>4. Live' = Live BY <1>2 DEF Live
  <1>5. b \in Live \cap unlinked BY <1>2 DEF Live
  <1> QED BY <1>1, <1>3, <1>4, <1>5, GkiPuts

LEMMA GkiCreatePool ==
    ASSUME Gki!GkiConstants, GkiInv,
           NEW size \in Sizes, NEW count \in Counts, NEW r \in BOOLEAN,
           Gki!CreatePool(size, count, r)
    PROVE  GkiInv' /\ [Gki!Abstract!Next]_Gki!Abstract!vars
  <1> DEFINE p == Min(Gki!PoolIds \ start)
             k == PlaceFor(freeq, pool_list, Gki!Align(size))
  <1>1. /\ start \in SUBSET Gki!PoolIds
        /\ PoolsOk(freeq, pool_list, start, unlinked)
    BY DEF GkiInv, PoolsOk
  <1>2. size \in Nat /\ count \in Nat /\ Gki!ActSize(size) # 0
    BY DEF Gki!GkiConstants, Gki!CreatePool
  <1>3. p \in Gki!PoolIds \ start
    <2>1. Gki!PoolIds \ start # {} BY <1>1 DEF Gki!CreatePool
    <2>2. Gki!PoolIds \in SUBSET Nat BY DEF Gki!PoolIds, Gki!GkiConstants
    <2> QED BY <2>1, <2>2, MinFacts
  <1>4. /\ freeq' = MadeIn(freeq, p, size, count)
        /\ pool_list' = InsertAt(pool_list, k, p)
        /\ start' = start \cup {p} /\ unlinked' = unlinked
    BY DEF Gki!CreatePool, Gki!InsertAt, InsertAt, Gki!ListPos, Gki!Min, Min,
           MadeIn, PlaceFor
  <1> HIDE DEF p
  <1>5. /\ PoolsOk(freeq', InsertAt(pool_list, k, p), start \cup {p}, unlinked)
        /\ \A q \in Gki!PoolIds : LaidOut(freeq[q], q) \subseteq LaidOut(freeq'[q], q)
    BY <1>1, <1>2, <1>3, <1>4, PoolsCreate
  <1> HIDE DEF k
  <1>6. GkiInv' BY <1>4, <1>5 DEF GkiInv
  <1>7. Live \subseteq Live' BY <1>5 DEF Live
  <1> QED BY <1>4, <1>6, <1>7, GkiMakes

LEMMA GkiDeletePool ==
    ASSUME GkiInv, NEW p \in Gki!PoolIds, Gki!DeletePool(p)
    PROVE  GkiInv' /\ Gki!Abstract!Next
  <1>1. /\ p \in start /\ freeq[p].cur_cnt = 0
        /\ freeq' = GivenUp(freeq, p)
        /\ start' = start \ {p} /\ unlinked' = unlinked
        /\ PoolsOk(freeq, pool_list, start, unlinked)
        /\ unlinked \in SUBSET Buffers
    BY DEF Gki!DeletePool, GkiInv, PoolsOk, GivenUp
  <1>2. pool_list' = RemoveAt(pool_list, PlaceOf(pool_list, p))
    BY DEF Gki!DeletePool, Gki!Removed, Gki!RemoveAt, RemoveAt, Gki!Min, Min, PlaceOf
  <1>3. /\ PoolsOk(freeq', RemoveAt(pool_list, PlaceOf(pool_list, p)), start \ {p}, unlinked)
        /\ \A r \in Gki!PoolIds : LaidOut(freeq'[r], r) \subseteq LaidOut(freeq[r], r)
        /\ \A r \in Gki!PoolIds : OutOf(r, unlinked) \subseteq LaidOut(freeq'[r], r)
    BY <1>1, PoolsDelete
  <1>4. GkiInv' BY <1>1, <1>2, <1>3 DEF GkiInv
  <1>5. Live' \subseteq Live BY <1>3 DEF Live
  <1>6. unlinked \subseteq Live'
    <2> SUFFICES ASSUME NEW b \in unlinked PROVE b \in Live'
      OBVIOUS
    <2>1. b[1] \in Gki!PoolIds /\ b \in OutOf(b[1], unlinked)
      BY <1>1 DEF Buffers, OutOf
    <2>2. b \in LaidOut(freeq'[b[1]], b[1]) BY <1>3, <2>1
    <2> QED BY <2>1, <2>2 DEF Live
  <1> QED BY <1>1, <1>4, <1>5, <1>6, GkiDrops

LEMMA GkiStep ==
    ASSUME Gki!GkiConstants, GkiInv, [Gki!Next]_Gki!vars
    PROVE  GkiInv' /\ [Gki!Abstract!Next]_Gki!Abstract!vars
  <1>1. ASSUME NEW size \in Sizes, Gki!GetBuf(size)
        PROVE  GkiInv' /\ Gki!Abstract!Next
    BY <1>1, GkiGetBuf
  <1>2. ASSUME NEW p \in Gki!PoolIds, Gki!GetPoolBuf(p)
        PROVE  GkiInv' /\ Gki!Abstract!Next
    <2>1. CASE Gki!HasFree(p) BY <1>2, <2>1, GkiTake DEF Gki!GetPoolBuf
    <2>2. CASE ~Gki!HasFree(p) BY <1>2, <2>2, GkiGetBuf DEF Gki!GetPoolBuf
    <2> QED BY <2>1, <2>2
  <1>3. ASSUME NEW p \in Gki!PoolIds, Gki!DeletePool(p)
        PROVE  GkiInv' /\ Gki!Abstract!Next
    BY <1>3, GkiDeletePool
  <1>4. ASSUME NEW p \in Gki!PoolIds, NEW r \in BOOLEAN, Gki!SetPoolPermission(p, r)
        PROVE  UNCHANGED <<freeq, pool_list, start, unlinked>>
    BY <1>4 DEF Gki!SetPoolPermission
  <1>5. ASSUME NEW b \in unlinked, Gki!FreeBuf(b)
        PROVE  GkiInv' /\ Gki!Abstract!Next
    BY <1>5, GkiFreeBuf
  <1>6. ASSUME NEW size \in Sizes, NEW count \in Counts, NEW r \in BOOLEAN,
               Gki!CreatePool(size, count, r)
        PROVE  GkiInv' /\ [Gki!Abstract!Next]_Gki!Abstract!vars
    BY <1>6, GkiCreatePool
  <1>7. ASSUME UNCHANGED <<freeq, pool_list, start, unlinked>>
        PROVE  GkiInv' /\ [Gki!Abstract!Next]_Gki!Abstract!vars
    <2>1. GkiInv' BY <1>7 DEF GkiInv
    <2>2. Live' = Live BY <1>7 DEF Live
    <2>3. [Gki!Abstract!Next]_Gki!Abstract!vars BY <1>7, <2>2, GkiMakes
    <2> QED BY <2>1, <2>3
  <1>8. CASE UNCHANGED Gki!vars BY <1>7, <1>8 DEF Gki!vars
  <1>9. CASE Gki!Next BY <1>1, <1>2, <1>3, <1>4, <1>5, <1>6, <1>7, <1>9 DEF Gki!Next
  <1> QED BY <1>8, <1>9

LEMMA GkiInit ==
    ASSUME Gki!GkiConstants, Gki!Init PROVE GkiInv /\ Gki!Abstract!Init
  <1>1. /\ NPools \in Nat /\ BufMax \in Nat /\ BufSize \in Nat
        /\ Gki!ActSize(BufSize) # 0
    BY DEF Gki!GkiConstants
  <1>2. /\ freeq = [p \in Gki!PoolIds |-> Gki!FreeQueue(p, BufSize, BufMax)]
        /\ pool_list = [i \in 1 .. NPools |-> i - 1]
        /\ start = Gki!PoolIds /\ unlinked = {}
    BY DEF Gki!Init
  <1>3. ASSUME NEW p \in Gki!PoolIds
        PROVE  PoolOk(freeq[p], p, unlinked) /\ freeq[p].size = Gki!Align(BufSize)
    <2>1. OutOf(p, unlinked) = {} BY <1>2 DEF OutOf
    <2>2. freeq[p] = Gki!FreeQueue(p, BufSize, BufMax) BY <1>2
    <2> QED BY <1>1, <2>1, <2>2, FreeQueueOk
  <1>4. Gki!Align(BufSize) \in Nat BY <1>1, Alignment
  <1>5. ListOk(pool_list, start, freeq)
    <2>1. \A i \in 1 .. NPools : i - 1 \in Gki!PoolIds BY <1>1 DEF Gki!PoolIds
    <2>2. pool_list \in [1 .. NPools -> start] BY <1>2, <2>1
    <2>3. pool_list \in Seq(start) /\ Len(pool_list) = NPools BY <1>1, <2>2
    <2>4. \A i \in 1 .. NPools : pool_list[i] = i - 1 BY <1>2
    <2>5. ASSUME NEW x \in start PROVE \E i \in 1 .. NPools : pool_list[i] = x
      <3>1. x + 1 \in 1 .. NPools /\ (x + 1) - 1 = x
        BY <1>1, <1>2 DEF Gki!PoolIds
      <3>2. pool_list[x + 1] = x BY <2>4, <3>1
      <3> QED BY <3>1, <3>2
    <2>6. \A i, j \in 1 .. NPools : pool_list[i] = pool_list[j] => i = j
      BY <1>1, <2>4
    <2>7. \A i, j \in 1 .. NPools :
             freeq[pool_list[i]].size <= freeq[pool_list[j]].size
      BY <1>2, <1>3, <1>4, <2>1, <2>4
    <2> QED BY <2>3, <2>5, <2>6, <2>7 DEF ListOk
  <1>6. GkiInv
    BY <1>2, <1>3, <1>5, FS_EmptySet DEF GkiInv, PoolsOk
  <1>7. Live \in SUBSET (Gki!PoolIds \X Nat)
    <2>1. ASSUME NEW p \in Gki!PoolIds PROVE LaidOut(freeq[p], p) \in SUBSET (Gki!PoolIds \X Nat)
      <3>1. freeq[p].size \in Nat /\ freeq[p].total \in Nat
        BY <1>3 DEF PoolOk, PoolRecord
      <3>2. Gki!ActSize(freeq[p].size) \in Nat BY <3>1, Alignment
      <3> QED BY <3>1, <3>2 DEF LaidOut
    <2> QED BY <2>1 DEF Live
  <1>8. Gki!Abstract!Init BY <1>2, <1>7, GkiLive DEF Gki!Abstract!Init
  <1> QED BY <1>6, <1>8

LEMMA GkiCardinality == \A S : Gki!Cardinality(S) = Cardinality(S)
  BY DEF Gki!Cardinality, Cardinality

LEMMA GkiAccounted == ASSUME GkiInv PROVE Gki!BufferPoolsAccounted
  <1>1. PoolsOk(freeq, pool_list, start, unlinked) BY DEF GkiInv
  <1>2. \A p : Gki!Out(p) = OutOf(p, unlinked) BY DEF Gki!Out, OutOf
  <1>3. \A t : Gki!ToSet(t) = ToSet(t) BY DEF Gki!ToSet, ToSet
  <1>4. /\ \A p \in Gki!PoolIds :
              /\ freeq[p].cur_cnt = Cardinality(OutOf(p, unlinked))
              /\ Len(freeq[p].list) + freeq[p].cur_cnt = freeq[p].total
              /\ Cardinality(ToSet(freeq[p].list) \cup OutOf(p, unlinked))
                    = freeq[p].total
        /\ ToSet(pool_list) = start /\ Len(pool_list) = Cardinality(start)
        /\ \A i, j \in DOMAIN pool_list :
              i < j => freeq[pool_list[i]].size <= freeq[pool_list[j]].size
    BY <1>1, PoolsAccounted
  <1>5. Gki!CountsMatch BY <1>2, <1>3, <1>4, GkiCardinality DEF Gki!CountsMatch
  <1>6. Gki!BestFitList BY <1>3, <1>4, GkiCardinality DEF Gki!BestFitList
  <1> QED BY <1>5, <1>6 DEF Gki!BufferPoolsAccounted

\* After any calls, cur_cnt of a pool is the number of its buffers that are
\* out, the others are on its free list, each once, and the list that
\* GKI_getbuf searches names every pool with memory once, by size: the first
\* fit is the best one (gki_buffer.c).
THEOREM GkiPoolsAccounted ==
    ASSUME Gki!GkiConstants PROVE Gki!Spec => []Gki!BufferPoolsAccounted
  <1>1. Gki!Init => GkiInv BY GkiInit
  <1>2. GkiInv /\ [Gki!Next]_Gki!vars => GkiInv' BY GkiStep
  <1>3. GkiInv => Gki!BufferPoolsAccounted BY GkiAccounted
  <1> QED BY <1>1, <1>2, <1>3, PTL DEF Gki!Spec

\* GKI implements Pools: it hands out a buffer only while nobody has it, and
\* GKI_delete_pool frees no memory of a buffer that is out (gki_buffer.c).
THEOREM GkiImplementsPools ==
    ASSUME Gki!GkiConstants PROVE Gki!Spec => Gki!BufferPoolsImplementPools
  <1>1. Gki!Init => GkiInv /\ Gki!Abstract!Init BY GkiInit
  <1>2. GkiInv /\ [Gki!Next]_Gki!vars => GkiInv' BY GkiStep
  <1>3. GkiInv /\ [Gki!Next]_Gki!vars => [Gki!Abstract!Next]_Gki!Abstract!vars
    BY GkiStep
  <1> QED BY <1>1, <1>2, <1>3, PTL
      DEF Gki!Spec, Gki!BufferPoolsImplementPools, Gki!Abstract!Spec

----------------------------------------------------------------------------
(***************************************************************************)
(* AKI.  Its pools are those of GKI; a package that is out is with the     *)
(* application or on a queue.                                              *)
(***************************************************************************)

LEMMA AkiSame ==
    /\ Aki!PoolIds = Gki!PoolIds
    /\ Aki!NoQueue = Gki!NoQueue
    /\ \A n : Aki!Align(n) = Gki!Align(n) /\ Aki!ActSize(n) = Gki!ActSize(n)
    /\ \A p, n, m : Aki!FreeQueue(p, n, m) = Gki!FreeQueue(p, n, m)
  BY DEF Aki!PoolIds, Gki!PoolIds, Aki!NoQueue, Gki!NoQueue, Aki!Align,
         Gki!Align, Aki!Padding, Gki!Padding, Aki!ActSize, Gki!ActSize,
         Aki!FreeQueue, Gki!FreeQueue

LEMMA AkiLive == UNION {Aki!Laid(p) : p \in Aki!PoolIds} = Live
  BY AkiSame DEF Aki!Laid, LaidOut, Live

LEMMA AkiLivePrime ==
    /\ UNION {Aki!Laid(p) : p \in Aki!PoolIds} = Live
    /\ UNION {Aki!Laid(p) : p \in Aki!PoolIds}' = Live'
    /\ unlinked \cup Aki!Queued = Held
    /\ (unlinked \cup Aki!Queued)' = Held'
  BY AkiSame DEF Aki!Laid, LaidOut, Live, Held

LEMMA AkiGets ==
    ASSUME NEW b, b \in Live \ Held, Held' = Held \cup {b}, Live' = Live
    PROVE  Aki!Abstract!Next
  BY AkiLivePrime DEF Aki!Abstract!Next, Aki!Abstract!Get

LEMMA AkiPuts ==
    ASSUME NEW b, b \in Live \cap Held, Held' = Held \ {b}, Live' = Live
    PROVE  Aki!Abstract!Next
  BY AkiLivePrime DEF Aki!Abstract!Next, Aki!Abstract!Put

LEMMA AkiMakes ==
    ASSUME Live \subseteq Live', Held' = Held
    PROVE  [Aki!Abstract!Next]_Aki!Abstract!vars
  <1>1. CASE Live' \ Live = {}
    BY <1>1, AkiLivePrime DEF Aki!Abstract!vars
  <1>2. CASE Live' \ Live # {}
    BY <1>2, AkiLivePrime DEF Aki!Abstract!Next, Aki!Abstract!Create
  <1> QED BY <1>1, <1>2

LEMMA AkiDrops ==
    ASSUME Live' \subseteq Live, Held \subseteq Live', Held' = Held
    PROVE  Aki!Abstract!Next
  BY AkiLivePrime DEF Aki!Abstract!Next, Aki!Abstract!Destroy

\* Sequences of distinct elements.
LEMMA AppendDistinct ==
    ASSUME NEW S, NEW s \in Seq(S), NEW b \in S, Distinct(s), b \notin ToSet(s)
    PROVE  /\ Append(s, b) \in Seq(S) /\ Distinct(Append(s, b))
           /\ ToSet(Append(s, b)) = ToSet(s) \cup {b}
  <1> DEFINE t == Append(s, b)
             n == Len(s)
  <1>1. /\ t \in Seq(S) /\ Len(t) = n + 1 /\ t[n + 1] = b
        /\ \A i \in 1 .. n : t[i] = s[i]
    BY AppendProperties
  <1>2. n \in Nat /\ DOMAIN s = 1 .. n /\ DOMAIN t = 1 .. n + 1
    BY <1>1, LenProperties
  <1> HIDE DEF t, n
  <1>3. ToSet(t) = ToSet(s) \cup {b}
    <2>1. \A i \in 1 .. n + 1 : i \in 1 .. n \/ i = n + 1 BY <1>2
    <2>2. \A i \in 1 .. n : i \in 1 .. n + 1 BY <1>2
    <2>3. n + 1 \in 1 .. n + 1 BY <1>2
    <2> QED BY <1>1, <1>2, <2>1, <2>2, <2>3 DEF ToSet
  <1>4. ASSUME NEW i \in 1 .. n + 1, NEW j \in 1 .. n + 1, t[i] = t[j]
        PROVE  i = j
    <2>1. CASE i \in 1 .. n /\ j \in 1 .. n
      BY <1>1, <1>4, <2>1 DEF Distinct, n
    <2>2. CASE i \in 1 .. n /\ j = n + 1 BY <1>1, <1>2, <1>4, <2>2 DEF ToSet
    <2>3. CASE i = n + 1 /\ j \in 1 .. n BY <1>1, <1>2, <1>4, <2>3 DEF ToSet
    <2>4. CASE i = n + 1 /\ j = n + 1 BY <2>4
    <2> QED BY <1>2, <2>1, <2>2, <2>3, <2>4
  <1>5. Distinct(t) BY <1>1, <1>4 DEF Distinct
  <1> QED BY <1>1, <1>3, <1>5 DEF t

LEMMA ConsDistinct ==
    ASSUME NEW S, NEW s \in Seq(S), NEW b \in S, Distinct(s), b \notin ToSet(s)
    PROVE  /\ <<b>> \o s \in Seq(S) /\ Distinct(<<b>> \o s)
           /\ ToSet(<<b>> \o s) = ToSet(s) \cup {b}
  <1> DEFINE t == <<b>> \o s
             n == Len(s)
  <1>1. <<b>> \in Seq(S) /\ Len(<<b>>) = 1 /\ <<b>>[1] = b OBVIOUS
  <1>2. n \in Nat /\ DOMAIN s = 1 .. n BY LenProperties
  <1>3. /\ t \in Seq(S) /\ Len(t) = n + 1 /\ t[1] = b
        /\ \A i \in 1 .. n : t[i + 1] = s[i]
    <2>1. /\ t \in Seq(S) /\ Len(t) = 1 + n
          /\ \A i \in 1 .. 1 + n : t[i] = IF i <= 1 THEN <<b>>[i] ELSE s[i - 1]
      BY <1>1, <1>2, ConcatProperties
    <2> HIDE DEF t
    <2>2. ASSUME NEW i \in 1 .. n PROVE t[i + 1] = s[i]
      <3>1. i + 1 \in 1 .. 1 + n /\ ~(i + 1 <= 1) /\ (i + 1) - 1 = i BY <1>2
      <3> QED BY <2>1, <3>1
    <2>3. t[1] = b BY <1>1, <1>2, <2>1
    <2> QED BY <1>2, <2>1, <2>2, <2>3
  <1>4. DOMAIN t = 1 .. n + 1 BY <1>3, LenProperties
  <1> HIDE DEF t, n
  <1>5. \A i \in 1 .. n + 1 : i = 1 \/ (i - 1 \in 1 .. n /\ t[i] = s[i - 1])
    <2> SUFFICES ASSUME NEW i \in 1 .. n + 1, i # 1
                 PROVE  i - 1 \in 1 .. n /\ t[i] = s[i - 1]
      OBVIOUS
    <2>1. i - 1 \in 1 .. n /\ (i - 1) + 1 = i BY <1>2
    <2>2. t[(i - 1) + 1] = s[i - 1] BY <1>3, <2>1
    <2> QED BY <2>1, <2>2
  <1>6. ToSet(t) = ToSet(s) \cup {b}
    <2>1. \A i \in 1 .. n : i + 1 \in 1 .. n + 1 BY <1>2
    <2>2. 1 \in 1 .. n + 1 BY <1>2
    <2>3. \A i \in 1 .. n + 1 : t[i] \in ToSet(s) \cup {b}
      BY <1>2, <1>3, <1>5 DEF ToSet
    <2>4. ToSet(t) \subseteq ToSet(s) \cup {b} BY <1>4, <2>3 DEF ToSet
    <2>5. \A i \in 1 .. n : s[i] \in ToSet(t) BY <1>3, <1>4, <2>1 DEF ToSet
    <2>6. ToSet(s) \subseteq ToSet(t) BY <1>2, <2>5 DEF ToSet
    <2>7. b \in ToSet(t) BY <1>3, <1>4, <2>2 DEF ToSet
    <2> QED BY <2>4, <2>6, <2>7
  <1>7. ASSUME NEW i \in 1 .. n + 1, NEW j \in 1 .. n + 1, t[i] = t[j]
        PROVE  i = j
    <2>1. CASE i # 1 /\ j # 1
      <3>1. i - 1 \in 1 .. n /\ j - 1 \in 1 .. n /\ s[i - 1] = s[j - 1]
        BY <1>5, <1>7, <2>1
      <3>2. i - 1 = j - 1 BY <3>1 DEF Distinct, n
      <3> QED BY <1>2, <3>2
    <2>2. CASE i = 1 /\ j # 1
      <3>1. j - 1 \in 1 .. n /\ b = s[j - 1] BY <1>3, <1>5, <1>7, <2>2
      <3> QED BY <1>2, <3>1 DEF ToSet
    <2>3. CASE i # 1 /\ j = 1
      <3>1. i - 1 \in 1 .. n /\ b = s[i - 1] BY <1>3, <1>5, <1>7, <2>3
      <3> QED BY <1>2, <3>1 DEF ToSet
    <2> QED BY <2>1, <2>2, <2>3
  <1>8. Distinct(t) BY <1>3, <1>7 DEF Distinct
  <1> QED BY <1>3, <1>6, <1>8 DEF t

LEMMA RemoveDistinct ==
    ASSUME NEW S, NEW s \in Seq(S), NEW k \in 1 .. Len(s), Distinct(s)
    PROVE  /\ RemoveAt(s, k) \in Seq(S) /\ Distinct(RemoveAt(s, k))
           /\ ToSet(RemoveAt(s, k)) = ToSet(s) \ {s[k]}
           /\ s[k] \in ToSet(s)
  <1> DEFINE t == RemoveAt(s, k)
             n == Len(s)
             From(i) == IF i < k THEN i ELSE i + 1
  <1>1. n \in Nat /\ DOMAIN s = 1 .. n /\ k \in 1 .. n BY LenProperties
  <1>2. /\ t \in Seq(S) /\ Len(t) = n - 1
        /\ \A i \in 1 .. n - 1 : t[i] = IF i < k THEN s[i] ELSE s[i + 1]
    BY RemoveAtFacts
  <1>3. DOMAIN t = 1 .. n - 1 BY <1>2, LenProperties
  <1> HIDE DEF t, n
  <1>4. \A i \in 1 .. n - 1 : From(i) \in 1 .. n /\ From(i) # k /\ t[i] = s[From(i)]
    BY <1>1, <1>2
  <1>5. \A i, j \in 1 .. n - 1 : From(i) = From(j) => i = j
    BY <1>1
  <1>6. \A i \in 1 .. n : i # k => \E j \in 1 .. n - 1 : From(j) = i
    <2> SUFFICES ASSUME NEW i \in 1 .. n, i # k
                 PROVE  \E j \in 1 .. n - 1 : From(j) = i
      OBVIOUS
    <2>1. CASE i < k
      <3>1. i \in 1 .. n - 1 /\ From(i) = i BY <1>1, <2>1
      <3> QED BY <3>1
    <2>2. CASE i > k
      <3>1. i - 1 \in 1 .. n - 1 /\ From(i - 1) = i BY <1>1, <2>2
      <3> QED BY <3>1
    <2> QED BY <1>1, <2>1, <2>2
  <1> HIDE DEF From
  <1>7. \A i, j \in 1 .. n : s[i] = s[j] => i = j BY DEF Distinct, n
  <1>8. ToSet(t) = ToSet(s) \ {s[k]}
    <2>1. \A i \in 1 .. n - 1 : t[i] \in ToSet(s) /\ t[i] # s[k]
      BY <1>1, <1>4, <1>7 DEF ToSet
    <2>2. ToSet(t) \subseteq ToSet(s) \ {s[k]} BY <1>3, <2>1 DEF ToSet
    <2>3. \A i \in 1 .. n : s[i] # s[k] => s[i] \in ToSet(t)
      BY <1>1, <1>3, <1>4, <1>6 DEF ToSet
    <2>4. ToSet(s) \ {s[k]} \subseteq ToSet(t) BY <1>1, <2>3 DEF ToSet
    <2> QED BY <2>2, <2>4
  <1>9. ASSUME NEW i \in 1 .. n - 1, NEW j \in 1 .. n - 1, t[i] = t[j]
        PROVE  i = j
    <2>1. From(i) \in 1 .. n /\ From(j) \in 1 .. n /\ s[From(i)] = s[From(j)]
      BY <1>4, <1>9
    <2>2. From(i) = From(j) BY <1>7, <2>1
    <2> QED BY <1>5, <2>2
  <1>10. Distinct(t) BY <1>2, <1>9 DEF Distinct
  <1>11. s[k] \in ToSet(s) BY <1>1 DEF ToSet
  <1> QED BY <1>2, <1>8, <1>10, <1>11 DEF t

\* The queues with t for the packages of q, and all packages on queues.
WithQueue(Qu, q, t) == [Qu EXCEPT ![q] = t]
AllOf(Qu) == UNION {ToSet(Qu[q]) : q \in Queues}

LEMMA QueueGains ==
    ASSUME NEW Qu, QueuesOk(Qu), NEW q \in Queues, NEW b, b \notin AllOf(Qu),
           NEW t \in Seq(Buffers), Distinct(t), ToSet(t) = ToSet(Qu[q]) \cup {b}
    PROVE  /\ QueuesOk(WithQueue(Qu, q, t))
           /\ AllOf(WithQueue(Qu, q, t)) = AllOf(Qu) \cup {b}
  <1> DEFINE g == WithQueue(Qu, q, t)
  <1>1. /\ Qu \in [Queues -> Seq(Buffers)]
        /\ \A r \in Queues : Distinct(Qu[r])
        /\ \A r, u \in Queues : r # u => ToSet(Qu[r]) \cap ToSet(Qu[u]) = {}
    BY DEF QueuesOk
  <1>2. /\ g \in [Queues -> Seq(Buffers)] /\ g[q] = t
        /\ \A r \in Queues : r # q => g[r] = Qu[r]
    BY <1>1 DEF WithQueue
  <1> HIDE DEF g
  <1>3. \A r \in Queues : b \notin ToSet(Qu[r]) BY DEF AllOf
  <1>4. \A r \in Queues : Distinct(g[r]) BY <1>1, <1>2
  <1>5. ASSUME NEW r \in Queues, NEW u \in Queues, r # u
        PROVE  ToSet(g[r]) \cap ToSet(g[u]) = {}
    <2>1. CASE r = q
      <3>1. g[u] = Qu[u] /\ ToSet(Qu[q]) \cap ToSet(Qu[u]) = {}
        BY <1>1, <1>2, <1>5, <2>1
      <3> QED BY <1>2, <1>3, <2>1, <3>1
    <2>2. CASE u = q
      <3>1. g[r] = Qu[r] /\ ToSet(Qu[r]) \cap ToSet(Qu[q]) = {}
        BY <1>1, <1>2, <1>5, <2>2
      <3> QED BY <1>2, <1>3, <2>2, <3>1
    <2>3. CASE r # q /\ u # q BY <1>1, <1>2, <1>5, <2>3
    <2> QED BY <2>1, <2>2, <2>3
  <1>6. QueuesOk(g) BY <1>2, <1>4, <1>5 DEF QueuesOk
  <1>7. AllOf(g) = AllOf(Qu) \cup {b} BY <1>2 DEF AllOf
  <1> QED BY <1>6, <1>7 DEF g

LEMMA QueueLoses ==
    ASSUME NEW Qu, QueuesOk(Qu), NEW q \in Queues, NEW b \in ToSet(Qu[q]),
           NEW t \in Seq(Buffers), Distinct(t), ToSet(t) = ToSet(Qu[q]) \ {b}
    PROVE  /\ QueuesOk(WithQueue(Qu, q, t))
           /\ AllOf(WithQueue(Qu, q, t)) = AllOf(Qu) \ {b} /\ b \in AllOf(Qu)
  <1> DEFINE g == WithQueue(Qu, q, t)
  <1>1. /\ Qu \in [Queues -> Seq(Buffers)]
        /\ \A r \in Queues : Distinct(Qu[r])
        /\ \A r, u \in Queues : r # u => ToSet(Qu[r]) \cap ToSet(Qu[u]) = {}
    BY DEF QueuesOk
  <1>2. /\ g \in [Queues -> Seq(Buffers)] /\ g[q] = t
        /\ \A r \in Queues : r # q => g[r] = Qu[r]
    BY <1>1 DEF WithQueue
  <1> HIDE DEF g
  <1>3. \A r \in Queues : r # q => b \notin ToSet(Qu[r]) BY <1>1
  <1>4. \A r \in Queues : Distinct(g[r]) BY <1>1, <1>2
  <1>5. \A r, u \in Queues : r # u => ToSet(g[r]) \cap ToSet(g[u]) = {}
    BY <1>1, <1>2
  <1>6. QueuesOk(g) BY <1>2, <1>4, <1>5 DEF QueuesOk
  <1>7. AllOf(g) = AllOf(Qu) \ {b} BY <1>2, <1>3 DEF AllOf
  <1>8. b \in AllOf(Qu) BY DEF AllOf
  <1> QED BY <1>6, <1>7, <1>8 DEF g

LEMMA QueuedIs == Aki!Queued = AllOf(queue) /\ Aki!Queued' = AllOf(queue')
  BY DEF Aki!Queued, Aki!ToSet, ToSet, AllOf

\* What stays when only the queues and unlinked change, and the packages that
\* are out do not.
LEMMA AkiMoves ==
    ASSUME AkiInv, UNCHANGED <<freeq, pool_list, memory>>, Held' = Held,
           QueuesOk(queue'), Aki!Queued' \cap unlinked' = {}
    PROVE  AkiInv' /\ [Aki!Abstract!Next]_Aki!Abstract!vars
  <1>1. AkiPools' = AkiPools BY DEF AkiPools
  <1>2. PoolsOk(freeq, pool_list, AkiPools, Held)' BY <1>1 DEF AkiInv
  <1>3. AkiInv' BY <1>2 DEF AkiInv
  <1>4. Live' = Live BY DEF Live
  <1> QED BY <1>3, <1>4, AkiMakes

LEMMA AkiTake ==
    ASSUME AkiInv, NEW p \in Aki!PoolIds, Aki!HasFree(p), Aki!Take(p)
    PROVE  AkiInv' /\ Aki!Abstract!Next
  <1> DEFINE h == Head(freeq[p].list)
  <1>1. /\ freeq' = TakenFrom(freeq, p) /\ unlinked' = unlinked \cup {h}
        /\ pool_list' = pool_list /\ memory' = memory /\ queue' = queue
        /\ freeq[p].cur_cnt < freeq[p].total
        /\ PoolsOk(freeq, pool_list, AkiPools, Held)
        /\ p \in Gki!PoolIds
    BY AkiSame DEF Aki!Take, Aki!HasFree, AkiInv, TakenFrom
  <1>2. /\ PoolsOk(freeq', pool_list, AkiPools, Held \cup {h})
        /\ h \in LaidOut(freeq[p], p) \ Held
        /\ \A r \in Gki!PoolIds : LaidOut(freeq'[r], r) = LaidOut(freeq[r], r)
    BY <1>1, PoolsTake
  <1>3. Aki!Queued' = Aki!Queued BY <1>1 DEF Aki!Queued
  <1>4. Held' = Held \cup {h} BY <1>1, <1>3 DEF Held
  <1>5. AkiPools' = AkiPools BY <1>1 DEF AkiPools
  <1>6. PoolsOk(freeq, pool_list, AkiPools, Held)' BY <1>1, <1>2, <1>4, <1>5
  <1>7. (Aki!Queued \cap unlinked)' = {} BY <1>1, <1>2, <1>3 DEF Held, AkiInv
  <1>8. AkiInv' BY <1>1, <1>6, <1>7 DEF AkiInv
  <1>9. Live' = Live BY <1>2 DEF Live
  <1>10. h \in Live \ Held BY <1>1, <1>2 DEF Live
  <1> HIDE DEF h
  <1> QED BY <1>4, <1>8, <1>9, <1>10, AkiGets

LEMMA AkiGetPackage ==
    ASSUME AkiInv, NEW size, Aki!GetPackage(size)
    PROVE  AkiInv' /\ Aki!Abstract!Next
  <1> DEFINE F == Aki!Fits(size)
             i == Min(F)
  <1>1. ListOk(pool_list, AkiPools, freeq) BY DEF AkiInv, PoolsOk
  <1>2. pool_list \in Seq(AkiPools) BY <1>1 DEF ListOk
  <1>3. DOMAIN pool_list = 1 .. Len(pool_list) BY <1>2, LenProperties
  <1>4. F # {} /\ F \in SUBSET Nat BY <1>3 DEF Aki!GetPackage, Aki!Fits
  <1>5. i \in F BY <1>4, MinFacts
  <1>6. i \in 1 .. Len(pool_list) /\ Aki!HasFree(pool_list[i])
    BY <1>3, <1>5 DEF Aki!Fits
  <1>7. pool_list[i] \in AkiPools BY <1>2, <1>6, ElementOfSeq
  <1>8. pool_list[i] \in Aki!PoolIds BY <1>7 DEF AkiPools
  <1>9. Aki!Take(pool_list[i]) BY DEF Aki!GetPackage, Aki!Min, Min
  <1> QED BY <1>6, <1>8, <1>9, AkiTake

LEMMA AkiPutPackage ==
    ASSUME AkiInv, NEW b, Aki!PutPackage(b)
    PROVE  AkiInv' /\ Aki!Abstract!Next
  <1>1. /\ freeq' = GivenBack(freeq, b) /\ unlinked' = unlinked \ {b}
        /\ pool_list' = pool_list /\ memory' = memory /\ queue' = queue
        /\ PoolsOk(freeq, pool_list, AkiPools, Held)
        /\ b \in unlinked /\ b \in Held
    BY DEF Aki!PutPackage, AkiInv, GivenBack, Held
  <1>2. /\ PoolsOk(freeq', pool_list, AkiPools, Held \ {b})
        /\ \A r \in Gki!PoolIds : LaidOut(freeq'[r], r) = LaidOut(freeq[r], r)
        /\ b \in LaidOut(freeq[b[1]], b[1]) /\ b[1] \in Gki!PoolIds
    BY <1>1, PoolsPut
  <1>3. Aki!Queued' = Aki!Queued /\ b \notin Aki!Queued
    BY <1>1 DEF Aki!Queued, AkiInv
  <1>4. Held' = Held \ {b} BY <1>1, <1>3 DEF Held
  <1>5. AkiPools' = AkiPools BY <1>1 DEF AkiPools
  <1>6. PoolsOk(freeq, pool_list, AkiPools, Held)' BY <1>1, <1>2, <1>4, <1>5
  <1>7. (Aki!Queued \cap unlinked)' = {} BY <1>1, <1>3 DEF AkiInv
  <1>8. AkiInv' BY <1>1, <1>6, <1>7 DEF AkiInv
  <1>9. Live' = Live BY <1>2 DEF Live
  <1>10. b \in Live \cap Held BY <1>1, <1>2 DEF Live
  <1> QED BY <1>4, <1>8, <1>9, <1>10, AkiPuts

LEMMA AkiCreatePool ==
    ASSUME Aki!AkiConstants, AkiInv, NEW size \in Sizes, NEW bytes \in Memories,
           Aki!CreatePool(bytes, size)
    PROVE  AkiInv' /\ [Aki!Abstract!Next]_Aki!Abstract!vars
  <1> DEFINE free == {r \in Aki!PoolIds : memory[r] = 0}
             p == Min(free)
             total == bytes \div (size + Aki!Padding)
             k == PlaceFor(freeq, pool_list, Gki!Align(size))
  <1>1. /\ PoolsOk(freeq, pool_list, AkiPools, Held)
        /\ memory \in [Aki!PoolIds -> Nat] /\ QueuesOk(queue)
        /\ Aki!Queued \cap unlinked = {}
    BY DEF AkiInv
  <1>2. size \in Nat /\ bytes \in Nat /\ Gki!ActSize(size) # 0
    BY AkiSame DEF Aki!AkiConstants, Aki!CreatePool
  <1>3. total \in Nat /\ total > 0 /\ bytes # 0
    <2>1. size + Aki!Padding \in Nat \ {0} BY <1>2 DEF Aki!Padding
    <2>2. total > 0 BY DEF Aki!CreatePool
    <2> QED BY <1>2, <2>1, <2>2
  <1>4. p \in free
    <2>1. free # {} BY DEF Aki!CreatePool
    <2>2. Aki!PoolIds \in SUBSET Nat BY DEF Aki!PoolIds, Aki!AkiConstants
    <2> QED BY <2>1, <2>2, MinFacts
  <1>5. /\ freeq' = MadeIn(freeq, p, size, total)
        /\ pool_list' = InsertAt(pool_list, k, p)
        /\ memory' = [memory EXCEPT ![p] = bytes]
        /\ unlinked' = unlinked /\ queue' = queue
    <2>1. Aki!Min({r \in Aki!PoolIds : memory[r] = 0}) = p BY DEF Aki!Min, Min
    <2> HIDE DEF p, free
    <2>2. /\ freeq' = [freeq EXCEPT ![p] = Aki!FreeQueue(p, size, total)]
          /\ pool_list' = Aki!InsertAt(pool_list, Aki!ListPos(Aki!Align(size)), p)
          /\ memory' = [memory EXCEPT ![p] = bytes]
          /\ unlinked' = unlinked /\ queue' = queue
      BY <2>1 DEF Aki!CreatePool
    <2>3. \A n : Aki!ListPos(n) = PlaceFor(freeq, pool_list, n)
      BY DEF Aki!ListPos, PlaceFor, Aki!Min, Min
    <2>4. \A t, i, e : Aki!InsertAt(t, i, e) = InsertAt(t, i, e)
      BY DEF Aki!InsertAt, InsertAt
    <2> QED BY <2>2, <2>3, <2>4, AkiSame DEF MadeIn
  <1>6. p \in Aki!PoolIds /\ memory[p] = 0 BY <1>4
  <1> HIDE DEF p, free, total
  <1>7. p \in Gki!PoolIds \ AkiPools BY <1>6, AkiSame DEF AkiPools
  <1>8. /\ PoolsOk(freeq', InsertAt(pool_list, k, p), AkiPools \cup {p}, Held)
        /\ \A r \in Gki!PoolIds : LaidOut(freeq[r], r) \subseteq LaidOut(freeq'[r], r)
    BY <1>1, <1>2, <1>3, <1>5, <1>7, PoolsCreate
  <1> HIDE DEF k
  <1>9. AkiPools' = AkiPools \cup {p} /\ memory' \in [Aki!PoolIds -> Nat]
    BY <1>1, <1>2, <1>3, <1>5, <1>6 DEF AkiPools
  <1>10. Aki!Queued' = Aki!Queued BY <1>5 DEF Aki!Queued
  <1>11. Held' = Held BY <1>5, <1>10 DEF Held
  <1>12. PoolsOk(freeq, pool_list, AkiPools, Held)' BY <1>5, <1>8, <1>9, <1>11
  <1>13. AkiInv' BY <1>1, <1>5, <1>9, <1>10, <1>12 DEF AkiInv
  <1>14. Live \subseteq Live' BY <1>8 DEF Live
  <1> QED BY <1>11, <1>13, <1>14, AkiMakes

LEMMA AkiDestroyPool ==
    ASSUME AkiInv, NEW p \in Aki!PoolIds, Aki!DestroyPool(p)
    PROVE  AkiInv' /\ Aki!Abstract!Next
  <1>1. /\ PoolsOk(freeq, pool_list, AkiPools, Held)
        /\ memory \in [Aki!PoolIds -> Nat] /\ QueuesOk(queue)
        /\ Aki!Queued \cap unlinked = {}
    BY DEF AkiInv
  <1>2. /\ p \in AkiPools /\ freeq[p].cur_cnt = 0
        /\ freeq' = GivenUp(freeq, p)
        /\ memory' = [memory EXCEPT ![p] = 0]
        /\ unlinked' = unlinked /\ queue' = queue
    BY AkiSame DEF Aki!DestroyPool, AkiPools, GivenUp
  <1>3. pool_list' = RemoveAt(pool_list, PlaceOf(pool_list, p))
    BY DEF Aki!DestroyPool, Aki!Removed, Aki!RemoveAt, RemoveAt, Aki!Min, Min, PlaceOf
  <1>4. /\ PoolsOk(freeq', RemoveAt(pool_list, PlaceOf(pool_list, p)), AkiPools \ {p}, Held)
        /\ \A r \in Gki!PoolIds : LaidOut(freeq'[r], r) \subseteq LaidOut(freeq[r], r)
        /\ \A r \in Gki!PoolIds : OutOf(r, Held) \subseteq LaidOut(freeq'[r], r)
    BY <1>1, <1>2, PoolsDelete
  <1>5. AkiPools' = AkiPools \ {p} /\ memory' \in [Aki!PoolIds -> Nat]
    BY <1>1, <1>2 DEF AkiPools
  <1>6. Aki!Queued' = Aki!Queued BY <1>2 DEF Aki!Queued
  <1>7. Held' = Held BY <1>2, <1>6 DEF Held
  <1>8. PoolsOk(freeq, pool_list, AkiPools, Held)' BY <1>3, <1>4, <1>5, <1>7
  <1>9. AkiInv' BY <1>1, <1>2, <1>5, <1>6, <1>8 DEF AkiInv
  <1>10. Live' \subseteq Live BY <1>4 DEF Live
  <1>11. Held \in SUBSET Buffers BY <1>1 DEF PoolsOk
  <1>12. Held \subseteq Live'
    <2> SUFFICES ASSUME NEW b \in Held PROVE b \in Live'
      OBVIOUS
    <2>1. b[1] \in Gki!PoolIds /\ b \in OutOf(b[1], Held)
      BY <1>11 DEF Buffers, OutOf
    <2>2. b \in LaidOut(freeq'[b[1]], b[1]) BY <1>4, <2>1
    <2> QED BY <2>1, <2>2 DEF Live
  <1> QED BY <1>7, <1>9, <1>10, <1>12, AkiDrops

LEMMA AkiEnqueued ==
    ASSUME AkiInv, NEW q \in Queues, NEW b \in unlinked, NEW t \in Seq(Buffers),
           Distinct(t), ToSet(t) = ToSet(queue[q]) \cup {b}, Aki!Enqueued(q, b, t)
    PROVE  AkiInv' /\ [Aki!Abstract!Next]_Aki!Abstract!vars
  <1>1. /\ queue' = WithQueue(queue, q, t) /\ unlinked' = unlinked \ {b}
        /\ UNCHANGED <<freeq, pool_list, memory>>
    BY DEF Aki!Enqueued, WithQueue
  <1>2. QueuesOk(queue) /\ b \notin AllOf(queue) /\ Aki!Queued = AllOf(queue)
    BY QueuedIs DEF AkiInv
  <1>3. QueuesOk(queue') /\ AllOf(queue') = AllOf(queue) \cup {b}
    BY <1>1, <1>2, QueueGains
  <1>4. Aki!Queued' = Aki!Queued \cup {b} BY <1>2, <1>3, QueuedIs
  <1>5. Held' = Held BY <1>1, <1>4 DEF Held
  <1>6. Aki!Queued' \cap unlinked' = {} BY <1>1, <1>4 DEF AkiInv
  <1> QED BY <1>1, <1>3, <1>5, <1>6, AkiMoves

LEMMA AkiQueueAdd ==
    ASSUME AkiInv, NEW q \in Queues, NEW b,
           Aki!QueueAddTail(q, b) \/ Aki!QueueAddHead(q, b)
    PROVE  AkiInv' /\ [Aki!Abstract!Next]_Aki!Abstract!vars
  <1>1. b \in unlinked
    BY DEF Aki!QueueAddTail, Aki!QueueAddHead, Aki!Enqueued
  <1>2. b \in Buffers /\ QueuesOk(queue)
    BY <1>1 DEF AkiInv, PoolsOk, Held
  <1>3. queue[q] \in Seq(Buffers) /\ Distinct(queue[q]) BY <1>2 DEF QueuesOk
  <1>4. b \notin ToSet(queue[q]) BY <1>1, QueuedIs DEF AkiInv, AllOf
  <1>5. CASE Aki!QueueAddTail(q, b)
    <2>1. /\ Append(queue[q], b) \in Seq(Buffers) /\ Distinct(Append(queue[q], b))
          /\ ToSet(Append(queue[q], b)) = ToSet(queue[q]) \cup {b}
      BY <1>2, <1>3, <1>4, AppendDistinct
    <2>2. Aki!Enqueued(q, b, Append(queue[q], b)) BY <1>5 DEF Aki!QueueAddTail
    <2> QED BY <1>1, <2>1, <2>2, AkiEnqueued
  <1>6. CASE Aki!QueueAddHead(q, b)
    <2>1. /\ <<b>> \o queue[q] \in Seq(Buffers) /\ Distinct(<<b>> \o queue[q])
          /\ ToSet(<<b>> \o queue[q]) = ToSet(queue[q]) \cup {b}
      BY <1>2, <1>3, <1>4, ConsDistinct
    <2>2. Aki!Enqueued(q, b, <<b>> \o queue[q]) BY <1>6 DEF Aki!QueueAddHead
    <2> QED BY <1>1, <2>1, <2>2, AkiEnqueued
  <1> QED BY <1>5, <1>6

LEMMA AkiDequeued ==
    ASSUME AkiInv, NEW q \in Queues, NEW i \in DOMAIN queue[q], Aki!Dequeued(q, i)
    PROVE  AkiInv' /\ [Aki!Abstract!Next]_Aki!Abstract!vars
  <1> DEFINE t == RemoveAt(queue[q], i)
             b == queue[q][i]
  <1>1. QueuesOk(queue) /\ Aki!Queued = AllOf(queue) BY QueuedIs DEF AkiInv
  <1>2. queue \in [Queues -> Seq(Buffers)] /\ Distinct(queue[q]) BY <1>1 DEF QueuesOk
  <1>3. queue[q] \in Seq(Buffers) /\ i \in 1 .. Len(queue[q])
    BY <1>2, LenProperties
  <1>4. /\ t \in Seq(Buffers) /\ Distinct(t) /\ ToSet(t) = ToSet(queue[q]) \ {b}
        /\ b \in ToSet(queue[q])
    BY <1>2, <1>3, RemoveDistinct
  <1>5. /\ queue' = WithQueue(queue, q, t) /\ unlinked' = unlinked \cup {b}
        /\ UNCHANGED <<freeq, pool_list, memory>>
    BY DEF Aki!Dequeued, WithQueue, Aki!RemoveAt, RemoveAt
  <1> HIDE DEF t, b
  <1>6. /\ QueuesOk(queue') /\ AllOf(queue') = AllOf(queue) \ {b}
        /\ b \in AllOf(queue)
    BY <1>1, <1>4, <1>5, QueueLoses
  <1>7. Aki!Queued' = Aki!Queued \ {b} /\ b \in Aki!Queued BY <1>1, <1>6, QueuedIs
  <1>8. Held' = Held BY <1>5, <1>7 DEF Held
  <1>9. Aki!Queued' \cap unlinked' = {} BY <1>5, <1>7 DEF AkiInv
  <1> QED BY <1>5, <1>6, <1>8, <1>9, AkiMoves

LEMMA AkiStep ==
    ASSUME Aki!AkiConstants, AkiInv, [Aki!Next]_Aki!vars
    PROVE  AkiInv' /\ [Aki!Abstract!Next]_Aki!Abstract!vars
  <1> DEFINE Goal == AkiInv' /\ [Aki!Abstract!Next]_Aki!Abstract!vars
  <1>1. ASSUME NEW size \in Sizes, Aki!GetPackage(size) PROVE Goal
    BY <1>1, AkiGetPackage
  <1>2. ASSUME NEW size \in Sizes, NEW n \in Memories, Aki!CreatePool(n, size)
        PROVE  Goal
    BY <1>2, AkiCreatePool
  <1>3. ASSUME NEW p \in Aki!PoolIds, Aki!PoolGetPackage(p) PROVE Goal
    <2>1. CASE Aki!HasFree(p) BY <1>3, <2>1, AkiTake DEF Aki!PoolGetPackage
    <2>2. CASE ~Aki!HasFree(p) BY <1>3, <2>2, AkiGetPackage DEF Aki!PoolGetPackage
    <2> QED BY <2>1, <2>2
  <1>4. ASSUME NEW p \in Aki!PoolIds, Aki!DestroyPool(p) PROVE Goal
    BY <1>4, AkiDestroyPool
  <1>5. ASSUME UNCHANGED <<freeq, pool_list, memory, unlinked, queue>> PROVE Goal
    <2>1. Aki!Queued' = Aki!Queued BY <1>5 DEF Aki!Queued
    <2>2. Held' = Held BY <1>5, <2>1 DEF Held
    <2>3. QueuesOk(queue') /\ Aki!Queued' \cap unlinked' = {}
      BY <1>5, <2>1 DEF AkiInv
    <2> QED BY <1>5, <2>2, <2>3, AkiMoves
  <1>6. ASSUME NEW p \in Aki!PoolIds, NEW r \in BOOLEAN, Aki!SetPermission(p, r)
        PROVE  Goal
    BY <1>5, <1>6 DEF Aki!SetPermission
  <1>7. ASSUME NEW b, Aki!PutPackage(b) PROVE Goal
    BY <1>7, AkiPutPackage
  <1>8. ASSUME NEW b, NEW q \in Queues,
               Aki!QueueAddTail(q, b) \/ Aki!QueueAddHead(q, b)
        PROVE  Goal
    BY <1>8, AkiQueueAdd
  <1>9. ASSUME NEW b, NEW q \in Queues, Aki!QueueRemove(q, b) PROVE Goal
    BY <1>9, AkiDequeued DEF Aki!QueueRemove
  <1>10. ASSUME NEW q \in Queues, Aki!QueueDelHead(q) PROVE Goal
    <2>1. queue[q] \in Seq(Buffers) BY DEF AkiInv, QueuesOk
    <2>2. queue[q] # <<>> /\ Aki!Dequeued(q, 1) BY <1>10 DEF Aki!QueueDelHead
    <2>3. DOMAIN queue[q] = 1 .. Len(queue[q]) /\ Len(queue[q]) \in Nat
          /\ Len(queue[q]) # 0
      BY <2>1, <2>2, LenProperties, EmptySeq
    <2>4. 1 \in DOMAIN queue[q] BY <2>3
    <2> QED BY <2>2, <2>4, AkiDequeued
  <1> HIDE DEF Goal
  <1>11. ASSUME UNCHANGED Aki!vars PROVE Goal BY <1>5, <1>11 DEF Aki!vars
  <1>12. ASSUME Aki!Next PROVE Goal
    BY <1>1, <1>2, <1>3, <1>4, <1>6, <1>7, <1>8, <1>9, <1>10, <1>12 DEF Aki!Next
  <1> QED BY <1>11, <1>12 DEF Goal

LEMMA AkiInit ==
    ASSUME Aki!AkiConstants, Aki!Init PROVE AkiInv /\ Aki!Abstract!Init
  <1>1. /\ freeq = [p \in Gki!PoolIds |-> Gki!NoQueue] /\ pool_list = <<>>
        /\ memory = [p \in Aki!PoolIds |-> 0] /\ unlinked = {}
        /\ queue = [q \in Queues |-> <<>>]
    BY AkiSame DEF Aki!Init
  <1>2. AkiPools = {} BY <1>1 DEF AkiPools
  <1>3. ToSet(<<>>) = {} BY DEF ToSet
  <1>4. Aki!Queued = {} BY <1>1, <1>3, QueuedIs DEF AllOf
  <1>5. Held = {} BY <1>1, <1>4 DEF Held
  <1>6. QueuesOk(queue)
    <2>1. <<>> \in Seq(Buffers) /\ Distinct(<<>>) BY DEF Distinct
    <2> QED BY <1>1, <1>3, <2>1 DEF QueuesOk
  <1>7. \A p \in Gki!PoolIds : PoolOk(freeq[p], p, Held) /\ freeq[p].total = 0
    <2> SUFFICES ASSUME NEW p \in Gki!PoolIds
                 PROVE  PoolOk(freeq[p], p, Held) /\ freeq[p].total = 0
      OBVIOUS
    <2>1. OutOf(p, Held) = {} BY <1>5 DEF OutOf
    <2>2. freeq[p] = Gki!NoQueue BY <1>1
    <2>3. Gki!NoQueue.total = 0 BY DEF Gki!NoQueue
    <2> QED BY <2>1, <2>2, <2>3, NoPool
  <1>8. ListOk(pool_list, AkiPools, freeq) BY <1>1, <1>2 DEF ListOk
  <1>9. PoolsOk(freeq, pool_list, AkiPools, Held)
    BY <1>1, <1>2, <1>5, <1>7, <1>8, FS_EmptySet DEF PoolsOk
  <1>10. AkiInv BY <1>1, <1>4, <1>6, <1>9 DEF AkiInv
  <1>11. Live = {}
    <2>1. \A p \in Gki!PoolIds : LaidOut(freeq[p], p) = {} BY <1>7 DEF LaidOut
    <2> QED BY <2>1 DEF Live
  <1>12. Aki!Abstract!Init
    BY <1>1, <1>4, <1>11, AkiLive DEF Aki!Abstract!Init
  <1> QED BY <1>10, <1>12

LEMMA AkiCardinality == \A S : Aki!Cardinality(S) = Cardinality(S)
  BY DEF Aki!Cardinality, Cardinality

LEMMA AkiAccounted == ASSUME AkiInv PROVE Aki!BufferPoolsAccounted
  <1>1. /\ PoolsOk(freeq, pool_list, AkiPools, Held) /\ QueuesOk(queue)
        /\ Aki!Queued \cap unlinked = {}
    BY DEF AkiInv
  <1>2. \A p : Aki!Out(p) = OutOf(p, Held) BY DEF Aki!Out, OutOf, Held
  <1>3. \A t : Aki!ToSet(t) = ToSet(t) BY DEF Aki!ToSet, ToSet
  <1>4. /\ \A p \in Gki!PoolIds :
              /\ freeq[p].cur_cnt = Cardinality(OutOf(p, Held))
              /\ Len(freeq[p].list) + freeq[p].cur_cnt = freeq[p].total
              /\ Cardinality(ToSet(freeq[p].list) \cup OutOf(p, Held))
                    = freeq[p].total
        /\ ToSet(pool_list) = AkiPools /\ IsInjective(pool_list)
        /\ \A i, j \in DOMAIN pool_list :
              i < j => freeq[pool_list[i]].size <= freeq[pool_list[j]].size
    BY SMTT(30), <1>1, PoolsAccounted
  <1>5. ASSUME NEW q \in Queues, NEW r \in Queues,
               NEW i \in DOMAIN queue[q], NEW j \in DOMAIN queue[r],
               queue[q][i] = queue[r][j]
        PROVE  q = r /\ i = j
    <2>1. queue[q] \in Seq(Buffers) /\ Distinct(queue[q]) BY <1>1 DEF QueuesOk
    <2>2. DOMAIN queue[q] = 1 .. Len(queue[q]) BY <2>1, LenProperties
    <2>3. queue[q][i] \in ToSet(queue[q]) /\ queue[r][j] \in ToSet(queue[r])
      BY DEF ToSet
    <2>4. q = r BY <1>1, <1>5, <2>3 DEF QueuesOk
    <2>5. i = j BY <1>5, <2>1, <2>2, <2>4 DEF Distinct
    <2> QED BY <2>4, <2>5
  <1>6. Aki!OnePlace
    BY <1>1, <1>2, <1>3, <1>4, <1>5, AkiSame, AkiCardinality DEF Aki!OnePlace
  <1>7. Aki!BestFitList
    BY <1>3, <1>4 DEF Aki!BestFitList, AkiPools, Aki!IsInjective, IsInjective
  <1> QED BY <1>6, <1>7 DEF Aki!BufferPoolsAccounted

\* After any calls, every package of AKI is in one place, on the free list of
\* its pool, with the application or on one queue, m_u16PackCurCnt counts those
\* that are out, and the list that AKI_GetPackage searches names every pool
\* once, by size (aki_buffer.c).
THEOREM AkiPoolsAccounted ==
    ASSUME Aki!AkiConstants PROVE Aki!Spec => []Aki!BufferPoolsAccounted
  <1>1. Aki!Init => AkiInv BY AkiInit
  <1>2. AkiInv /\ [Aki!Next]_Aki!vars => AkiInv' BY AkiStep
  <1>3. AkiInv => Aki!BufferPoolsAccounted BY AkiAccounted
  <1> QED BY <1>1, <1>2, <1>3, PTL DEF Aki!Spec

\* AKI implements Pools: no package is handed out twice, and
\* AKI_BufferDestroyPool gives up no memory of a package that is with the
\* application or on a queue (aki_buffer.c).
THEOREM AkiImplementsPools ==
    ASSUME Aki!AkiConstants PROVE Aki!Spec => Aki!BufferPoolsImplementPools
  <1>1. Aki!Init => AkiInv /\ Aki!Abstract!Init BY AkiInit
  <1>2. AkiInv /\ [Aki!Next]_Aki!vars => AkiInv' BY AkiStep
  <1>3. AkiInv /\ [Aki!Next]_Aki!vars => [Aki!Abstract!Next]_Aki!Abstract!vars
    BY AkiStep
  <1> QED BY <1>1, <1>2, <1>3, PTL
      DEF Aki!Spec, Aki!BufferPoolsImplementPools, Aki!Abstract!Spec

----------------------------------------------------------------------------
(***************************************************************************)
(* The fifo.  The blocks are two runs without holes: the first k, from the *)
(* reader upwards, and behind them those that were cut from the start of   *)
(* the memory after the writer wrapped.  When the second run is empty the  *)
(* writer is at the end of the first or, wrapped or given back its last    *)
(* block, at 0.  An empty fifo need not have its pointers at 0.            *)
(***************************************************************************)
End(b) == b.at + b.len
Ats(B) == [i \in 1 .. Len(B) |-> B[i].at]
Ends(B) == [i \in 1 .. Len(B) |-> End(B[i])]

Run(a, e, lo, hi) ==
    \A i, j \in lo .. hi : i < j => e[i] <= a[j] /\ (j = i + 1 => e[i] = a[j])

Shape(a, e, m, r, w, k) ==
    /\ Run(a, e, 1, k) /\ Run(a, e, k + 1, m)
    /\ \A i \in 1 .. k : r <= a[i] /\ e[i] <= Size
    /\ \A i \in k + 1 .. m : e[i] <= w
    /\ k > 0 => a[1] = r
    /\ k < m => a[k + 1] = 0 /\ e[m] = w /\ w <= r
    /\ k = m => w = 0 \/ w = IF k = 0 THEN r ELSE e[k]

FifoInv ==
    /\ Fifo!TypeOK /\ ~refused /\ fifo.w < Size
    /\ fifo.full <=> (fifo.w = fifo.r /\ blocks # <<>>)
    /\ \E k \in 0 .. Len(blocks) :
          Shape(Ats(blocks), Ends(blocks), Len(blocks), fifo.r, fifo.w, k)

LEMMA FifoTypes ==
    ASSUME Fifo!FifoConstants, FifoInv
    PROVE  /\ Size \in Nat /\ Size > 0
           /\ fifo = [r |-> fifo.r, w |-> fifo.w, full |-> fifo.full]
           /\ fifo.r \in 0 .. Size - 1 /\ fifo.w \in 0 .. Size - 1 /\ fifo.full \in BOOLEAN
           /\ blocks \in Seq(Fifo!Blocks) /\ Len(blocks) \in Nat
           /\ \A i \in 1 .. Len(blocks) :
                 /\ blocks[i] \in Fifo!Blocks
                 /\ blocks[i].at \in 0 .. Size /\ blocks[i].len \in Nat /\ blocks[i].len >= 1
                 /\ End(blocks[i]) \in Nat /\ End(blocks[i]) > blocks[i].at
  <1>1. blocks \in Seq(Fifo!Blocks) /\ \A s \in Lengths : s \in Nat
    BY DEF FifoInv, Fifo!TypeOK, Fifo!FifoConstants
  <1>2. \A i \in 1 .. Len(blocks) : blocks[i] \in Fifo!Blocks
    BY <1>1
  <1>3. \A b \in Fifo!Blocks : /\ b.at \in 0 .. Size /\ b.len \in Nat /\ b.len >= 1
                               /\ End(b) \in Nat /\ End(b) > b.at
    BY <1>1 DEF Fifo!Blocks, Fifo!SZ, End, Fifo!FifoConstants
  <1>4. /\ fifo = [r |-> fifo.r, w |-> fifo.w, full |-> fifo.full]
        /\ fifo.r \in 0 .. Size - 1 /\ fifo.w \in 0 .. Size - 1 /\ fifo.full \in BOOLEAN
    BY DEF FifoInv, Fifo!TypeOK, Fifo!FifoConstants
  <1> QED BY <1>1, <1>2, <1>3, <1>4 DEF Fifo!FifoConstants

LEMMA FifoInit == ASSUME Fifo!FifoConstants, Fifo!Init PROVE FifoInv
  <1>1. fifo = [r |-> 0, w |-> 0, full |-> FALSE] /\ blocks = <<>> /\ refused = FALSE
    BY DEF Fifo!Init, Fifo!FIFO_Init
  <1>2. Fifo!TypeOK
    <2>1. 0 \in 0 .. Size - 1 /\ 0 \in 0 .. Size BY DEF Fifo!FifoConstants
    <2>2. fifo \in [r : 0 .. Size - 1, w : 0 .. Size, full : BOOLEAN] BY <1>1, <2>1
    <2>3. blocks \in Seq(Fifo!Blocks) BY <1>1
    <2>4. refused \in BOOLEAN BY <1>1
    <2> QED BY <2>2, <2>3, <2>4 DEF Fifo!TypeOK
  <1>3. Len(blocks) = 0 BY <1>1
  <1>4. Shape(Ats(blocks), Ends(blocks), Len(blocks), fifo.r, fifo.w, 0)
    BY <1>1, <1>3 DEF Shape, Run
  <1> QED BY <1>1, <1>2, <1>3, <1>4 DEF FifoInv, Fifo!FifoConstants

\* What the lemmas on shapes assume of the places and the ends of the blocks.
BlockEnds(a, e, m) ==
    /\ m \in Nat
    /\ \A i \in 1 .. m : a[i] \in Nat /\ e[i] \in Nat /\ a[i] < e[i]

\* A block cut behind the last one, before the reader, or at the start of the
\* memory, as FIFO_Alloc does it.
LEMMA ShapeBehind ==
    ASSUME NEW a, NEW e, NEW b, NEW f, NEW m, NEW n,
           BlockEnds(a, e, m), BlockEnds(b, f, n), Size \in Nat,
           NEW r \in 0 .. Size - 1, NEW w \in 0 .. Size - 1, NEW k \in 0 .. m,
           Shape(a, e, m, r, w, k), m > 0 => w # r, w >= r,
           n = m + 1, \A i \in 1 .. m : b[i] = a[i] /\ f[i] = e[i], b[n] = w, f[n] <= Size
    PROVE  Shape(b, f, n, r, IF f[n] = Size THEN 0 ELSE f[n], n)
  <1>1. k = m BY DEF Shape, BlockEnds
  <1>2. w = IF k = 0 THEN r ELSE e[k] BY <1>1 DEF Shape, BlockEnds
  <1>3. \A i \in 1 .. m : r <= a[i] /\ e[i] <= w
    BY <1>1, <1>2 DEF Shape, Run, BlockEnds
  <1>4. Run(b, f, 1, n) BY <1>1, <1>2, <1>3 DEF Shape, Run, BlockEnds
  <1>5. Run(b, f, n + 1, n) BY DEF Run, BlockEnds
  <1>6. \A i \in 1 .. n : r <= b[i] /\ f[i] <= Size
    BY <1>3 DEF BlockEnds
  <1>7. b[1] = r BY <1>1, <1>2 DEF Shape, BlockEnds
  <1> QED BY <1>4, <1>5, <1>6, <1>7 DEF Shape, BlockEnds

LEMMA ShapeBefore ==
    ASSUME NEW a, NEW e, NEW b, NEW f, NEW m, NEW n,
           BlockEnds(a, e, m), BlockEnds(b, f, n), Size \in Nat,
           NEW r \in 0 .. Size - 1, NEW w \in 0 .. Size - 1, NEW k \in 0 .. m,
           Shape(a, e, m, r, w, k), w < r,
           n = m + 1, \A i \in 1 .. m : b[i] = a[i] /\ f[i] = e[i], b[n] = w, f[n] <= r
    PROVE  Shape(b, f, n, r, f[n], k)
  <1>1. k = m => w = 0 BY DEF Shape, BlockEnds
  <1>2. Run(b, f, 1, k) BY DEF Shape, Run, BlockEnds
  <1>3. Run(b, f, k + 1, n) BY <1>1 DEF Shape, Run, BlockEnds
  <1>4. /\ \A i \in 1 .. k : r <= b[i] /\ f[i] <= Size
        /\ \A i \in k + 1 .. n : f[i] <= f[n]
    BY DEF Shape, BlockEnds
  <1>5. (k > 0 => b[1] = r) /\ b[k + 1] = 0 BY <1>1 DEF Shape, BlockEnds
  <1> QED BY <1>2, <1>3, <1>4, <1>5 DEF Shape, BlockEnds

LEMMA ShapeWrapped ==
    ASSUME NEW a, NEW e, NEW b, NEW f, NEW m, NEW n,
           BlockEnds(a, e, m), BlockEnds(b, f, n), Size \in Nat,
           NEW r \in 0 .. Size - 1, NEW w \in 0 .. Size - 1, NEW k \in 0 .. m,
           Shape(a, e, m, r, w, k), w > r,
           n = m + 1, \A i \in 1 .. m : b[i] = a[i] /\ f[i] = e[i], b[n] = 0, f[n] <= r
    PROVE  Shape(b, f, n, r, f[n], m)
  <1>1. k = m BY DEF Shape, BlockEnds
  <1>2. Run(b, f, 1, m) BY <1>1 DEF Shape, Run, BlockEnds
  <1>3. Run(b, f, m + 1, n) BY DEF Run, BlockEnds
  <1>4. \A i \in 1 .. m : r <= b[i] /\ f[i] <= Size BY <1>1 DEF Shape, BlockEnds
  <1>5. m > 0 => b[1] = r BY <1>1 DEF Shape, BlockEnds
  <1> QED BY <1>2, <1>3, <1>4, <1>5 DEF Shape, BlockEnds

LEMMA ShapeCut ==
    ASSUME NEW a, NEW e, NEW b, NEW f, NEW m, NEW n,
           BlockEnds(a, e, m), BlockEnds(b, f, n), Size \in Nat,
           NEW r \in 0 .. Size - 1, NEW w \in 0 .. Size - 1, NEW k \in 0 .. m,
           Shape(a, e, m, r, w, k), m > 0 => w # r, NEW l \in Nat, l >= 1, NEW p, NEW v,
           n = m + 1, \A i \in 1 .. m : b[i] = a[i] /\ f[i] = e[i], b[n] = p, f[n] = p + l,
           \/ w >= r /\ Size - w >= l /\ p = w
           \/ ~(w >= r /\ Size - w >= l) /\ w < r /\ r - w >= l /\ p = w
           \/ ~(w >= r /\ Size - w >= l) /\ w > r /\ r >= l /\ p = 0,
           v = IF w >= r /\ Size - w >= l /\ p + l = Size THEN 0 ELSE p + l
    PROVE  \E j \in 0 .. n : Shape(b, f, n, r, v, j)
  <1>0. m \in Nat /\ n \in Nat BY DEF BlockEnds
  <1>1. CASE w >= r /\ Size - w >= l /\ p = w
    <2>1. v = (IF f[n] = Size THEN 0 ELSE f[n]) /\ f[n] <= Size BY <1>1
    <2>2. Shape(b, f, n, r, IF f[n] = Size THEN 0 ELSE f[n], n)
      BY <1>1, <2>1, ShapeBehind
    <2> QED BY <1>0, <2>1, <2>2
  <1>2. CASE ~(w >= r /\ Size - w >= l) /\ w < r /\ r - w >= l /\ p = w
    <2>1. v = f[n] /\ f[n] <= r BY <1>2
    <2>2. Shape(b, f, n, r, f[n], k) BY <1>2, <2>1, ShapeBefore
    <2> QED BY <1>0, <2>1, <2>2
  <1>3. CASE ~(w >= r /\ Size - w >= l) /\ w > r /\ r >= l /\ p = 0
    <2>1. v = f[n] /\ f[n] <= r BY <1>3
    <2>2. Shape(b, f, n, r, f[n], m) BY <1>3, <2>1, ShapeWrapped
    <2> QED BY <1>0, <2>1, <2>2
  <1> QED BY <1>1, <1>2, <1>3

\* FIFO_Unalloc gives the newest block back.
LEMMA ShapeUndone ==
    ASSUME NEW a, NEW e, NEW b, NEW f, NEW m, NEW n,
           BlockEnds(a, e, m), BlockEnds(b, f, n), Size \in Nat,
           NEW r \in 0 .. Size - 1, NEW w \in 0 .. Size - 1, NEW k \in 0 .. m,
           Shape(a, e, m, r, w, k), m > 0, e[m] = IF w = 0 THEN Size ELSE w,
           n = m - 1, \A i \in 1 .. n : b[i] = a[i] /\ f[i] = e[i]
    PROVE  /\ a[m] < Size
           /\ \E j \in 0 .. n : Shape(b, f, n, r, a[m], j)
           /\ n > 0 => a[m] # r
  <1>1. CASE k = m
    <2>1. Run(b, f, 1, n) /\ Run(b, f, m, n) BY <1>1 DEF Shape, Run, BlockEnds
    <2>2. \A i \in 1 .. n : r <= b[i] /\ f[i] <= Size BY <1>1 DEF Shape, BlockEnds
    <2>3. a[m] = IF m = 1 THEN r ELSE f[n] BY <1>1 DEF Shape, Run, BlockEnds
    <2>4. n > 0 => b[1] = r BY <1>1 DEF Shape, BlockEnds
    <2>5. a[m] < Size BY <1>1 DEF BlockEnds
    <2>6. Shape(b, f, n, r, a[m], n) BY <2>1, <2>2, <2>3, <2>4 DEF Shape, BlockEnds
    <2>7. n > 0 => a[m] # r BY <2>2, <2>3 DEF BlockEnds
    <2> QED BY <2>5, <2>6, <2>7 DEF BlockEnds
  <1>2. CASE k < m
    <2>1. /\ e[m] = w /\ w <= r BY <1>2 DEF Shape, BlockEnds
    <2>2. Run(b, f, 1, k) /\ Run(b, f, k + 1, n) BY <1>2 DEF Shape, Run, BlockEnds
    <2>3. \A i \in 1 .. k : r <= b[i] /\ f[i] <= Size BY <1>2 DEF Shape, BlockEnds
    <2>4. \A i \in k + 1 .. n : f[i] <= a[m]
      BY <1>2 DEF Shape, Run, BlockEnds
    <2>5. a[m] = IF k = n THEN 0 ELSE f[n]
      BY <1>2 DEF Shape, Run, BlockEnds
    <2>6. (k > 0 => b[1] = r) /\ (k < n => b[k + 1] = 0)
      BY <1>2 DEF Shape, BlockEnds
    <2>7. a[m] < r BY <2>1 DEF BlockEnds
    <2>8. Shape(b, f, n, r, a[m], k)
      BY <1>2, <2>2, <2>3, <2>4, <2>5, <2>6, <2>7 DEF Shape, BlockEnds
    <2> QED BY <1>2, <2>7, <2>8 DEF BlockEnds
  <1> QED BY <1>1, <1>2 DEF BlockEnds

\* FIFO_Free accepts the oldest block; what it accepts is what it holds.
LEMMA ShapeFreed ==
    ASSUME NEW a, NEW e, NEW b, NEW f, NEW m, NEW n,
           BlockEnds(a, e, m), BlockEnds(b, f, n), Size \in Nat,
           NEW r \in 0 .. Size - 1, NEW w \in 0 .. Size - 1, NEW k \in 0 .. m,
           Shape(a, e, m, r, w, k), m > 0,
           n = m - 1, \A i \in 1 .. n : b[i] = a[i + 1] /\ f[i] = e[i + 1],
           NEW s \in Nat, s = IF e[1] = Size THEN 0 ELSE e[1]
    PROVE  /\ a[1] \in {r, 0} /\ e[1] <= (IF w > r THEN w ELSE Size) /\ s < Size
           /\ s = w => n = 0
           /\ s # w => \E j \in 0 .. n : Shape(b, f, n, s, w, j)
  <1>1. CASE k > 0 /\ e[1] < Size
    <2>1. a[1] = r /\ s = e[1] BY <1>1 DEF Shape, BlockEnds
    <2>2. w > r => k = m /\ w = e[k] BY <1>1 DEF Shape, BlockEnds
    <2>3. e[1] <= e[k] BY <1>1 DEF Shape, Run, BlockEnds
    <2>4. k > 1 => s = a[2] /\ s < e[k] BY <1>1, <2>1 DEF Shape, Run, BlockEnds
    <2>5. s = w => n = 0
      <3>0. s > r /\ s > 0 BY <2>1 DEF BlockEnds
      <3>1. CASE k < m
        <4>1. w <= r BY <3>1 DEF Shape
        <4> QED BY <3>0, <4>1
      <3>2. CASE k = m
        <4>1. w = 0 \/ w = e[k] BY <1>1, <3>2 DEF Shape
        <4> QED BY <1>1, <2>4, <3>0, <3>2, <4>1 DEF BlockEnds
      <3> QED BY <3>1, <3>2 DEF BlockEnds
    <2>6. ASSUME s # w PROVE Shape(b, f, n, s, w, k - 1)
      <3>1. Run(b, f, 1, k - 1) /\ Run(b, f, k, n) BY <1>1 DEF Shape, Run, BlockEnds
      <3>2. \A i \in 1 .. k - 1 : s <= b[i] /\ f[i] <= Size
        BY <1>1, <2>1 DEF Shape, Run, BlockEnds
      <3>3. \A i \in k .. n : f[i] <= w BY <1>1 DEF Shape, BlockEnds
      <3>4. k - 1 > 0 => b[1] = s BY <1>1, <2>4 DEF BlockEnds
      <3>5. k - 1 < n => b[k] = 0 /\ f[n] = w /\ w <= s
        BY <1>1, <2>1 DEF Shape, BlockEnds
      <3>6. k - 1 = n => w = 0 \/ w = IF k - 1 = 0 THEN s ELSE f[k - 1]
        BY <1>1, <2>6, <2>1 DEF Shape, BlockEnds
      <3> QED BY <1>1, <3>1, <3>2, <3>3, <3>4, <3>5, <3>6 DEF Shape, BlockEnds
    <2>7. k - 1 \in 0 .. n BY <1>1 DEF BlockEnds
    <2> QED BY <1>1, <2>1, <2>2, <2>3, <2>5, <2>6, <2>7 DEF BlockEnds
  <1>2. CASE k > 0 /\ e[1] = Size
    <2>1. a[1] = r /\ s = 0 BY <1>2 DEF Shape, BlockEnds
    <2>2. k = 1
      <3>1. k > 1 => e[1] <= a[2] /\ a[2] < e[2] /\ e[2] <= Size BY <1>2 DEF Shape, Run, BlockEnds
      <3> QED BY <1>2, <3>1 DEF BlockEnds
    <2>3. CASE m = 1
      <3>1. w = 0 BY <1>2, <2>2, <2>3 DEF Shape, BlockEnds
      <3> QED BY <1>2, <2>1, <2>3, <3>1 DEF BlockEnds
    <2>4. CASE m > 1
      <3>1. Run(b, f, 1, n) /\ Run(b, f, n + 1, n) BY <2>2 DEF Shape, Run, BlockEnds
      <3>2. \A i \in 1 .. n : 0 <= b[i] /\ f[i] <= w BY <2>2 DEF Shape, BlockEnds
      <3>3. b[1] = 0 /\ f[n] = w /\ w <= r /\ w > 0 BY <2>2, <2>4 DEF Shape, BlockEnds
      <3>4. Shape(b, f, n, s, w, n) BY <2>1, <2>4, <3>1, <3>2, <3>3 DEF Shape, BlockEnds
      <3> QED BY <1>2, <2>1, <3>3, <3>4 DEF BlockEnds
    <2> QED BY <2>3, <2>4 DEF BlockEnds
  <1>3. CASE k = 0
    <2>1. a[1] = 0 /\ e[m] = w /\ w <= r BY <1>3 DEF Shape, BlockEnds
    <2>2. e[1] <= w /\ s = e[1] BY <1>3, <2>1 DEF Shape, BlockEnds
    <2>3. m > 1 => e[1] = a[2] /\ e[1] < w BY <1>3, <2>1 DEF Shape, Run, BlockEnds
    <2>4. s = w => n = 0 BY <2>2, <2>3 DEF BlockEnds
    <2>5. ASSUME s # w PROVE Shape(b, f, n, s, w, n)
      <3>0. m > 1 BY <2>1, <2>2, <2>5 DEF BlockEnds
      <3>1. Run(b, f, 1, n) /\ Run(b, f, n + 1, n) BY <1>3 DEF Shape, Run, BlockEnds
      <3>2. \A i \in 1 .. n : s <= b[i] /\ f[i] <= w BY <1>3, <2>2 DEF Shape, Run, BlockEnds
      <3>3. b[1] = s /\ f[n] = w BY <2>1, <2>2, <2>3, <3>0 DEF BlockEnds
      <3> QED BY <2>1, <3>0, <3>1, <3>2, <3>3 DEF Shape, BlockEnds
    <2> QED BY <2>1, <2>2, <2>4, <2>5 DEF BlockEnds
  <1>4. k > 0 => e[1] <= Size BY DEF Shape, BlockEnds
  <1> QED BY <1>1, <1>2, <1>3, <1>4 DEF BlockEnds

LEMMA HeldBlocks ==
    ASSUME NEW B \in Seq(Fifo!Blocks), Fifo!FifoConstants
    PROVE  /\ BlockEnds(Ats(B), Ends(B), Len(B))
           /\ \A i \in 1 .. Len(B) : Ats(B)[i] = B[i].at /\ Ends(B)[i] = End(B[i])
  <1>1. \A s \in Lengths : s \in Nat BY DEF Fifo!FifoConstants
  <1>2. \A b \in Fifo!Blocks : b.at \in Nat /\ End(b) \in Nat /\ b.at < End(b)
    BY <1>1 DEF Fifo!Blocks, Fifo!SZ, End, Fifo!FifoConstants
  <1>3. \A i \in 1 .. Len(B) : B[i] \in Fifo!Blocks OBVIOUS
  <1>4. Len(B) \in Nat OBVIOUS
  <1> QED BY <1>2, <1>3, <1>4 DEF BlockEnds, Ats, Ends

LEMMA AllocStep ==
    ASSUME Fifo!FifoConstants, FifoInv, NEW s \in Lengths, Fifo!FIFO_Alloc(s)
    PROVE  FifoInv'
  <1> USE FifoTypes
  <1> PICK r \in 0 .. Size - 1, w \in 0 .. Size - 1 : r = fifo.r /\ w = fifo.w OBVIOUS
  <1> PICK n \in Nat : n = s + 1 /\ n >= 1 BY DEF Fifo!FifoConstants
  <1> PICK p : p = Fifo!Place(fifo, n) OBVIOUS
  <1>1. /\ p # -1 /\ fifo' = Fifo!Cut(fifo, p, n)
        /\ blocks' = Append(blocks, [at |-> p, len |-> n]) /\ refused' = refused
    BY DEF Fifo!FIFO_Alloc, Fifo!SZ
  <1>2. /\ fifo.full = FALSE
        /\ \/ w >= r /\ Size - w >= n /\ p = w
           \/ ~(w >= r /\ Size - w >= n) /\ w < r /\ r - w >= n /\ p = w
           \/ ~(w >= r /\ Size - w >= n) /\ w > r /\ r >= n /\ p = 0
    BY <1>1 DEF Fifo!Place
  <1>3. p \in 0 .. Size /\ p + n \in Nat /\ p + n <= Size BY <1>2
  <1>4. PICK v \in 0 .. Size - 1 :
          v = IF w >= r /\ Size - w >= n /\ p + n = Size THEN 0 ELSE p + n
    BY <1>2, <1>3
  <1>5. fifo' = [r |-> r, w |-> v, full |-> v = r]
    BY <1>1, <1>4 DEF Fifo!Cut
  <1>6. [at |-> p, len |-> n] \in Fifo!Blocks
    BY <1>3 DEF Fifo!Blocks, Fifo!SZ
  <1>7. /\ blocks' \in Seq(Fifo!Blocks) /\ Len(blocks') = Len(blocks) + 1 /\ blocks' # <<>>
        /\ \A i \in 1 .. Len(blocks) : blocks'[i] = blocks[i]
        /\ blocks'[Len(blocks')] = [at |-> p, len |-> n]
    BY <1>1, <1>6
  <1>8. /\ BlockEnds(Ats(blocks), Ends(blocks), Len(blocks))
        /\ BlockEnds(Ats(blocks'), Ends(blocks'), Len(blocks'))
        /\ \A i \in 1 .. Len(blocks) : /\ Ats(blocks')[i] = Ats(blocks)[i]
                                       /\ Ends(blocks')[i] = Ends(blocks)[i]
        /\ Ats(blocks')[Len(blocks')] = p /\ Ends(blocks')[Len(blocks')] = p + n
    <2>1. \A B \in {blocks, blocks'} : BlockEnds(Ats(B), Ends(B), Len(B))
      BY <1>7, HeldBlocks
    <2>2. \A B \in {blocks, blocks'}, i \in 1 .. Len(blocks') : i <= Len(B) =>
             Ats(B)[i] = B[i].at /\ Ends(B)[i] = End(B[i])
      BY <1>7 DEF Ats, Ends
    <2>3. /\ Len(blocks) \in Nat /\ Len(blocks') = Len(blocks) + 1
          /\ 1 .. Len(blocks) \subseteq 1 .. Len(blocks') /\ Len(blocks') \in 1 .. Len(blocks')
      BY <1>7
    <2>4. \A i \in 1 .. Len(blocks) : /\ Ats(blocks')[i] = Ats(blocks)[i]
                                      /\ Ends(blocks')[i] = Ends(blocks)[i]
      <3> SUFFICES ASSUME NEW i \in 1 .. Len(blocks)
                   PROVE  Ats(blocks')[i] = Ats(blocks)[i] /\ Ends(blocks')[i] = Ends(blocks)[i]
        OBVIOUS
      <3>1. blocks'[i] = blocks[i] /\ i \in 1 .. Len(blocks') /\ i <= Len(blocks) /\ i <= Len(blocks')
        BY <1>7, <2>3
      <3> QED BY <3>1, <2>2
    <2>5. Ats(blocks')[Len(blocks')] = p /\ Ends(blocks')[Len(blocks')] = p + n
      <3>1. /\ Ats(blocks')[Len(blocks')] = blocks'[Len(blocks')].at
            /\ Ends(blocks')[Len(blocks')] = End(blocks'[Len(blocks')])
        BY <2>2, <2>3
      <3> QED BY <1>7, <3>1 DEF End
    <2> QED BY <2>1, <2>4, <2>5
  <1> PICK m \in Nat : m = Len(blocks) OBVIOUS
  <1> PICK a, e, b, f :
        /\ a = Ats(blocks) /\ e = Ends(blocks)
        /\ b = Ats(blocks') /\ f = Ends(blocks')
    OBVIOUS
  <1>9. PICK k \in 0 .. m : Shape(a, e, m, r, w, k)
    BY DEF FifoInv
  <1>10. m > 0 => w # r BY <1>2 DEF FifoInv
  <1> PICK M \in Nat : M = m + 1 OBVIOUS
  <1>11. \E j \in 0 .. M : Shape(b, f, M, r, v, j)
    <2>0. BlockEnds(a, e, m) /\ BlockEnds(b, f, M) /\ b[M] = p /\ f[M] = p + n
      BY <1>7, <1>8
    <2>1. \A i \in 1 .. m : b[i] = a[i] /\ f[i] = e[i] BY <1>8
    <2> HIDE FifoTypes
    <2>2. Size \in Nat BY FifoTypes
    <2> QED BY ONLY ShapeCut, <1>2, <1>4, <1>9, <1>10, <2>0, <2>1, <2>2, r \in 0 .. Size - 1,
               w \in 0 .. Size - 1, n \in Nat, n >= 1, M = m + 1
  <1>12. fifo'.r = r /\ fifo'.w = v /\ fifo'.full = (v = r) BY <1>5
  <1>13. Fifo!TypeOK'
    <2>1. (v = r) \in BOOLEAN OBVIOUS
    <2>2. fifo' \in [r : 0 .. Size - 1, w : 0 .. Size, full : BOOLEAN] BY <1>5, <2>1
    <2>3. refused' \in BOOLEAN BY <1>1 DEF FifoInv, Fifo!TypeOK
    <2> QED BY <1>7, <2>2, <2>3 DEF Fifo!TypeOK
  <1>14. ~refused' BY <1>1 DEF FifoInv
  <1>15. \E j \in 0 .. Len(blocks') :
            Shape(Ats(blocks'), Ends(blocks'), Len(blocks'), fifo'.r, fifo'.w, j)
    BY <1>7, <1>11, <1>12
  <1>16. fifo'.w < Size BY <1>12
  <1>17. fifo'.full <=> (fifo'.w = fifo'.r /\ blocks' # <<>>) BY <1>7, <1>12
  <1> QED BY <1>13, <1>14, <1>15, <1>16, <1>17 DEF FifoInv

LEMMA UnallocStep == ASSUME Fifo!FifoConstants, FifoInv, Fifo!FIFO_Unalloc PROVE FifoInv'
  <1>t. /\ Size \in Nat /\ fifo = [r |-> fifo.r, w |-> fifo.w, full |-> fifo.full]
        /\ fifo.r \in 0 .. Size - 1 /\ fifo.w \in 0 .. Size - 1 /\ fifo.full \in BOOLEAN
        /\ blocks \in Seq(Fifo!Blocks) /\ Len(blocks) \in Nat
    BY FifoTypes
  <1>1. PICK x : x = blocks[Len(blocks)] OBVIOUS
  <1>2. /\ blocks # <<>> /\ fifo' = Fifo!Undone(fifo, x) /\ refused' = refused
        /\ blocks' = IF Fifo!Undone(fifo, x) = fifo THEN blocks
                     ELSE SubSeq(blocks, 1, Len(blocks) - 1)
    BY <1>1 DEF Fifo!FIFO_Unalloc
  <1>3. CASE fifo' = fifo
    <2>1. blocks' = blocks BY <1>2, <1>3
    <2> QED BY <1>2, <1>3, <2>1 DEF FifoInv, Fifo!TypeOK
  <1>4. CASE fifo' # fifo
    <2>1. /\ x.at + x.len = (IF fifo.w = 0 THEN Size ELSE fifo.w)
          /\ fifo' = [fifo EXCEPT !.w = x.at, !.full = FALSE]
      BY <1>2, <1>4 DEF Fifo!Undone
    <2>2. blocks' = SubSeq(blocks, 1, Len(blocks) - 1) BY <1>2, <1>4
    <2>3. Len(blocks) > 0 BY <1>2, <1>t
    <2>4. /\ blocks' \in Seq(Fifo!Blocks) /\ Len(blocks') = Len(blocks) - 1
          /\ \A i \in 1 .. Len(blocks') : blocks'[i] = blocks[i]
      <3>1. PICK n \in Nat : n = Len(blocks) - 1 BY <1>t, <2>3
      <3>2. 1 \in Int /\ \A i \in 1 .. n : blocks[i] \in Fifo!Blocks BY <1>t, <3>1
      <3>3. /\ SubSeq(blocks, 1, n) \in Seq(Fifo!Blocks)
            /\ Len(SubSeq(blocks, 1, n)) = IF 1 <= n THEN n - 1 + 1 ELSE 0
            /\ \A i \in 1 .. n - 1 + 1 : SubSeq(blocks, 1, n)[i] = blocks[1 + i - 1]
        BY <3>2, SubSeqProperties
      <3>4. Len(SubSeq(blocks, 1, n)) = n BY <3>3
      <3>5. \A i \in 1 .. n : i \in 1 .. n - 1 + 1 /\ 1 + i - 1 = i OBVIOUS
      <3> QED BY <2>2, <3>1, <3>3, <3>4, <3>5
    <2>5. fifo' = [r |-> fifo.r, w |-> x.at, full |-> FALSE] BY <1>t, <2>1
    <2>6. x \in Fifo!Blocks /\ x.at \in Nat
      <3>1. x \in Fifo!Blocks BY <1>1, <1>t, <2>3
      <3> QED BY <3>1 DEF Fifo!Blocks
    <2>7. /\ BlockEnds(Ats(blocks), Ends(blocks), Len(blocks))
          /\ BlockEnds(Ats(blocks'), Ends(blocks'), Len(blocks'))
          /\ \A i \in 1 .. Len(blocks') : /\ Ats(blocks')[i] = Ats(blocks)[i]
                                          /\ Ends(blocks')[i] = Ends(blocks)[i]
          /\ Ats(blocks)[Len(blocks)] = x.at /\ Ends(blocks)[Len(blocks)] = x.at + x.len
      <3>1. \A B \in {blocks, blocks'} : BlockEnds(Ats(B), Ends(B), Len(B))
        BY <1>t, <2>4, HeldBlocks
      <3>2. \A B \in {blocks, blocks'}, i \in 1 .. Len(blocks) : i <= Len(B) =>
               Ats(B)[i] = B[i].at /\ Ends(B)[i] = End(B[i])
        BY <1>t, <2>4 DEF Ats, Ends
      <3> QED BY <1>t, <1>1, <2>3, <2>4, <3>1, <3>2 DEF End
    <2>8. PICK k \in 0 .. Len(blocks) :
            Shape(Ats(blocks), Ends(blocks), Len(blocks), fifo.r, fifo.w, k)
      BY DEF FifoInv
    <2>9. /\ x.at < Size
          /\ \E j \in 0 .. Len(blocks') :
                Shape(Ats(blocks'), Ends(blocks'), Len(blocks'), fifo.r, x.at, j)
          /\ Len(blocks') > 0 => x.at # fifo.r
      <3>a. PICK a, e, b, f, m, n :
               /\ a = Ats(blocks) /\ e = Ends(blocks) /\ m = Len(blocks)
               /\ b = Ats(blocks') /\ f = Ends(blocks') /\ n = Len(blocks')
        OBVIOUS
      <3>1. BlockEnds(a, e, m) /\ BlockEnds(b, f, n) /\ Shape(a, e, m, fifo.r, fifo.w, k) /\ k \in 0 .. m
        BY <3>a, <2>7, <2>8
      <3>2. /\ m > 0 /\ n = m - 1 /\ e[m] = (IF fifo.w = 0 THEN Size ELSE fifo.w)
            /\ a[m] = x.at /\ \A i \in 1 .. n : b[i] = a[i] /\ f[i] = e[i]
        BY <3>a, <2>1, <2>3, <2>4, <2>7
      <3>3. /\ a[m] < Size /\ (n > 0 => a[m] # fifo.r)
            /\ \E j \in 0 .. n : Shape(b, f, n, fifo.r, a[m], j)
        BY <1>t, <3>1, <3>2, ShapeUndone
      <3> QED BY <3>a, <3>2, <3>3
    <2>10. fifo'.r = fifo.r /\ fifo'.w = x.at /\ fifo'.full = FALSE BY <2>5
    <2>11. Fifo!TypeOK'
      <3>1. x.at \in 0 .. Size BY <1>t, <2>6, <2>9
      <3>2. fifo' \in [r : 0 .. Size - 1, w : 0 .. Size, full : BOOLEAN]
        BY <1>t, <2>5, <3>1
      <3>3. refused' \in BOOLEAN BY <1>2 DEF FifoInv, Fifo!TypeOK
      <3> QED BY <2>4, <3>2, <3>3 DEF Fifo!TypeOK
    <2>12. ~refused' BY <1>2 DEF FifoInv
    <2>13. fifo'.w < Size BY <2>9, <2>10
    <2>14. \E j \in 0 .. Len(blocks') :
              Shape(Ats(blocks'), Ends(blocks'), Len(blocks'), fifo'.r, fifo'.w, j)
      BY <2>9, <2>10
    <2>15. blocks' # <<>> => Len(blocks') > 0 BY <2>4, <1>t
    <2>16. fifo'.full <=> (fifo'.w = fifo'.r /\ blocks' # <<>>) BY <2>9, <2>10, <2>15
    <2> QED BY <2>11, <2>12, <2>13, <2>14, <2>16 DEF FifoInv
  <1> QED BY <1>3, <1>4

LEMMA FreeStep == ASSUME Fifo!FifoConstants, FifoInv, Fifo!FIFO_Free PROVE FifoInv'
  <1>t. /\ Size \in Nat /\ fifo = [r |-> fifo.r, w |-> fifo.w, full |-> fifo.full]
        /\ fifo.r \in 0 .. Size - 1 /\ fifo.w \in 0 .. Size - 1 /\ fifo.full \in BOOLEAN
        /\ blocks \in Seq(Fifo!Blocks) /\ Len(blocks) \in Nat
    BY FifoTypes
  <1>1. PICK x : x = blocks[1] OBVIOUS
  <1>2. /\ blocks # <<>>
        /\ fifo' = IF Fifo!Accepted(fifo, x) THEN Fifo!Freed(fifo, x) ELSE fifo
        /\ blocks' = IF Fifo!Accepted(fifo, x) THEN Tail(blocks) ELSE blocks
        /\ refused' = (refused \/ ~Fifo!Accepted(fifo, x))
    BY <1>1 DEF Fifo!FIFO_Free
  <1>3. Len(blocks) > 0 BY <1>2, <1>t
  <1>4. x \in Fifo!Blocks /\ x.at \in Nat /\ x.at + x.len \in Nat
    <2>1. x \in Fifo!Blocks BY <1>1, <1>t, <1>3
    <2> QED BY <2>1 DEF Fifo!Blocks, Fifo!SZ, Fifo!FifoConstants
  <1>5. PICK c : c = Tail(blocks) OBVIOUS
  <1>6. /\ c \in Seq(Fifo!Blocks) /\ Len(c) = Len(blocks) - 1 /\ Len(c) \in Nat
        /\ \A i \in 1 .. Len(c) : c[i] = blocks[i + 1]
    BY <1>t, <1>3, <1>5
  <1>7. PICK s \in Nat : s = IF x.at + x.len = Size THEN 0 ELSE x.at + x.len
    BY <1>4
  <1>8. /\ BlockEnds(Ats(blocks), Ends(blocks), Len(blocks))
        /\ BlockEnds(Ats(c), Ends(c), Len(c))
        /\ \A i \in 1 .. Len(c) : /\ Ats(c)[i] = Ats(blocks)[i + 1]
                                  /\ Ends(c)[i] = Ends(blocks)[i + 1]
        /\ Ats(blocks)[1] = x.at /\ Ends(blocks)[1] = x.at + x.len
    <2>1. \A B \in {blocks, c} : BlockEnds(Ats(B), Ends(B), Len(B))
      BY <1>t, <1>6, HeldBlocks
    <2>2. \A B \in {blocks, c}, i \in 1 .. Len(blocks) : i <= Len(B) =>
             Ats(B)[i] = B[i].at /\ Ends(B)[i] = End(B[i])
      BY <1>t, <1>6 DEF Ats, Ends
    <2>3. ASSUME NEW i \in 1 .. Len(c)
          PROVE  Ats(c)[i] = Ats(blocks)[i + 1] /\ Ends(c)[i] = Ends(blocks)[i + 1]
      <3>1. i \in 1 .. Len(blocks) /\ i + 1 \in 1 .. Len(blocks) BY <1>t, <1>6
      <3> QED BY <1>6, <2>2, <3>1
    <2>4. Ats(blocks)[1] = x.at /\ Ends(blocks)[1] = End(x) BY <1>t, <1>1, <1>3, <2>2
    <2> QED BY <2>1, <2>3, <2>4 DEF End
  <1>9. PICK k \in 0 .. Len(blocks) :
          Shape(Ats(blocks), Ends(blocks), Len(blocks), fifo.r, fifo.w, k)
    BY DEF FifoInv
  <1>10. /\ x.at \in {fifo.r, 0}
         /\ x.at + x.len <= (IF fifo.w > fifo.r THEN fifo.w ELSE Size) /\ s < Size
         /\ s = fifo.w => Len(c) = 0
         /\ s # fifo.w => \E j \in 0 .. Len(c) : Shape(Ats(c), Ends(c), Len(c), s, fifo.w, j)
    BY SMTT(30), <1>t, <1>3, <1>6, <1>7, <1>8, <1>9, ShapeFreed
  <1>11. Fifo!Accepted(fifo, x) BY <1>10 DEF Fifo!Accepted
  <1>12. /\ blocks' = c /\ ~refused'
         /\ fifo' = IF s = fifo.w THEN [r |-> 0, w |-> 0, full |-> FALSE]
                    ELSE [r |-> s, w |-> fifo.w, full |-> FALSE]
    BY <1>2, <1>5, <1>7, <1>11 DEF Fifo!Freed, FifoInv
  <1>13. PICK u \in 0 .. Size - 1, v \in 0 .. Size - 1 :
           /\ fifo' = [r |-> u, w |-> v, full |-> FALSE]
           /\ Len(c) > 0 => u # v
           /\ \E j \in 0 .. Len(c) : Shape(Ats(c), Ends(c), Len(c), u, v, j)
    <2>1. CASE s = fifo.w
      <3>1. Shape(Ats(c), Ends(c), Len(c), 0, 0, 0)
        BY <1>10, <2>1 DEF Shape, Run
      <3>2. 0 \in 0 .. Len(c) /\ 0 \in 0 .. Size - 1 BY <1>t, <1>6
      <3>3. \E j \in 0 .. Len(c) : Shape(Ats(c), Ends(c), Len(c), 0, 0, j) BY <3>1, <3>2
      <3>4. fifo' = [r |-> 0, w |-> 0, full |-> FALSE] /\ ~(Len(c) > 0)
        BY <1>10, <1>12, <2>1
      <3> QED BY <3>2, <3>3, <3>4
    <2>2. CASE s # fifo.w
      <3>1. s \in 0 .. Size - 1 BY <1>t, <1>10
      <3> QED BY <1>t, <1>10, <1>12, <2>2, <3>1
    <2> QED BY <2>1, <2>2
  <1>14. fifo'.r = u /\ fifo'.w = v /\ fifo'.full = FALSE BY <1>13
  <1>15. Fifo!TypeOK'
    <2>1. fifo' \in [r : 0 .. Size - 1, w : 0 .. Size, full : BOOLEAN] BY <1>t, <1>13
    <2>2. refused' \in BOOLEAN BY <1>2
    <2> QED BY <1>6, <1>12, <2>1, <2>2 DEF Fifo!TypeOK
  <1>16. fifo'.w < Size BY <1>t, <1>14
  <1>17. \E j \in 0 .. Len(blocks') :
            Shape(Ats(blocks'), Ends(blocks'), Len(blocks'), fifo'.r, fifo'.w, j)
    BY <1>12, <1>13, <1>14
  <1>18. blocks' # <<>> => Len(c) > 0 BY <1>6, <1>12
  <1>19. fifo'.full <=> (fifo'.w = fifo'.r /\ blocks' # <<>>) BY <1>13, <1>14, <1>18
  <1> QED BY <1>12, <1>15, <1>16, <1>17, <1>19 DEF FifoInv

LEMMA FifoStep == ASSUME Fifo!FifoConstants, FifoInv, [Fifo!Next]_Fifo!vars PROVE FifoInv'
  <1>1. CASE UNCHANGED Fifo!vars BY <1>1 DEF Fifo!vars, FifoInv, Fifo!TypeOK
  <1>2. CASE Fifo!Next BY <1>2, AllocStep, UnallocStep, FreeStep DEF Fifo!Next
  <1> QED BY <1>1, <1>2

LEMMA FifoInvKeeps == ASSUME Fifo!FifoConstants, FifoInv PROVE Fifo!FifoBlocksKept
  <1>t. /\ Size \in Nat /\ fifo.r \in 0 .. Size - 1 /\ fifo.w \in 0 .. Size - 1
        /\ blocks \in Seq(Fifo!Blocks) /\ Len(blocks) \in Nat
    BY FifoTypes
  <1>1. PICK k \in 0 .. Len(blocks) :
          Shape(Ats(blocks), Ends(blocks), Len(blocks), fifo.r, fifo.w, k)
    BY DEF FifoInv
  <1>2. /\ BlockEnds(Ats(blocks), Ends(blocks), Len(blocks))
        /\ \A i \in 1 .. Len(blocks) : /\ Ats(blocks)[i] = blocks[i].at
                                       /\ Ends(blocks)[i] = End(blocks[i])
    BY <1>t, HeldBlocks
  <1>3. ASSUME NEW i \in 1 .. Len(blocks)
        PROVE  /\ blocks[i].at \in Nat /\ End(blocks[i]) \in Nat /\ End(blocks[i]) <= Size
               /\ \A j \in 1 .. i - 1 : \/ End(blocks[j]) <= blocks[i].at
                                        \/ End(blocks[i]) <= blocks[j].at
    <2>a. PICK a, e, m : /\ a = Ats(blocks) /\ e = Ends(blocks) /\ m = Len(blocks)
      OBVIOUS
    <2>1. /\ a[i] \in Nat /\ e[i] \in Nat /\ e[i] <= Size
          /\ \A j \in 1 .. i - 1 : e[j] <= a[i] \/ e[i] <= a[j]
      <3>1. CASE i <= k
        <4>1. \A j \in 1 .. i - 1 : e[j] <= a[i]
          BY <1>1, <3>1, <2>a DEF Shape, Run
        <4> QED BY <1>1, <1>2, <3>1, <4>1, <2>a DEF Shape, BlockEnds
      <3>2. CASE i > k
        <4>1. k < Len(blocks) /\ i \in k + 1 .. Len(blocks) BY <1>t, <3>2
        <4>2. e[i] <= fifo.w /\ fifo.w <= fifo.r BY <1>1, <4>1, <2>a DEF Shape
        <4>3. \A j \in 1 .. k : fifo.r <= a[j] BY <1>1, <2>a DEF Shape
        <4>4. \A j \in k + 1 .. i - 1 : e[j] <= a[i]
          BY <1>1, <1>t, <4>1, <2>a DEF Shape, Run
        <4>5. /\ a[i] \in Nat /\ e[i] \in Nat
              /\ \A j \in 1 .. i - 1 : a[j] \in Nat /\ e[j] \in Nat
          BY <1>2, <2>a DEF BlockEnds
        <4> QED BY <1>t, <4>2, <4>3, <4>4, <4>5
      <3> QED BY <1>t, <3>1, <3>2
    <2> QED BY <1>2, <2>a, <2>1
  <1>4. ASSUME NEW i \in 1 .. Len(blocks)
        PROVE  /\ Fifo!Units(blocks[i]) \subseteq 0 .. Size - 1
               /\ \A j \in 1 .. i - 1 : Fifo!Units(blocks[i]) \cap Fifo!Units(blocks[j]) = {}
    <2>1. ASSUME NEW j \in 1 .. i
          PROVE  Fifo!Units(blocks[j]) = blocks[j].at .. End(blocks[j]) - 1
      <3>1. blocks[j].at \in Int /\ blocks[j].len \in Int BY <1>t, FifoTypes
      <3> QED BY <3>1 DEF Fifo!Units, End
    <2>2. Fifo!Units(blocks[i]) \subseteq 0 .. Size - 1 BY SMTT(30), <1>t, <1>3, <2>1
    <2>3. ASSUME NEW j \in 1 .. i - 1
          PROVE  Fifo!Units(blocks[i]) \cap Fifo!Units(blocks[j]) = {}
      <3>1. /\ blocks[j].at \in Nat /\ End(blocks[j]) \in Nat
            /\ blocks[i].at \in Nat /\ End(blocks[i]) \in Nat
            /\ End(blocks[j]) <= blocks[i].at \/ End(blocks[i]) <= blocks[j].at
        BY <1>3
      <3>2. /\ Fifo!Units(blocks[i]) = blocks[i].at .. End(blocks[i]) - 1
            /\ Fifo!Units(blocks[j]) = blocks[j].at .. End(blocks[j]) - 1
        BY <2>1
      <3> QED BY <3>1, <3>2
    <2> QED BY <2>2, <2>3
  <1>5. Fifo!Place(fifo, Fifo!FIFO_GetMaxSize(fifo) + 1) = -1
    BY SMTT(30), <1>t DEF Fifo!Place, Fifo!FIFO_GetMaxSize
  <1> QED BY <1>4, <1>5 DEF Fifo!FifoBlocksKept, FifoInv

\* The blocks that FIFO_Alloc handed out lie in the memory and share no unit,
\* FIFO_Free accepts the oldest of them, and FIFO_GetMaxSize is never less than
\* what FIFO_Alloc could cut, for every memory and all sizes asked for
\* (fifobuf.c).
THEOREM FifoBlocksStay ==
    ASSUME Fifo!FifoConstants PROVE Fifo!Spec => []Fifo!FifoBlocksKept
  <1>1. Fifo!Init => FifoInv BY FifoInit
  <1>2. FifoInv /\ [Fifo!Next]_Fifo!vars => FifoInv' BY FifoStep
  <1>3. FifoInv => Fifo!FifoBlocksKept BY FifoInvKeeps
  <1> QED BY <1>1, <1>2, <1>3, PTL DEF Fifo!Spec

(***************************************************************************)
(* The ring.  The mirrors differ while the writer is one turn ahead, and   *)
(* what is in the ring are the newest bytes: a byte Back places behind the *)
(* writer was written so many bytes ago.                                   *)
(***************************************************************************)
Filled(r, rm, w, wm) ==
    IF r = w THEN IF rm = wm THEN 0 ELSE MaxSize
    ELSE IF r > w THEN MaxSize - (r - w) ELSE w - r

Mirrors(r, rm, w, wm) == (r < w => rm = wm) /\ (r > w => rm # wm)

Back(w, i) == IF i < w THEN w - 1 - i ELSE w - 1 - i + MaxSize

Indexes == 0 .. MaxSize - 1

RingType ==
    /\ ring \in [buf : [Indexes -> Int], r : Indexes, rm : {0, 1}, w : Indexes, wm : {0, 1}]
    /\ written \in Nat /\ taken \in Seq(Int) /\ lost \in Nat

\* D bytes are in the ring, the newest of x.
Content(buf, w, x, D) == \A i \in Indexes : Back(w, i) < D => buf[i] = x - Back(w, i)

\* The bytes read are older than those, and in order.
Order(t, y) ==
    /\ \A j \in 1 .. Len(t) : t[j] <= y
    /\ \A i, j \in 1 .. Len(t) : i < j => t[i] < t[j]

RingInv ==
    /\ RingType
    /\ Mirrors(ring.r, ring.rm, ring.w, ring.wm)
    /\ \E D \in 0 .. MaxSize :
         /\ D = Filled(ring.r, ring.rm, ring.w, ring.wm) /\ D <= written
         /\ Content(ring.buf, ring.w, written, D)
         /\ Order(taken, written - D)
         /\ Len(taken) + D + lost = written

LEMMA ModWrap ==
    ASSUME Ring!RingConstants, NEW x \in Nat, x < 2 * MaxSize
    PROVE  x % MaxSize = IF x < MaxSize THEN x ELSE x - MaxSize
  <1> PICK S \in Nat \ {0} : S = MaxSize BY DEF Ring!RingConstants
  <1>1. PICK m \in Nat, r \in 0 .. S - 1 : x = S * m + r /\ r = x % S
    <2>1. x \div S \in Nat /\ x % S \in 0 .. S - 1 /\ x = S * (x \div S) + (x % S)
      OBVIOUS
    <2> QED BY <2>1
  <1>2. m < 2
    <2> SUFFICES ASSUME m >= 2 PROVE FALSE OBVIOUS
    <2>1. m - 2 \in Nat /\ m = 2 + (m - 2) OBVIOUS
    <2>2. PICK e \in Nat : m = 2 + e BY <2>1
    <2>3. S * m = 2 * S + S * e /\ S * e >= 0 BY <2>2
    <2> QED BY <2>3, <1>1
  <1>3. CASE m = 0 BY <1>1, <1>3
  <1>4. CASE m = 1
    <2>1. x = S + r BY <1>1, <1>4
    <2> QED BY <1>1, <2>1
  <1> QED BY <1>2, <1>3, <1>4

LEMMA FilledFacts ==
    ASSUME Ring!RingConstants, NEW r \in Indexes, NEW w \in Indexes,
           NEW rm \in {0, 1}, NEW wm \in {0, 1}
    PROVE  Filled(r, rm, w, wm) \in 0 .. MaxSize
  BY DEF Filled, Indexes, Ring!RingConstants

\* A write that fits, and one that runs over the reader.
LEMMA WriteArith ==
    ASSUME Ring!RingConstants, NEW r \in Indexes, NEW w \in Indexes,
           NEW rm \in {0, 1}, NEW wm \in {0, 1}, Mirrors(r, rm, w, wm),
           NEW n \in 1 .. MaxSize, NEW v, NEW vm,
           v = IF n >= MaxSize - w THEN n - (MaxSize - w) ELSE w + n,
           vm = IF n >= MaxSize - w THEN 1 - wm ELSE wm
    PROVE  /\ v \in Indexes /\ vm \in {0, 1}
           /\ n <= MaxSize - Filled(r, rm, w, wm) =>
                 Mirrors(r, rm, v, vm) /\ Filled(r, rm, v, vm) = Filled(r, rm, w, wm) + n
           /\ \A i \in Indexes : Back(v, i) = IF Back(w, i) + n < MaxSize THEN Back(w, i) + n
                                              ELSE Back(w, i) + n - MaxSize
  BY DEF Filled, Mirrors, Back, Indexes, Ring!RingConstants

LEMMA ReadArith ==
    ASSUME Ring!RingConstants, NEW r \in Indexes, NEW w \in Indexes,
           NEW rm \in {0, 1}, NEW wm \in {0, 1}, Mirrors(r, rm, w, wm),
           NEW n \in 1 .. Filled(r, rm, w, wm), NEW v, NEW vm,
           v = IF n < MaxSize - r THEN r + n ELSE n - (MaxSize - r),
           vm = IF n < MaxSize - r THEN rm ELSE 1 - rm
    PROVE  /\ v \in Indexes /\ vm \in {0, 1}
           /\ Mirrors(v, vm, w, wm) /\ Filled(v, vm, w, wm) = Filled(r, rm, w, wm) - n
  BY DEF Filled, Mirrors, Indexes, Ring!RingConstants

\* What Copied puts where: the newest byte right behind the new write index.
LEMMA CopiedFacts ==
    ASSUME Ring!RingConstants, NEW b, NEW n \in 1 .. MaxSize, NEW x \in Nat,
           b.w \in Indexes, b.buf \in [Indexes -> Int]
    PROVE  /\ Ring!Copied(b, x + 1, n) \in [Indexes -> Int]
           /\ \A i \in Indexes : Ring!Copied(b, x + 1, n)[i] =
                IF MaxSize - 1 - Back(b.w, i) < n THEN x + MaxSize - Back(b.w, i) ELSE b.buf[i]
  <1>1. DOMAIN b.buf = Indexes OBVIOUS
  <1>2. ASSUME NEW i \in Indexes
        PROVE  /\ (i - b.w + MaxSize) % MaxSize = MaxSize - 1 - Back(b.w, i)
               /\ Back(b.w, i) \in Int
    <2>1. i - b.w + MaxSize \in Nat /\ i - b.w + MaxSize < 2 * MaxSize
      BY DEF Indexes, Ring!RingConstants
    <2>2. (i - b.w + MaxSize) % MaxSize =
             IF i - b.w + MaxSize < MaxSize THEN i - b.w + MaxSize ELSE (i - b.w + MaxSize) - MaxSize
      BY <2>1, ModWrap
    <2>3. PICK w \in Indexes : w = b.w OBVIOUS
    <2>4. PICK y : y = (i - b.w + MaxSize) % MaxSize OBVIOUS
    <2>5. y = IF i - w + MaxSize < MaxSize THEN i - w + MaxSize ELSE (i - w + MaxSize) - MaxSize
      BY <2>2, <2>3, <2>4
    <2>6. y = MaxSize - 1 - Back(w, i) /\ Back(w, i) \in Int
      BY ONLY <2>5, w \in Indexes, i \in Indexes, Ring!RingConstants
         DEF Back, Indexes, Ring!RingConstants
    <2> QED BY <2>3, <2>4, <2>6
  <1>3. MaxSize \in Int BY DEF Ring!RingConstants
  <1>4. \A i \in Indexes : Ring!Copied(b, x + 1, n)[i] =
           IF MaxSize - 1 - Back(b.w, i) < n THEN x + 1 + (MaxSize - 1 - Back(b.w, i)) ELSE b.buf[i]
    BY <1>1, <1>2 DEF Ring!Copied
  <1>5. \A i \in Indexes : /\ x + 1 + (MaxSize - 1 - Back(b.w, i)) = x + MaxSize - Back(b.w, i)
                           /\ x + MaxSize - Back(b.w, i) \in Int
    BY <1>2, <1>3
  <1>6. \A i \in Indexes : b.buf[i] \in Int OBVIOUS
  <1>7. Ring!Copied(b, x + 1, n) = [i \in Indexes |-> Ring!Copied(b, x + 1, n)[i]]
    BY <1>1 DEF Ring!Copied
  <1>8. \A i \in Indexes : Ring!Copied(b, x + 1, n)[i] \in Int
    BY <1>4, <1>5, <1>6
  <1> QED BY <1>4, <1>5, <1>7, <1>8

LEMMA RingTypes ==
    ASSUME Ring!RingConstants, RingInv
    PROVE  /\ MaxSize \in Nat \ {0} /\ written \in Nat /\ taken \in Seq(Int) /\ lost \in Nat
           /\ ring = [buf |-> ring.buf, r |-> ring.r, rm |-> ring.rm, w |-> ring.w, wm |-> ring.wm]
           /\ ring.buf \in [Indexes -> Int] /\ ring.r \in Indexes /\ ring.w \in Indexes
           /\ ring.rm \in {0, 1} /\ ring.wm \in {0, 1}
           /\ Mirrors(ring.r, ring.rm, ring.w, ring.wm)
           /\ Ring!RING_GetDataLen(ring) = Filled(ring.r, ring.rm, ring.w, ring.wm)
  <1>1. /\ MaxSize \in Nat \ {0} /\ written \in Nat /\ taken \in Seq(Int) /\ lost \in Nat
    BY DEF RingInv, RingType, Ring!RingConstants
  <1>2. /\ ring = [buf |-> ring.buf, r |-> ring.r, rm |-> ring.rm, w |-> ring.w, wm |-> ring.wm]
        /\ ring.buf \in [Indexes -> Int] /\ ring.r \in Indexes /\ ring.w \in Indexes
        /\ ring.rm \in {0, 1} /\ ring.wm \in {0, 1}
    BY DEF RingInv, RingType
  <1>3. Ring!RING_GetDataLen(ring) = Filled(ring.r, ring.rm, ring.w, ring.wm)
    BY DEF Ring!RING_GetDataLen, Filled
  <1> QED BY <1>1, <1>2, <1>3 DEF RingInv

LEMMA RingInit == ASSUME Ring!RingConstants, Ring!Init PROVE RingInv
  <1>1. /\ ring = [buf |-> [i \in Indexes |-> 0], r |-> 0, rm |-> 0, w |-> 0, wm |-> 0]
        /\ written = 0 /\ taken = <<>> /\ lost = 0
    BY DEF Ring!Init, Ring!RING_Init, Indexes
  <1>2. 0 \in Indexes /\ MaxSize \in Nat BY DEF Indexes, Ring!RingConstants
  <1>3. RingType
    <2>1. [i \in Indexes |-> 0] \in [Indexes -> Int] OBVIOUS
    <2>2. ring \in [buf : [Indexes -> Int], r : Indexes, rm : {0, 1}, w : Indexes, wm : {0, 1}]
      BY <1>1, <1>2, <2>1
    <2>3. lost \in Nat BY <1>1
    <2> QED BY <1>1, <2>2, <2>3 DEF RingType
  <1>4. ring.r = 0 /\ ring.w = 0 /\ ring.rm = 0 /\ ring.wm = 0 BY <1>1
  <1>5. Mirrors(ring.r, ring.rm, ring.w, ring.wm) BY <1>4 DEF Mirrors
  <1>6. 0 = Filled(ring.r, ring.rm, ring.w, ring.wm) BY <1>4 DEF Filled
  <1>7. Content(ring.buf, ring.w, written, 0)
    BY <1>4 DEF Content, Back, Indexes, Ring!RingConstants
  <1>8. Order(taken, written - 0) /\ Len(taken) + 0 + lost = written BY <1>1 DEF Order
  <1>9. 0 \in 0 .. MaxSize /\ 0 <= written BY <1>1, <1>2
  <1> QED BY <1>3, <1>5, <1>6, <1>7, <1>8, <1>9 DEF RingInv

LEMMA BackRange ==
    ASSUME Ring!RingConstants, NEW w \in Indexes, NEW i \in Indexes
    PROVE  Back(w, i) \in 0 .. MaxSize - 1
  BY DEF Back, Indexes, Ring!RingConstants

\* A write leaves D + n bytes in the ring if it fits, else all or none of them.
LEMMA WriteContent ==
    ASSUME Ring!RingConstants, NEW buf, NEW c, NEW w \in Indexes, NEW v \in Indexes,
           NEW x \in Nat, NEW D \in 0 .. MaxSize, NEW E \in 0 .. MaxSize, NEW n \in 1 .. MaxSize,
           Content(buf, w, x, D), E <= D + n,
           \A i \in Indexes : Back(v, i) = IF Back(w, i) + n < MaxSize THEN Back(w, i) + n
                                           ELSE Back(w, i) + n - MaxSize,
           \A i \in Indexes : c[i] = IF MaxSize - 1 - Back(w, i) < n
                                     THEN x + MaxSize - Back(w, i) ELSE buf[i]
    PROVE  Content(c, v, x + n, E)
  <1> SUFFICES ASSUME NEW i \in Indexes, Back(v, i) < E PROVE c[i] = (x + n) - Back(v, i)
    BY DEF Content
  <1>1. PICK p \in 0 .. MaxSize - 1 : p = Back(w, i) BY BackRange
  <1>2. PICK q \in 0 .. MaxSize - 1 : q = Back(v, i) BY BackRange
  <1>3. q = IF p + n < MaxSize THEN p + n ELSE p + n - MaxSize BY <1>1, <1>2
  <1>4. c[i] = IF MaxSize - 1 - p < n THEN x + MaxSize - p ELSE buf[i] BY <1>1
  <1>5. p < D => buf[i] = x - p BY <1>1 DEF Content
  <1>6. MaxSize \in Nat /\ q < E BY <1>2 DEF Ring!RingConstants
  <1>7. c[i] = (x + n) - q BY <1>3, <1>4, <1>5, <1>6
  <1> QED BY <1>2, <1>7

LEMMA WriteStep ==
    ASSUME Ring!RingConstants, RingInv, NEW n \in 1 .. MaxSize, Ring!Write(n)
    PROVE  RingInv'
  <1>t. /\ MaxSize \in Nat \ {0} /\ written \in Nat /\ taken \in Seq(Int) /\ lost \in Nat
        /\ ring = [buf |-> ring.buf, r |-> ring.r, rm |-> ring.rm, w |-> ring.w, wm |-> ring.wm]
        /\ ring.buf \in [Indexes -> Int] /\ ring.r \in Indexes /\ ring.w \in Indexes
        /\ ring.rm \in {0, 1} /\ ring.wm \in {0, 1}
        /\ Mirrors(ring.r, ring.rm, ring.w, ring.wm)
        /\ Ring!RING_GetDataLen(ring) = Filled(ring.r, ring.rm, ring.w, ring.wm)
    BY RingTypes
  <1>d. PICK D \in 0 .. MaxSize :
          /\ D = Filled(ring.r, ring.rm, ring.w, ring.wm) /\ D <= written
          /\ Content(ring.buf, ring.w, written, D)
          /\ Order(taken, written - D)
          /\ Len(taken) + D + lost = written
    BY DEF RingInv
  <1>v. PICK v, vm :
          /\ v = (IF n >= MaxSize - ring.w THEN n - (MaxSize - ring.w) ELSE ring.w + n)
          /\ vm = IF n >= MaxSize - ring.w THEN 1 - ring.wm ELSE ring.wm
    OBVIOUS
  <1>u. PICK u, um :
          /\ u = (IF n > MaxSize - D THEN v ELSE ring.r)
          /\ um = IF n > MaxSize - D /\ n >= MaxSize - ring.w THEN 1 - ring.rm ELSE ring.rm
    OBVIOUS
  <1>l. PICK l : l = Ring!Lost(ring, n) OBVIOUS
  <1>c. PICK c : c = Ring!Copied(ring, written + 1, n) OBVIOUS
  <1>1. /\ v \in Indexes /\ vm \in {0, 1}
        /\ n <= MaxSize - Filled(ring.r, ring.rm, ring.w, ring.wm) =>
              /\ Mirrors(ring.r, ring.rm, v, vm)
              /\ Filled(ring.r, ring.rm, v, vm) = Filled(ring.r, ring.rm, ring.w, ring.wm) + n
        /\ \A i \in Indexes : Back(v, i) = IF Back(ring.w, i) + n < MaxSize THEN Back(ring.w, i) + n
                                           ELSE Back(ring.w, i) + n - MaxSize
    <2>1. PICK r \in Indexes, w \in Indexes, rm \in {0, 1}, wm \in {0, 1} :
             r = ring.r /\ w = ring.w /\ rm = ring.rm /\ wm = ring.wm
      BY <1>t
    <2>2. Mirrors(r, rm, w, wm) BY <1>t, <2>1
    <2>3. /\ v = (IF n >= MaxSize - w THEN n - (MaxSize - w) ELSE w + n)
          /\ vm = IF n >= MaxSize - w THEN 1 - wm ELSE wm
      BY <1>v, <2>1
    <2>4. /\ v \in Indexes /\ vm \in {0, 1}
          /\ n <= MaxSize - Filled(r, rm, w, wm) =>
                Mirrors(r, rm, v, vm) /\ Filled(r, rm, v, vm) = Filled(r, rm, w, wm) + n
          /\ \A i \in Indexes : Back(v, i) = IF Back(w, i) + n < MaxSize THEN Back(w, i) + n
                                             ELSE Back(w, i) + n - MaxSize
      BY <2>2, <2>3, WriteArith
    <2> QED BY <2>1, <2>4
  <1>2. /\ c \in [Indexes -> Int]
        /\ \A i \in Indexes : c[i] =
              IF MaxSize - 1 - Back(ring.w, i) < n THEN written + MaxSize - Back(ring.w, i)
              ELSE ring.buf[i]
    BY ZenonT(60), <1>t, <1>c, CopiedFacts
  <1>3. /\ written' = written + n /\ taken' = taken
        /\ lost' = lost + Ring!Lost(ring, n)
        /\ ring' = [ring EXCEPT !.buf = c, !.w = v, !.wm = vm, !.r = u, !.rm = um]
    BY <1>t, <1>d, <1>v, <1>u, <1>c DEF Ring!Write, Ring!RING_Write, Ring!RING_GetSpaceLen
  <1>4. ring' = [buf |-> c, r |-> u, rm |-> um, w |-> v, wm |-> vm] BY <1>t, <1>3
  <1>5. /\ ring'.buf = c /\ ring'.r = u /\ ring'.rm = um /\ ring'.w = v /\ ring'.wm = vm
    BY <1>4
  <1>6. u \in Indexes /\ um \in {0, 1} BY <1>t, <1>u, <1>1
  <1>8. PICK E \in 0 .. MaxSize : /\ E = Filled(u, um, v, vm) /\ Mirrors(u, um, v, vm)
                                  /\ E <= D + n
                                  /\ l \in Nat /\ E + l = D + n
    <2>l. l = IF n <= MaxSize - D THEN 0
              ELSE IF ring.r < ring.w THEN D + n ELSE n - (MaxSize - D)
      BY <1>t, <1>d, <1>l DEF Ring!Lost, Ring!RING_GetSpaceLen
    <2>1. CASE n <= MaxSize - D
      <3>1. u = ring.r /\ um = ring.rm BY <1>t, <1>u, <2>1
      <3>2. Mirrors(u, um, v, vm) /\ Filled(u, um, v, vm) = D + n BY <1>d, <1>1, <2>1, <3>1
      <3>3. l = 0 BY <2>l, <2>1
      <3> QED BY <1>t, <2>1, <3>2, <3>3
    <2>2. CASE n > MaxSize - D
      <3>1. u = v BY <1>u, <2>2
      <3>2. Mirrors(u, um, v, vm) BY <1>1, <3>1 DEF Mirrors, Indexes
      <3>3. CASE ring.r < ring.w
        <4>0. D = ring.w - ring.r /\ ring.rm = ring.wm
          <5>1. ring.r \in Int /\ ring.w \in Int BY <1>t DEF Indexes
          <5>2. ring.r # ring.w /\ ~(ring.r > ring.w) BY <3>3, <5>1
          <5> QED BY <1>t, <1>d, <3>3, <5>2 DEF Filled, Mirrors
        <4>1. n >= MaxSize - ring.w
          BY <1>t, <2>2, <4>0 DEF Indexes
        <4>2. um = vm BY <1>u, <1>v, <2>2, <4>0, <4>1
        <4>3. Filled(u, um, v, vm) = 0 BY <3>1, <4>2 DEF Filled
        <4>4. l = D + n BY <1>t, <2>l, <2>2, <3>3
        <4> QED BY <1>t, <3>2, <4>3, <4>4
      <3>4. CASE ~(ring.r < ring.w)
        <4>1. ring.rm # ring.wm
          BY <1>t, <1>d, <2>2, <3>4 DEF Filled, Mirrors, Indexes
        <4>2. um # vm BY <1>t, <1>u, <1>v, <2>2, <4>1
        <4>3. Filled(u, um, v, vm) = MaxSize BY <3>1, <4>2 DEF Filled
        <4>4. l = n - (MaxSize - D) BY <1>t, <2>l, <2>2, <3>4
        <4> QED BY <1>t, <2>2, <3>2, <4>3, <4>4
      <3> QED BY <3>3, <3>4
    <2> QED BY <1>t, <2>1, <2>2
  <1>7. RingType'
    <2>1. ring' \in [buf : [Indexes -> Int], r : Indexes, rm : {0, 1}, w : Indexes, wm : {0, 1}]
      BY <1>1, <1>2, <1>4, <1>6
    <2>2. lost' \in Nat BY <1>t, <1>3, <1>8, <1>l
    <2>3. written' \in Nat /\ taken' \in Seq(Int) BY <1>t, <1>3
    <2> QED BY <2>1, <2>2, <2>3 DEF RingType
  <1>9. Content(c, v, written + n, E)
    <2>1. Content(ring.buf, ring.w, written, D) /\ E <= D + n BY <1>d, <1>8
    <2> QED BY ZenonT(60), <1>t, <1>1, <1>2, <2>1, WriteContent
  <1>10. Order(taken, (written + n) - E) /\ E <= written + n
    <2>0. D <= written /\ E <= D + n BY <1>d, <1>8
    <2>1. written - D <= (written + n) - E /\ E <= written + n BY <1>t, <2>0
    <2>2. written - D \in Int /\ (written + n) - E \in Int BY <1>t
    <2>3. \A j \in 1 .. Len(taken) : taken[j] \in Int BY <1>t
    <2> QED BY <1>d, <2>1, <2>2, <2>3 DEF Order
  <1>11. Len(taken) + E + lost' = written + n
    <2>1. Len(taken) \in Nat BY <1>t
    <2>2. lost' = lost + l BY <1>3, <1>l
    <2>3. l \in Nat /\ E + l = D + n BY <1>8
    <2>4. Len(taken) + D + lost = written BY <1>d
    <2>5. PICK t \in Nat : t = Len(taken) BY <2>1
    <2>6. t + D + lost = written BY <2>4, <2>5
    <2>7. written \in Nat /\ lost \in Nat /\ D \in Nat /\ E \in Nat /\ n \in Nat BY <1>t
    <2>8. t + E + (lost + l) = written + n BY ONLY <2>3, <2>5, <2>6, <2>7
    <2> QED BY <2>2, <2>5, <2>8
  <1>12. /\ E = Filled(ring'.r, ring'.rm, ring'.w, ring'.wm) /\ E <= written'
         /\ Content(ring'.buf, ring'.w, written', E) /\ Order(taken', written' - E)
         /\ Len(taken') + E + lost' = written'
    BY <1>3, <1>5, <1>8, <1>9, <1>10, <1>11
  <1> QED BY <1>5, <1>7, <1>8, <1>12 DEF RingInv

\* What Bytes takes from the ring are the oldest m of the D bytes in it.
LEMMA BytesFacts ==
    ASSUME Ring!RingConstants, NEW buf, NEW x \in Nat, NEW D \in 0 .. MaxSize, NEW k \in 1 .. D,
           NEW r \in Indexes, NEW w \in Indexes, NEW rm \in {0, 1}, NEW wm \in {0, 1},
           Mirrors(r, rm, w, wm), D = Filled(r, rm, w, wm), Content(buf, w, x, D)
    PROVE  buf[(r + k - 1) % MaxSize] = (x - D) + k
  <1>1. PICK i : i = (r + k - 1) % MaxSize OBVIOUS
  <1>2. r + k - 1 \in Nat /\ r + k - 1 < 2 * MaxSize BY DEF Indexes, Ring!RingConstants
  <1>3. i = IF r + k - 1 < MaxSize THEN r + k - 1 ELSE (r + k - 1) - MaxSize
    BY <1>1, <1>2, ModWrap
  <1>4. i \in Indexes /\ Back(w, i) = D - k
    BY <1>3 DEF Filled, Mirrors, Back, Indexes, Ring!RingConstants
  <1>5. D - k < D /\ x - (D - k) = (x - D) + k BY DEF Ring!RingConstants
  <1>6. buf[i] = (x - D) + k BY <1>4, <1>5 DEF Content
  <1> QED BY <1>1, <1>6

LEMMA TakenFacts ==
    ASSUME NEW t \in Seq(Int), NEW y \in Int, Order(t, y), NEW m \in Nat,
           NEW X, X = [k \in 1 .. m |-> y + k]
    PROVE  t \o X \in Seq(Int) /\ Len(t \o X) = Len(t) + m /\ Order(t \o X, y + m)
  <1>1. X \in Seq(Int) /\ Len(X) = m /\ \A k \in 1 .. m : X[k] = y + k
    <2>1. \A k \in 1 .. m : y + k \in Int OBVIOUS
    <2>2. X \in [1 .. m -> Int] BY <2>1
    <2> QED BY <2>2
  <1>2. /\ t \o X \in Seq(Int) /\ Len(t \o X) = Len(t) + m
        /\ \A i \in 1 .. Len(t) + m : (t \o X)[i] = IF i <= Len(t) THEN t[i] ELSE X[i - Len(t)]
    BY <1>1
  <1>3. PICK z : z = t \o X OBVIOUS
  <1>4. ASSUME NEW i \in 1 .. Len(t) + m
        PROVE  z[i] = IF i <= Len(t) THEN t[i] ELSE y + (i - Len(t))
    <2>1. CASE i <= Len(t) BY <1>2, <1>3, <2>1
    <2>2. CASE i > Len(t)
      <3>1. i - Len(t) \in 1 .. m BY <2>2
      <3> QED BY <1>1, <1>2, <1>3, <2>2, <3>1
    <2> QED BY <2>1, <2>2
  <1>5. /\ \A i \in 1 .. Len(t) : t[i] \in Int /\ t[i] <= y
        /\ \A i, j \in 1 .. Len(t) : i < j => t[i] < t[j]
    BY DEF Order
  <1>6. Len(t) \in Nat /\ Len(z) = Len(t) + m BY <1>2, <1>3
  <1>7. ASSUME NEW j \in 1 .. Len(z) PROVE z[j] <= y + m
    BY SMTT(30), <1>4, <1>5, <1>6
  <1>8. ASSUME NEW i \in 1 .. Len(z), NEW j \in 1 .. Len(z), i < j PROVE z[i] < z[j]
    <2>1. CASE j <= Len(t)
      <3>1. i \in 1 .. Len(t) /\ j \in 1 .. Len(t) BY <1>6, <1>8, <2>1
      <3>2. z[i] = t[i] /\ z[j] = t[j] BY <1>4, <1>6, <3>1
      <3> QED BY <1>5, <1>8, <3>1, <3>2
    <2>2. CASE j > Len(t) /\ i <= Len(t)
      <3>1. z[i] = t[i] /\ z[j] = y + (j - Len(t)) BY <1>4, <1>6, <2>2
      <3>2. t[i] \in Int /\ t[i] <= y BY <1>5, <1>6, <2>2
      <3> QED BY <1>6, <2>2, <3>1, <3>2
    <2>3. CASE i > Len(t)
      <3>1. z[i] = y + (i - Len(t)) /\ z[j] = y + (j - Len(t)) BY <1>4, <1>6, <1>8, <2>3
      <3> QED BY <1>6, <1>8, <3>1
    <2> QED BY <1>6, <2>1, <2>2, <2>3
  <1>9. Order(z, y + m) BY <1>7, <1>8 DEF Order
  <1> QED BY <1>2, <1>3, <1>9

LEMMA ReadStep ==
    ASSUME Ring!RingConstants, RingInv, NEW n \in 1 .. MaxSize, Ring!Read(n)
    PROVE  RingInv'
  <1>t. /\ MaxSize \in Nat \ {0} /\ written \in Nat /\ taken \in Seq(Int) /\ lost \in Nat
        /\ ring = [buf |-> ring.buf, r |-> ring.r, rm |-> ring.rm, w |-> ring.w, wm |-> ring.wm]
        /\ ring.buf \in [Indexes -> Int] /\ ring.r \in Indexes /\ ring.w \in Indexes
        /\ ring.rm \in {0, 1} /\ ring.wm \in {0, 1}
        /\ Mirrors(ring.r, ring.rm, ring.w, ring.wm)
        /\ Ring!RING_GetDataLen(ring) = Filled(ring.r, ring.rm, ring.w, ring.wm)
    BY RingTypes
  <1>d. PICK D \in 0 .. MaxSize :
          /\ D = Filled(ring.r, ring.rm, ring.w, ring.wm) /\ D <= written
          /\ Content(ring.buf, ring.w, written, D)
          /\ Order(taken, written - D)
          /\ Len(taken) + D + lost = written
    BY DEF RingInv
  <1>m. PICK m \in 0 .. D : m = IF D < n THEN D ELSE n BY <1>t
  <1>1. /\ ring' = Ring!RING_Read(ring, n) /\ Ring!ReadLen(ring, n) = m
        /\ taken' = taken \o Ring!Bytes(ring, m) /\ written' = written /\ lost' = lost
    BY <1>t, <1>d, <1>m DEF Ring!Read, Ring!ReadLen
  <1>2. PICK v \in Indexes, vm \in {0, 1} :
          /\ ring' = [buf |-> ring.buf, r |-> v, rm |-> vm, w |-> ring.w, wm |-> ring.wm]
          /\ Mirrors(v, vm, ring.w, ring.wm) /\ Filled(v, vm, ring.w, ring.wm) = D - m
    <2>1. CASE D = 0
      <3>1. m = 0 /\ ring' = ring BY <1>t, <1>d, <1>1, <1>m, <2>1 DEF Ring!RING_Read
      <3>2. D - m = D BY <1>t, <2>1, <3>1
      <3> QED BY <1>t, <1>d, <3>1, <3>2
    <2>2. CASE D # 0
      <3>1. m \in 1 .. D BY <1>t, <1>m, <2>2
      <3>2. PICK r \in Indexes, w \in Indexes, rm \in {0, 1}, wm \in {0, 1} :
               r = ring.r /\ w = ring.w /\ rm = ring.rm /\ wm = ring.wm
        BY <1>t
      <3>3. PICK v, vm : /\ v = (IF m < MaxSize - r THEN r + m ELSE m - (MaxSize - r))
                         /\ vm = IF m < MaxSize - r THEN rm ELSE 1 - rm
        OBVIOUS
      <3>4. m \in 1 .. Filled(r, rm, w, wm) /\ Mirrors(r, rm, w, wm) BY <1>t, <1>d, <3>1, <3>2
      <3>5. /\ v \in Indexes /\ vm \in {0, 1}
            /\ Mirrors(v, vm, w, wm) /\ Filled(v, vm, w, wm) = Filled(r, rm, w, wm) - m
        BY <3>3, <3>4, ReadArith
      <3>6. ring' = IF m < MaxSize - ring.r THEN [ring EXCEPT !.r = @ + m]
                    ELSE [ring EXCEPT !.rm = 1 - @, !.r = m - (MaxSize - @)]
        BY <1>t, <1>d, <1>1, <2>2 DEF Ring!RING_Read
      <3>7. ring' = [ring EXCEPT !.r = v, !.rm = vm]
        <4>1. CASE m < MaxSize - ring.r
          <5>1. ring' = [ring EXCEPT !.r = v] /\ vm = ring.rm BY <3>2, <3>3, <3>6, <4>1
          <5> QED BY <1>t, <5>1
        <4>2. CASE ~(m < MaxSize - ring.r) BY <3>2, <3>3, <3>6, <4>2
        <4> QED BY <4>1, <4>2
      <3>8. ring' = [buf |-> ring.buf, r |-> v, rm |-> vm, w |-> ring.w, wm |-> ring.wm]
        BY <1>t, <3>7
      <3> QED BY <1>d, <3>2, <3>5, <3>8
    <2> QED BY <2>1, <2>2
  <1>3. /\ ring'.buf = ring.buf /\ ring'.r = v /\ ring'.rm = vm
        /\ ring'.w = ring.w /\ ring'.wm = ring.wm
    BY <1>2
  <1>4. Ring!Bytes(ring, m) = [k \in 1 .. m |-> (written - D) + k]
    <2>1. \A k \in 1 .. m : k \in 1 .. D BY <1>t
    <2>2. \A k \in 1 .. D : ring.buf[(ring.r + k - 1) % MaxSize] = (written - D) + k
      <3>1. D = Filled(ring.r, ring.rm, ring.w, ring.wm) /\ Content(ring.buf, ring.w, written, D)
        BY <1>d
      <3> QED BY <1>t, <3>1, BytesFacts
    <2> QED BY <2>1, <2>2 DEF Ring!Bytes
  <1>5. written - D \in Int /\ m \in Nat BY <1>t
  <1>6. /\ taken' \in Seq(Int) /\ Len(taken') = Len(taken) + m
        /\ Order(taken', (written - D) + m)
    BY <1>t, <1>d, <1>1, <1>4, <1>5, TakenFacts, SMTT(30)
  <1>7. RingType'
    <2>1. ring' \in [buf : [Indexes -> Int], r : Indexes, rm : {0, 1}, w : Indexes, wm : {0, 1}]
      BY <1>t, <1>2
    <2> QED BY <1>t, <1>1, <1>6, <2>1 DEF RingType
  <1>8. PICK E \in 0 .. MaxSize : E = D - m BY <1>t
  <1>9. E = Filled(ring'.r, ring'.rm, ring'.w, ring'.wm) /\ E <= written'
    BY <1>t, <1>d, <1>1, <1>2, <1>3, <1>8
  <1>10. Content(ring'.buf, ring'.w, written', E)
    <2>1. \A i \in Indexes : Back(ring.w, i) \in Int BY <1>t, BackRange
    <2>2. \A i \in Indexes : Back(ring.w, i) < E => Back(ring.w, i) < D BY <1>t, <1>8, <2>1, SMTT(30)
    <2> QED BY <1>d, <1>1, <1>3, <2>2 DEF Content
  <1>11. Order(taken', written' - E)
    <2>1. (written - D) + m = written - E BY <1>t, <1>8
    <2> QED BY <1>1, <1>6, <2>1
  <1>12. Len(taken') + E + lost' = written'
    <2>1. Len(taken) \in Nat BY <1>t
    <2> QED BY <1>t, <1>d, <1>1, <1>6, <1>8, <2>1
  <1>13. Mirrors(ring'.r, ring'.rm, ring'.w, ring'.wm) BY <1>2, <1>3
  <1> QED BY <1>7, <1>9, <1>10, <1>11, <1>12, <1>13 DEF RingInv

LEMMA RingStep == ASSUME Ring!RingConstants, RingInv, [Ring!Next]_Ring!vars PROVE RingInv'
  <1>1. CASE UNCHANGED Ring!vars
    BY <1>1 DEF Ring!vars, RingInv, RingType
  <1>2. CASE Ring!Next BY <1>2, WriteStep, ReadStep DEF Ring!Next
  <1> QED BY <1>1, <1>2

LEMMA RingInvNewest == ASSUME Ring!RingConstants, RingInv PROVE Ring!RingNewest
  <1>t. /\ MaxSize \in Nat \ {0} /\ written \in Nat /\ taken \in Seq(Int)
        /\ ring.r \in Indexes /\ ring.w \in Indexes
        /\ ring.rm \in {0, 1} /\ ring.wm \in {0, 1}
        /\ Mirrors(ring.r, ring.rm, ring.w, ring.wm)
        /\ Ring!RING_GetDataLen(ring) = Filled(ring.r, ring.rm, ring.w, ring.wm)
    BY RingTypes
  <1>d. PICK D \in 0 .. MaxSize :
          /\ D = Filled(ring.r, ring.rm, ring.w, ring.wm) /\ D <= written
          /\ Content(ring.buf, ring.w, written, D)
          /\ Order(taken, written - D)
          /\ Len(taken) + D + lost = written
    BY DEF RingInv
  <1>2. Ring!Bytes(ring, D) = [k \in 1 .. D |-> (written - D) + k]
    <2>1. \A k \in 1 .. D : ring.buf[(ring.r + k - 1) % MaxSize] = (written - D) + k
      <3>1. D = Filled(ring.r, ring.rm, ring.w, ring.wm) /\ Content(ring.buf, ring.w, written, D)
        BY <1>d
      <3> QED BY <1>t, <3>1, BytesFacts
    <2> QED BY <2>1 DEF Ring!Bytes
  <1>3. ASSUME NEW k \in 1 .. Len(taken) - 1 PROVE taken[k] < taken[k + 1]
    <2>1. k \in 1 .. Len(taken) /\ k + 1 \in 1 .. Len(taken) /\ k < k + 1 BY <1>t
    <2> QED BY <1>d, <2>1 DEF Order
  <1>4. Ring!Bytes(ring, D) = [k \in 1 .. D |-> written - D + k] BY <1>2
  <1> QED BY <1>t, <1>d, <1>3, <1>4 DEF Ring!RingNewest

\* Whatever was written and read, the bytes in the ring are the newest ones in
\* order, those returned are in writing order, and every byte written was
\* returned, is in the ring or was dropped by a write larger than the free
\* space, which drops exactly what Lost says, for every size of the ring
\* (RING_Write, RING_Read in ringbuf.c).
THEOREM RingReadsNewest == ASSUME Ring!RingConstants PROVE Ring!Spec => []Ring!RingNewest
  <1>1. Ring!Init => RingInv BY RingInit
  <1>2. RingInv /\ [Ring!Next]_Ring!vars => RingInv' BY RingStep
  <1>3. RingInv => Ring!RingNewest BY RingInvNewest
  <1> QED BY <1>1, <1>2, <1>3, PTL DEF Ring!Spec
============================================================================
