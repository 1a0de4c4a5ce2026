-------------------------- MODULE TimerHeapProofs --------------------------
(***************************************************************************)
(* Proofs about TimerHeap: its heap order, its timer ids and their free    *)
(* list, and that it implements Timers.                                    *)
(***************************************************************************)
EXTENDS TimerHeap, FiniteSetTheorems, WellFoundedInduction, TLAPS

----------------------------------------------------------------------------
(***************************************************************************)
(* Induction over the naturals, stated about a set instead of a predicate, *)
(* and what it gives for the two loops: their turns follow one another.    *)
(***************************************************************************)
LEMMA Least ==
    ASSUME NEW T, T \subseteq Nat, T # {}
    PROVE  \E x \in T : \A y \in T : x <= y
  <1>1. IsWellFoundedOn(OpToRel(<, Nat), Nat)
    BY NatLessThanWellFounded
  <1>2. PICK x \in T : \A y \in T : ~(<<y, x>> \in OpToRel(<, Nat))
    BY <1>1, WFMin, Zenon
  <1>3. \A y \in T : ~(y < x)
    BY <1>2 DEF OpToRel
  <1> QED BY <1>3

LEMMA Induct ==
    ASSUME NEW T, 0 \in T, \A n \in Nat : n \in T => n + 1 \in T
    PROVE  Nat \subseteq T
  <1> SUFFICES ASSUME Nat \ T # {} PROVE FALSE
    OBVIOUS
  <1>1. PICK x \in Nat \ T : \A y \in Nat \ T : x <= y
    BY Least
  <1>2. x # 0 /\ x - 1 \in Nat /\ (x - 1) + 1 = x
    BY <1>1
  <1>3. x - 1 \in T
    BY <1>1, <1>2
  <1> QED BY <1>1, <1>2, <1>3

LEMMA UpTurnsRun ==
    ASSUME NEW g, NEW e, NEW s \in Nat
    PROVE  /\ UpTurns(g, e, s)[0] = [g |-> g, s |-> s]
           /\ \A n \in 1..s : UpTurns(g, e, s)[n] = UpTurn(UpTurns(g, e, s)[n - 1], e)
  <1> DEFINE Turns(f, m) == [n \in 0..m |-> IF n = 0 THEN [g |-> g, s |-> s]
                                            ELSE UpTurn(f[n - 1], e)]
             T == {m \in Nat : \E f : f = Turns(f, m)}
  <1>1. 0 \in T
    <2>1. [n \in 0..0 |-> [g |-> g, s |-> s]] = Turns([n \in 0..0 |-> [g |-> g, s |-> s]], 0)
      OBVIOUS
    <2> QED BY <2>1
  <1>2. ASSUME NEW m \in Nat, m \in T PROVE m + 1 \in T
    <2>1. PICK f : f = Turns(f, m)
      BY <1>2
    <2> DEFINE k == Turns(f, m + 1)
    <2>2. \A n \in 0..m : f[n] = k[n]
      BY <2>1
    <2>3. k = Turns(k, m + 1)
      <3>1. \A n \in 0..m+1 : n # 0 => n - 1 \in 0..m
        OBVIOUS
      <3> HIDE DEF k
      <3>2. \A n \in 0..m+1 : n # 0 => f[n - 1] = k[n - 1]
        BY <2>2, <3>1
      <3>3. Turns(f, m + 1) = Turns(k, m + 1)
        BY <3>2
      <3> QED BY <3>3 DEF k
    <2>4. \E j : j = Turns(j, m + 1)
      <3> HIDE DEF k, Turns
      <3> QED BY <2>3
    <2> QED BY <2>4
  <1>3. \E f : f = Turns(f, s)
    <2> HIDE DEF T
    <2>1. s \in T
      BY <1>1, <1>2, Induct
    <2> QED BY <2>1 DEF T
  <1>4. UpTurns(g, e, s) = Turns(UpTurns(g, e, s), s)
    BY <1>3 DEF UpTurns
  <1> HIDE DEF T
  <1> DEFINE u == UpTurns(g, e, s)
  <1> HIDE DEF u
  <1>5. u = Turns(u, s)
    BY <1>4 DEF u
  <1>6. /\ u[0] = [g |-> g, s |-> s]
        /\ \A n \in 1..s : u[n] = UpTurn(u[n - 1], e)
    BY <1>5
  <1> QED BY <1>6 DEF u

LEMMA DownTurnsRun ==
    ASSUME NEW g, NEW e, NEW s, g.cur \in Nat
    PROVE  /\ DownTurns(g, e, s)[0] = [g |-> g, s |-> s]
           /\ \A n \in 1..g.cur :
                 DownTurns(g, e, s)[n] = DownTurn(DownTurns(g, e, s)[n - 1], e)
  <1> DEFINE Turns(f, m) == [n \in 0..m |-> IF n = 0 THEN [g |-> g, s |-> s]
                                            ELSE DownTurn(f[n - 1], e)]
             T == {m \in Nat : \E f : f = Turns(f, m)}
  <1>1. 0 \in T
    <2>1. [n \in 0..0 |-> [g |-> g, s |-> s]] = Turns([n \in 0..0 |-> [g |-> g, s |-> s]], 0)
      OBVIOUS
    <2> QED BY <2>1
  <1>2. ASSUME NEW m \in Nat, m \in T PROVE m + 1 \in T
    <2>1. PICK f : f = Turns(f, m)
      BY <1>2
    <2> DEFINE k == Turns(f, m + 1)
    <2>2. \A n \in 0..m : f[n] = k[n]
      BY <2>1
    <2>3. k = Turns(k, m + 1)
      <3>1. \A n \in 0..m+1 : n # 0 => n - 1 \in 0..m
        OBVIOUS
      <3> HIDE DEF k
      <3>2. \A n \in 0..m+1 : n # 0 => f[n - 1] = k[n - 1]
        BY <2>2, <3>1
      <3>3. Turns(f, m + 1) = Turns(k, m + 1)
        BY <3>2
      <3> QED BY <3>3 DEF k
    <2>4. \E j : j = Turns(j, m + 1)
      <3> HIDE DEF k, Turns
      <3> QED BY <2>3
    <2> QED BY <2>4
  <1>3. \E f : f = Turns(f, g.cur)
    <2> HIDE DEF T
    <2>1. g.cur \in T
      BY <1>1, <1>2, Induct
    <2> QED BY <2>1 DEF T
  <1>4. DownTurns(g, e, s) = Turns(DownTurns(g, e, s), g.cur)
    BY <1>3 DEF DownTurns
  <1> HIDE DEF T
  <1> DEFINE u == DownTurns(g, e, s)
  <1> HIDE DEF u
  <1>5. u = Turns(u, g.cur)
    BY <1>4 DEF u
  <1>6. /\ u[0] = [g |-> g, s |-> s]
        /\ \A n \in 1..g.cur : u[n] = DownTurn(u[n - 1], e)
    BY <1>5
  <1> QED BY <1>6 DEF u

----------------------------------------------------------------------------
(***************************************************************************)
(* The tree, the arrays and the elementary writes to them.                 *)
(***************************************************************************)
LEMMA Tree ==
    /\ \A s \in Nat : Left(s) \in Nat /\ Left(s) = 2 * s + 1
    /\ \A s \in Nat : Parent(s) \in Nat /\ Parent(s) <= s
    /\ \A s \in Nat : s # 0 => Parent(s) < s
    /\ \A s \in Nat : \A t \in Nat :
          t # 0 => (Parent(t) = s <=> t = Left(s) \/ t = Left(s) + 1)
  BY DEF Left, Parent

Shaped(g, n) ==
    g \in [heap: [0..n-1 -> Entries \cup {None}], ids: [0..n-1 -> Int],
           free: Nat, cur: Nat, id: [Entries -> Int], value: [Entries -> Nat]]

LEMMA SizeShaped ==
    ASSUME NEW n \in Nat, NEW g, Shaped(g, n)
    PROVE  Size(g) = n /\ DOMAIN g.ids = 0..n-1 /\ DOMAIN g.heap = 0..n-1
  <1>1. DOMAIN g.ids = 0..n-1 /\ DOMAIN g.heap = 0..n-1
    BY DEF Shaped
  <1>2. Cardinality(0..n-1) = n
    BY FS_Interval
  <1> QED BY <1>1, <1>2 DEF Size

LEMMA SetHeap ==
    ASSUME NEW n \in Nat, NEW g, Shaped(g, n), NEW a \in [0..n-1 -> Entries \cup {None}]
    PROVE  Shaped([g EXCEPT !.heap = a], n)
  BY DEF Shaped

LEMMA SetIds ==
    ASSUME NEW n \in Nat, NEW g, Shaped(g, n), NEW a \in [0..n-1 -> Int]
    PROVE  Shaped([g EXCEPT !.ids = a], n)
  BY DEF Shaped

LEMMA SetFree ==
    ASSUME NEW n \in Nat, NEW g, Shaped(g, n), NEW a \in Nat
    PROVE  Shaped([g EXCEPT !.free = a], n)
  BY DEF Shaped

LEMMA SetCur ==
    ASSUME NEW n \in Nat, NEW g, Shaped(g, n), NEW a \in Nat
    PROVE  Shaped([g EXCEPT !.cur = a], n)
  BY DEF Shaped

LEMMA SetId ==
    ASSUME NEW n \in Nat, NEW g, Shaped(g, n), NEW a \in [Entries -> Int]
    PROVE  Shaped([g EXCEPT !.id = a], n)
  BY DEF Shaped

LEMMA SetValue ==
    ASSUME NEW n \in Nat, NEW g, Shaped(g, n), NEW a \in [Entries -> Nat]
    PROVE  Shaped([g EXCEPT !.value = a], n)
  BY DEF Shaped

LEMMA CopyNodeIs ==
    ASSUME NEW n \in Nat, NEW g, Shaped(g, n),
           NEW s \in 0..n-1, NEW e \in Entries, g.id[e] \in 0..n-1
    PROVE  /\ Shaped(CopyNode(g, s, e), n)
           /\ CopyNode(g, s, e).heap = [g.heap EXCEPT ![s] = e]
           /\ CopyNode(g, s, e).ids = [g.ids EXCEPT ![g.id[e]] = s]
           /\ CopyNode(g, s, e).free = g.free
           /\ CopyNode(g, s, e).cur = g.cur
           /\ CopyNode(g, s, e).id = g.id
           /\ CopyNode(g, s, e).value = g.value
  <1> DEFINE a == [g.heap EXCEPT ![s] = e]
             b == [g EXCEPT !.heap = a]
             d == [b.ids EXCEPT ![g.id[e]] = s]
  <1>1. a \in [0..n-1 -> Entries \cup {None}]
    BY DEF Shaped
  <1>2. Shaped(b, n)
    BY <1>1, SetHeap
  <1>3. d \in [0..n-1 -> Int]
    BY <1>2 DEF Shaped
  <1>4. Shaped([b EXCEPT !.ids = d], n)
    BY <1>2, <1>3, SetIds
  <1>5. Shaped(CopyNode(g, s, e), n)
    BY <1>4 DEF CopyNode
  <1>6. /\ CopyNode(g, s, e).heap = [g.heap EXCEPT ![s] = e]
        /\ CopyNode(g, s, e).ids = [g.ids EXCEPT ![g.id[e]] = s]
    BY DEF CopyNode, Shaped
  <1>7. /\ CopyNode(g, s, e).free = g.free
        /\ CopyNode(g, s, e).cur = g.cur
        /\ CopyNode(g, s, e).id = g.id
        /\ CopyNode(g, s, e).value = g.value
    BY DEF CopyNode, Shaped
  <1> QED BY <1>5, <1>6, <1>7

----------------------------------------------------------------------------
(***************************************************************************)
(* What the heap satisfies.  Slotted: the entry in each of the first N     *)
(* slots but gap has an id that leads back to the slot.  Gap: the same of  *)
(* a heap in which slot s waits for e, as it does within the loops.        *)
(***************************************************************************)
Slotted(g, X, n) ==
    \A t \in X : /\ g.heap[t] \in Entries
                 /\ g.id[g.heap[t]] \in 1..n-1
                 /\ g.ids[g.id[g.heap[t]]] = t

Gap(g, e, s, N, n) ==
    /\ Shaped(g, n) /\ N \in 1..n /\ s \in 0..N-1
    /\ e \in Entries /\ g.id[e] \in 1..n-1
    /\ Slotted(g, (0..N-1) \ {s}, n)
    /\ \A t \in (0..N-1) \ {s} : g.heap[t] # e /\ g.id[g.heap[t]] # g.id[e]
    /\ \A f \in Entries : g.id[f] > 0 =>
          f = e \/ \E t \in (0..N-1) \ {s} : g.heap[t] = f

Full(g, N, n) ==
    /\ Shaped(g, n) /\ N \in 0..n
    /\ Slotted(g, 0..N-1, n)
    /\ \A f \in Entries : g.id[f] > 0 => \E t \in 0..N-1 : g.heap[t] = f

\* The entry in slot t is no earlier than the one in slot r.
After(g, r, t) == g.value[g.heap[r]] <= g.value[g.heap[t]]

Ordered(g, N) == \A t \in 0..N-1 : t # 0 => After(g, Parent(t), t)

GapOrdered(g, s, N) ==
    /\ \A t \in 0..N-1 : t # 0 /\ t # s /\ Parent(t) # s => After(g, Parent(t), t)
    /\ s # 0 => \A t \in 0..N-1 :
          t # 0 /\ Parent(t) = s => After(g, Parent(s), t)

\* The value waiting fits above the gap's children, or below its parent.
FitsAbove(g, e, s, N) ==
    \A t \in 0..N-1 : t # 0 /\ Parent(t) = s /\ t # s => g.value[e] <= g.value[g.heap[t]]
FitsBelow(g, e, s) == s # 0 => g.value[g.heap[Parent(s)]] <= g.value[e]

\* What the loops leave alone: every field but the slots and the ids of the
\* entries in the heap.
Frame(g, k, n) ==
    /\ k.free = g.free /\ k.cur = g.cur /\ k.id = g.id /\ k.value = g.value
    /\ \A i \in 0..n-1 :
          (\A f \in Entries : g.id[f] > 0 => g.id[f] # i) => k.ids[i] = g.ids[i]

LEMMA FrameTrans ==
    ASSUME NEW n \in Nat, NEW g, NEW k, NEW j, Frame(g, k, n), Frame(k, j, n)
    PROVE  Frame(g, j, n)
  BY DEF Frame

LEMMA MoveGapKeeps ==
    ASSUME NEW n \in Nat, NEW N \in Nat, NEW g, NEW e, NEW s,
           Gap(g, e, s, N, n), NEW t \in 0..N-1, t # s
    PROVE  LET k == CopyNode(g, s, g.heap[t])
           IN  /\ Gap(k, e, t, N, n) /\ Frame(g, k, n)
               /\ k.heap = [g.heap EXCEPT ![s] = g.heap[t]]
  <1> DEFINE k == CopyNode(g, s, g.heap[t])
  <1>1. /\ g.heap[t] \in Entries /\ g.id[g.heap[t]] \in 1..n-1 /\ s \in 0..n-1
        /\ Shaped(g, n)
    BY DEF Gap, Slotted
  <1>2. /\ Shaped(k, n)
        /\ k.heap = [g.heap EXCEPT ![s] = g.heap[t]]
        /\ k.ids = [g.ids EXCEPT ![g.id[g.heap[t]]] = s]
        /\ k.free = g.free /\ k.cur = g.cur /\ k.id = g.id /\ k.value = g.value
    BY <1>1, CopyNodeIs
  <1> HIDE DEF k
  <1>3. /\ g.heap \in [0..n-1 -> Entries \cup {None}] /\ g.ids \in [0..n-1 -> Int]
    BY <1>1 DEF Shaped
  <1>4. Frame(g, k, n)
    BY SMTT(30), <1>1, <1>2, <1>3 DEF Frame
  <1>5. \A u \in (0..N-1) \ {t} : k.heap[u] = IF u = s THEN g.heap[t] ELSE g.heap[u]
    BY <1>2, <1>3 DEF Gap
  <1>6. \A u \in (0..N-1) \ {t} : u # s => g.id[g.heap[u]] # g.id[g.heap[t]]
    BY DEF Gap, Slotted
  <1>7. Slotted(k, (0..N-1) \ {t}, n)
    <2> SUFFICES ASSUME NEW u \in (0..N-1) \ {t}
                 PROVE  /\ k.heap[u] \in Entries
                        /\ k.id[k.heap[u]] \in 1..n-1
                        /\ k.ids[k.id[k.heap[u]]] = u
      BY DEF Slotted
    <2>1. CASE u = s
      BY SMTT(30), <2>1, <1>1, <1>2, <1>3, <1>5
    <2>2. CASE u # s
      <3>1. /\ g.heap[u] \in Entries /\ g.id[g.heap[u]] \in 1..n-1
            /\ g.ids[g.id[g.heap[u]]] = u
        BY <2>2 DEF Gap, Slotted
      <3>2. k.heap[u] = g.heap[u] /\ k.id[k.heap[u]] = g.id[g.heap[u]]
        BY <2>2, <1>2, <1>5
      <3>3. g.id[g.heap[u]] # g.id[g.heap[t]]
        BY <2>2, <1>6
      <3>4. k.ids[g.id[g.heap[u]]] = g.ids[g.id[g.heap[u]]]
        BY <3>1, <3>3, <1>2, <1>3
      <3> QED BY <3>1, <3>2, <3>4
    <2> QED BY <2>1, <2>2
  <1>8. \A u \in (0..N-1) \ {t} : k.heap[u] # e /\ k.id[k.heap[u]] # k.id[e]
    BY <1>2, <1>5 DEF Gap
  <1>9. \A f \in Entries : k.id[f] > 0 =>
          f = e \/ \E u \in (0..N-1) \ {t} : k.heap[u] = f
    <2> SUFFICES ASSUME NEW f \in Entries, g.id[f] > 0, f # e
                 PROVE  \E u \in (0..N-1) \ {t} : k.heap[u] = f
      BY <1>2
    <2>1. PICK u \in (0..N-1) \ {s} : g.heap[u] = f
      BY DEF Gap
    <2>2. CASE u = t
      BY <2>1, <2>2, <1>5 DEF Gap
    <2>3. CASE u # t
      BY <2>1, <2>3, <1>5
    <2> QED BY <2>2, <2>3
  <1>10. Gap(k, e, t, N, n)
    BY <1>2, <1>7, <1>8, <1>9 DEF Gap
  <1> QED BY <1>2, <1>4, <1>10 DEF k

\* Filling the gap from its parent, which is later than what waits.
LEMMA MoveUpOrder ==
    ASSUME NEW n \in Nat, NEW N \in Nat, NEW g, NEW e, NEW s,
           Gap(g, e, s, N, n), GapOrdered(g, s, N), FitsAbove(g, e, s, N),
           s # 0, g.value[e] < g.value[g.heap[Parent(s)]]
    PROVE  LET k == CopyNode(g, s, g.heap[Parent(s)])
           IN  GapOrdered(k, Parent(s), N) /\ FitsAbove(k, e, Parent(s), N)
  <1> DEFINE p == Parent(s)
             k == CopyNode(g, s, g.heap[p])
             v(t) == g.value[g.heap[t]]
             w(t) == k.value[k.heap[t]]
  <1>1. s \in Nat /\ s \in 0..N-1 /\ p \in 0..N-1 /\ p < s
    BY Tree DEF Gap
  <1>2. k.heap = [g.heap EXCEPT ![s] = g.heap[p]] /\ k.value = g.value
    BY <1>1, MoveGapKeeps DEF Frame
  <1>3. g.heap \in [0..n-1 -> Entries \cup {None}] /\ N <= n
    BY DEF Gap, Shaped
  <1>4. \A t \in 0..N-1 : w(t) = IF t = s THEN v(p) ELSE v(t)
    BY <1>1, <1>2, <1>3
  <1>5. \A t \in 0..N-1 : t # s => v(t) \in Nat
    BY DEF Gap, Shaped, Slotted
  <1>6. g.value[e] \in Nat
    BY DEF Gap, Shaped
  <1>7. \A t \in 0..N-1 : t # 0 => Parent(t) \in 0..N-1 /\ Parent(t) < t
    BY Tree
  <1>8. /\ \A t \in 0..N-1 : t # 0 /\ t # s /\ Parent(t) # s => v(Parent(t)) <= v(t)
        /\ \A t \in 0..N-1 : t # 0 /\ Parent(t) = s => v(p) <= v(t)
    BY DEF GapOrdered, After
  <1> HIDE DEF k
  <1>9. GapOrdered(k, p, N)
    <2>1. ASSUME NEW t \in 0..N-1, t # 0, t # p, Parent(t) # p
          PROVE  w(Parent(t)) <= w(t)
      <3>1. t # s
        BY <2>1
      <3>2. CASE Parent(t) = s
        BY <2>1, <3>1, <3>2, <1>1, <1>4, <1>8
      <3>3. CASE Parent(t) # s
        BY <2>1, <3>1, <3>3, <1>4, <1>7, <1>8
      <3> QED BY <3>2, <3>3
    <2>2. ASSUME p # 0, NEW t \in 0..N-1, t # 0, Parent(t) = p
          PROVE  w(Parent(p)) <= w(t)
      <3>1. Parent(p) # s /\ Parent(p) \in 0..N-1 /\ Parent(p) # p
        BY <2>2, <1>1, <1>7
      <3>2. v(Parent(p)) <= v(p)
        BY <2>2, <3>1, <1>1, <1>8
      <3>3. t # p
        BY <2>2, <1>7, <1>1
      <3>4. v(p) <= w(t)
        <4>1. CASE t = s
          BY <4>1, <1>1, <1>4, <1>5
        <4>2. CASE t # s
          <5>1. Parent(t) # s
            BY <2>2, <1>1
          <5> QED BY <2>2, <4>2, <5>1, <1>4, <1>8
        <4> QED BY <4>1, <4>2
      <3>5. w(Parent(p)) = v(Parent(p))
        BY <3>1, <1>4
      <3>6. w(t) \in Nat /\ v(p) \in Nat /\ v(Parent(p)) \in Nat
        BY <3>1, <1>1, <1>4, <1>5
      <3> QED BY <3>2, <3>4, <3>5, <3>6
    <2> QED BY <2>1, <2>2 DEF GapOrdered, After
  <1>10. FitsAbove(k, e, p, N)
    <2> SUFFICES ASSUME NEW t \in 0..N-1, t # 0, Parent(t) = p, t # p
                 PROVE  g.value[e] <= w(t)
      BY <1>2 DEF FitsAbove
    <2>1. CASE t = s
      BY <2>1, <1>1, <1>4, <1>5, <1>6
    <2>2. CASE t # s
      <3>1. v(p) <= v(t)
        BY <2>2, <1>1, <1>8
      <3> QED BY <2>2, <3>1, <1>1, <1>4, <1>5, <1>6
    <2> QED BY <2>1, <2>2
  <1> QED BY <1>9, <1>10 DEF k

\* Filling it from the earlier child, which is earlier than what waits.
LEMMA MoveDownOrder ==
    ASSUME NEW n \in Nat, NEW N \in Nat, NEW g, NEW e, NEW s,
           Gap(g, e, s, N, n), g.cur = N, GapOrdered(g, s, N), FitsBelow(g, e, s),
           Left(s) < N, g.value[g.heap[EarlierChild(g, s)]] < g.value[e]
    PROVE  LET c == EarlierChild(g, s)
               k == CopyNode(g, s, g.heap[c])
           IN  /\ c \in 0..N-1 /\ c > s /\ c # 0 /\ Parent(c) = s
               /\ GapOrdered(k, c, N) /\ FitsBelow(k, e, c)
  <1> DEFINE c == EarlierChild(g, s)
             k == CopyNode(g, s, g.heap[c])
             v(t) == g.value[g.heap[t]]
             w(t) == k.value[k.heap[t]]
  <1>1. s \in Nat /\ s \in 0..N-1
    BY DEF Gap
  <1>2. c \in 0..N-1 /\ c > s /\ c # 0 /\ Parent(c) = s /\ (c = Left(s) \/ c = Left(s) + 1)
    <2>1. c = Left(s) \/ (c = Left(s) + 1 /\ Left(s) + 1 < N)
      BY DEF EarlierChild
    <2>2. Left(s) \in Nat /\ Left(s) > s
      BY <1>1, Tree
    <2> HIDE DEF c
    <2>3. c \in Nat /\ c > s /\ c # 0 /\ c \in 0..N-1
      BY <1>1, <2>1, <2>2
    <2> QED BY <1>1, <2>1, <2>3, Tree
  <1>3. \A t \in 0..N-1 : t # s => v(t) \in Nat
    BY DEF Gap, Shaped, Slotted
  <1>4. \A t \in 0..N-1 : t # 0 => Parent(t) \in 0..N-1 /\ Parent(t) < t
    BY Tree
  <1>5. \A t \in 0..N-1 : t # 0 /\ Parent(t) = s => v(c) <= v(t)
    <2>1. \A t \in 0..N-1 : t # 0 /\ Parent(t) = s => t = Left(s) \/ t = Left(s) + 1
      BY <1>1, Tree
    <2>2. Left(s) \in Nat /\ Left(s) > s
      BY <1>1, Tree
    <2>3. v(Left(s)) \in Nat
      BY <2>2, <1>1, <1>3
    <2>4. Left(s) + 1 < N => v(Left(s) + 1) \in Nat
      BY <2>2, <1>1, <1>3
    <2>5. v(c) <= v(Left(s)) /\ (Left(s) + 1 < N => v(c) <= v(Left(s) + 1))
      BY <2>2, <2>3, <2>4 DEF EarlierChild
    <2> QED BY <2>1, <2>2, <2>5
  <1> HIDE DEF c
  <1>6. k.heap = [g.heap EXCEPT ![s] = g.heap[c]] /\ k.value = g.value
    BY <1>1, <1>2, MoveGapKeeps DEF Frame
  <1>7. g.heap \in [0..n-1 -> Entries \cup {None}] /\ N <= n
    BY DEF Gap, Shaped
  <1>8. \A t \in 0..N-1 : w(t) = IF t = s THEN v(c) ELSE v(t)
    BY <1>1, <1>6, <1>7
  <1>9. g.value[e] \in Nat
    BY DEF Gap, Shaped
  <1>10. /\ \A t \in 0..N-1 : t # 0 /\ t # s /\ Parent(t) # s => v(Parent(t)) <= v(t)
         /\ s # 0 => \A t \in 0..N-1 : t # 0 /\ Parent(t) = s => v(Parent(s)) <= v(t)
    BY DEF GapOrdered, After
  <1> HIDE DEF k
  <1>11. GapOrdered(k, c, N)
    <2>1. ASSUME NEW t \in 0..N-1, t # 0, t # c, Parent(t) # c
          PROVE  w(Parent(t)) <= w(t)
      <3>1. CASE t = s
        <4>1. Parent(s) # s /\ Parent(s) \in 0..N-1
          BY <2>1, <3>1, <1>4
        <4> QED BY <2>1, <3>1, <4>1, <1>2, <1>8, <1>10
      <3>2. CASE t # s /\ Parent(t) = s
        BY <2>1, <3>2, <1>1, <1>5, <1>8
      <3>3. CASE t # s /\ Parent(t) # s
        BY <2>1, <3>3, <1>4, <1>8, <1>10
      <3> QED BY <3>1, <3>2, <3>3
    <2>2. ASSUME NEW t \in 0..N-1, t # 0, Parent(t) = c
          PROVE  w(Parent(c)) <= w(t)
      <3>1. t # s /\ t # c /\ Parent(t) # s
        BY <2>2, <1>2, <1>4
      <3>2. v(c) <= v(t)
        BY <2>2, <3>1, <1>10
      <3> QED BY <2>2, <3>1, <3>2, <1>1, <1>2, <1>8
    <2> QED BY <2>1, <2>2 DEF GapOrdered, After
  <1>12. FitsBelow(k, e, c)
    <2>1. w(s) = v(c) /\ v(c) < g.value[e] /\ v(c) \in Nat
      BY <1>1, <1>2, <1>3, <1>8 DEF c
    <2> QED BY <2>1, <1>2, <1>6, <1>9 DEF FitsBelow
  <1> QED BY <1>2, <1>11, <1>12 DEF k, c

LEMMA UpTurnKeeps ==
    ASSUME NEW n \in Nat, NEW N \in Nat, NEW e, NEW g, NEW s,
           Gap(g, e, s, N, n), GapOrdered(g, s, N),
           FitsAbove(g, e, s, N)
    PROVE  LET x == UpTurn([g |-> g, s |-> s], e)
           IN  /\ x = [g |-> x.g, s |-> x.s]
               /\ Gap(x.g, e, x.s, N, n) /\ GapOrdered(x.g, x.s, N)
               /\ FitsAbove(x.g, e, x.s, N) /\ Frame(g, x.g, n)
               /\ \/ FitsBelow(g, e, s) /\ x = [g |-> g, s |-> s]
                  \/ ~FitsBelow(g, e, s) /\ x.s < s
  <1> DEFINE t == Parent(s)
             k == CopyNode(g, s, g.heap[t])
  <1>1. s \in Nat /\ s \in 0..N-1
    BY DEF Gap
  <1>2. /\ \A r \in 0..N-1 : r # s => g.value[g.heap[r]] \in Nat
        /\ g.value[e] \in Nat
    BY DEF Gap, Shaped, Slotted
  <1>3. CASE s # 0 /\ g.value[e] < g.value[g.heap[Parent(s)]]
    <2>1. UpTurn([g |-> g, s |-> s], e) = [g |-> k, s |-> t]
      BY <1>1, <1>3 DEF UpTurn, MoveGap
    <2>2. t \in 0..N-1 /\ t < s
      BY <1>1, <1>3, Tree
    <2>3. GapOrdered(k, t, N) /\ FitsAbove(k, e, t, N)
      BY <1>3, MoveUpOrder
    <2>4. ~FitsBelow(g, e, s)
      BY <1>1, <1>2, <1>3, <2>2 DEF FitsAbove, FitsBelow
    <2> HIDE DEF t
    <2>5. t # s
      BY <1>1, <2>2
    <2>6. Gap(k, e, t, N, n) /\ Frame(g, k, n)
      BY <2>2, <2>5, MoveGapKeeps
    <2> HIDE DEF k
    <2> QED BY <2>1, <2>2, <2>3, <2>4, <2>6
  <1>4. CASE ~(s # 0 /\ g.value[e] < g.value[g.heap[Parent(s)]])
    <2>1. UpTurn([g |-> g, s |-> s], e) = [g |-> g, s |-> s]
      BY <1>1, <1>4 DEF UpTurn
    <2>2. FitsBelow(g, e, s)
      <3>1. s # 0 => Parent(s) \in 0..N-1 /\ Parent(s) # s
        BY SMTT(30), <1>1, Tree
      <3> QED BY <1>1, <1>2, <1>4, <3>1 DEF FitsBelow
    <2>3. Frame(g, g, n)
      BY DEF Frame
    <2> QED BY <2>1, <2>2, <2>3
  <1> QED BY <1>3, <1>4

LEMMA UpLoopKeeps ==
    ASSUME NEW n \in Nat, NEW N \in Nat, NEW g, NEW e, NEW s,
           Gap(g, e, s, N, n), GapOrdered(g, s, N), FitsAbove(g, e, s, N)
    PROVE  LET w == UpTurns(g, e, s)[s]
           IN  /\ Gap(w.g, e, w.s, N, n) /\ GapOrdered(w.g, w.s, N)
               /\ FitsAbove(w.g, e, w.s, N) /\ FitsBelow(w.g, e, w.s)
               /\ Frame(g, w.g, n)
  <1> DEFINE u == UpTurns(g, e, s)
             Good(w) == /\ w = [g |-> w.g, s |-> w.s]
                        /\ Gap(w.g, e, w.s, N, n) /\ GapOrdered(w.g, w.s, N)
                        /\ FitsAbove(w.g, e, w.s, N) /\ Frame(g, w.g, n)
             Done(w) == FitsBelow(w.g, e, w.s)
             Far(w, m) == w.s + m <= s
             P(m) == Good(u[m]) /\ (Done(u[m]) \/ Far(u[m], m))
             T == {m \in Nat : m <= s => P(m)}
  <1>1. s \in Nat /\ s \in 0..N-1
    BY DEF Gap
  <1>2. /\ u[0] = [g |-> g, s |-> s]
        /\ \A m \in 1..s : u[m] = UpTurn(u[m - 1], e)
    BY <1>1, UpTurnsRun
  <1> HIDE DEF u
  <1>3. 0 \in T
    <2>1. Frame(g, g, n)
      BY DEF Frame
    <2> QED BY <2>1, <1>1, <1>2
  <1>4. ASSUME NEW m \in Nat, m \in T PROVE m + 1 \in T
    <2> SUFFICES ASSUME m + 1 <= s PROVE P(m + 1)
      OBVIOUS
    <2>1. P(m) /\ u[m + 1] = UpTurn(u[m], e)
      BY <1>1, <1>2, <1>4
    <2> DEFINE w == u[m]
               x == u[m + 1]
    <2> HIDE DEF w, x
    <2>2. Good(w) /\ (Done(w) \/ Far(w, m)) /\ x = UpTurn(w, e)
      BY <2>1 DEF w, x
    <2>3. /\ x = [g |-> x.g, s |-> x.s]
          /\ Gap(x.g, e, x.s, N, n) /\ GapOrdered(x.g, x.s, N)
          /\ FitsAbove(x.g, e, x.s, N) /\ Frame(w.g, x.g, n)
          /\ \/ Done(w) /\ x = w
             \/ ~Done(w) /\ x.s < w.s
      <3> DEFINE g1 == w.g
                 s1 == w.s
      <3>1. /\ Gap(g1, e, s1, N, n) /\ GapOrdered(g1, s1, N) /\ FitsAbove(g1, e, s1, N)
            /\ x = UpTurn([g |-> g1, s |-> s1], e) /\ w = [g |-> g1, s |-> s1]
        BY <2>2
      <3> HIDE DEF g1, s1
      <3>2. /\ x = [g |-> x.g, s |-> x.s]
            /\ Gap(x.g, e, x.s, N, n) /\ GapOrdered(x.g, x.s, N)
            /\ FitsAbove(x.g, e, x.s, N) /\ Frame(g1, x.g, n)
            /\ \/ FitsBelow(g1, e, s1) /\ x = [g |-> g1, s |-> s1]
               \/ ~FitsBelow(g1, e, s1) /\ x.s < s1
        BY <3>1, UpTurnKeeps
      <3> QED BY <3>1, <3>2 DEF g1, s1
    <2>4. Frame(g, x.g, n)
      BY <2>2, <2>3, FrameTrans
    <2>5. Done(x) \/ Far(x, m + 1)
      <3>1. x.s \in Nat /\ w.s \in Nat
        BY <2>2, <2>3 DEF Gap
      <3> HIDE DEF Done
      <3> QED BY <2>2, <2>3, <3>1, <1>1
    <2> QED BY <2>3, <2>4, <2>5 DEF x
  <1>5. P(s)
    <2> HIDE DEF T
    <2>1. s \in T
      BY <1>1, <1>3, <1>4, Induct
    <2> QED BY <2>1, <1>1 DEF T
  <1>6. Done(u[s])
    <2>1. u[s].s \in 0..N-1
      BY <1>5 DEF Gap
    <2> QED BY <1>1, <1>5, <2>1 DEF FitsBelow
  <1> QED BY <1>5, <1>6 DEF u

LEMMA DownTurnKeeps ==
    ASSUME NEW n \in Nat, NEW N \in Nat, NEW e, NEW g, NEW s,
           Gap(g, e, s, N, n), GapOrdered(g, s, N),
           FitsBelow(g, e, s), g.cur = N
    PROVE  LET x == DownTurn([g |-> g, s |-> s], e)
           IN  /\ x = [g |-> x.g, s |-> x.s]
               /\ Gap(x.g, e, x.s, N, n) /\ GapOrdered(x.g, x.s, N)
               /\ FitsBelow(x.g, e, x.s) /\ Frame(g, x.g, n)
               /\ \/ FitsAbove(g, e, s, N) /\ x = [g |-> g, s |-> s]
                  \/ ~FitsAbove(g, e, s, N) /\ x.s > s
  <1> DEFINE t == EarlierChild(g, s)
             k == CopyNode(g, s, g.heap[t])
  <1>1. s \in Nat /\ s \in 0..N-1
    BY DEF Gap
  <1>2. /\ \A r \in 0..N-1 : r # s => g.value[g.heap[r]] \in Nat
        /\ g.value[e] \in Nat
    BY DEF Gap, Shaped, Slotted
  <1>3. CASE Left(s) < N /\ g.value[g.heap[EarlierChild(g, s)]] < g.value[e]
    <2>1. DownTurn([g |-> g, s |-> s], e) = [g |-> k, s |-> t]
      BY <1>1, <1>3 DEF DownTurn, MoveGap
    <2>2. t \in 0..N-1 /\ t > s /\ t # 0 /\ Parent(t) = s
      BY <1>1, <1>3, MoveDownOrder
    <2>3. GapOrdered(k, t, N) /\ FitsBelow(k, e, t)
      BY <1>3, MoveDownOrder
    <2>4. ~FitsAbove(g, e, s, N)
      BY <1>1, <1>2, <1>3, <2>2 DEF FitsAbove, FitsBelow
    <2> HIDE DEF t
    <2>5. t # s
      BY <1>1, <2>2
    <2>6. Gap(k, e, t, N, n) /\ Frame(g, k, n)
      BY <2>2, <2>5, MoveGapKeeps
    <2> HIDE DEF k
    <2> QED BY <2>1, <2>2, <2>3, <2>4, <2>6
  <1>4. CASE ~(Left(s) < N /\ g.value[g.heap[EarlierChild(g, s)]] < g.value[e])
    <2>1. DownTurn([g |-> g, s |-> s], e) = [g |-> g, s |-> s]
      BY <1>1, <1>4 DEF DownTurn
    <2>2. FitsAbove(g, e, s, N)
      <3>1. \A r \in 0..N-1 : r # 0 /\ Parent(r) = s => r = Left(s) \/ r = Left(s) + 1
        BY <1>1, Tree
      <3>2. Left(s) \in Nat /\ Left(s) > s
        BY <1>1, Tree
      <3>3. CASE Left(s) < N
        <4>1. /\ g.value[g.heap[Left(s)]] \in Nat
              /\ Left(s) + 1 < N => g.value[g.heap[Left(s) + 1]] \in Nat
          BY <1>1, <1>2, <3>2, <3>3
        <4> QED BY <1>1, <1>2, <1>4, <3>1, <3>2, <3>3, <4>1 DEF FitsAbove, EarlierChild
      <3>4. CASE ~(Left(s) < N)
        BY <1>1, <3>1, <3>2, <3>4 DEF FitsAbove
      <3> QED BY <3>3, <3>4
    <2>3. Frame(g, g, n)
      BY DEF Frame
    <2> QED BY <2>1, <2>2, <2>3
  <1> QED BY <1>3, <1>4

LEMMA DownLoopKeeps ==
    ASSUME NEW n \in Nat, NEW N \in Nat, NEW g, NEW e, NEW s,
           Gap(g, e, s, N, n), GapOrdered(g, s, N), g.cur = N, FitsBelow(g, e, s)
    PROVE  LET w == DownTurns(g, e, s)[g.cur]
           IN  /\ Gap(w.g, e, w.s, N, n) /\ GapOrdered(w.g, w.s, N)
               /\ FitsAbove(w.g, e, w.s, N) /\ FitsBelow(w.g, e, w.s)
               /\ Frame(g, w.g, n)
  <1> DEFINE u == DownTurns(g, e, s)
             Good(w) == /\ w = [g |-> w.g, s |-> w.s]
                        /\ Gap(w.g, e, w.s, N, n) /\ GapOrdered(w.g, w.s, N)
                        /\ FitsBelow(w.g, e, w.s) /\ Frame(g, w.g, n)
             Done(w) == FitsAbove(w.g, e, w.s, N)
             Far(w, m) == w.s >= m
             P(m) == Good(u[m]) /\ (Done(u[m]) \/ Far(u[m], m))
             T == {m \in Nat : m <= g.cur => P(m)}
  <1>1. s \in Nat /\ s \in 0..N-1
    BY DEF Gap
  <1>2. /\ u[0] = [g |-> g, s |-> s]
        /\ \A m \in 1..g.cur : u[m] = DownTurn(u[m - 1], e)
    BY <1>1, DownTurnsRun
  <1> HIDE DEF u
  <1>3. 0 \in T
    <2>1. Frame(g, g, n)
      BY DEF Frame
    <2> QED BY <2>1, <1>1, <1>2
  <1>4. ASSUME NEW m \in Nat, m \in T PROVE m + 1 \in T
    <2> SUFFICES ASSUME m + 1 <= g.cur PROVE P(m + 1)
      OBVIOUS
    <2>1. P(m) /\ u[m + 1] = DownTurn(u[m], e)
      BY <1>1, <1>2, <1>4
    <2> DEFINE w == u[m]
               x == u[m + 1]
    <2> HIDE DEF w, x
    <2>2. Good(w) /\ (Done(w) \/ Far(w, m)) /\ x = DownTurn(w, e)
      BY <2>1 DEF w, x
    <2>3. /\ x = [g |-> x.g, s |-> x.s]
          /\ Gap(x.g, e, x.s, N, n) /\ GapOrdered(x.g, x.s, N)
          /\ FitsBelow(x.g, e, x.s) /\ Frame(w.g, x.g, n)
          /\ \/ Done(w) /\ x = w
             \/ ~Done(w) /\ x.s > w.s
      <3> DEFINE g1 == w.g
                 s1 == w.s
      <3>1. /\ Gap(g1, e, s1, N, n) /\ GapOrdered(g1, s1, N) /\ FitsBelow(g1, e, s1) /\ g1.cur = N
            /\ x = DownTurn([g |-> g1, s |-> s1], e) /\ w = [g |-> g1, s |-> s1]
        BY <2>2 DEF Frame
      <3> HIDE DEF g1, s1
      <3>2. /\ x = [g |-> x.g, s |-> x.s]
            /\ Gap(x.g, e, x.s, N, n) /\ GapOrdered(x.g, x.s, N)
            /\ FitsBelow(x.g, e, x.s) /\ Frame(g1, x.g, n)
            /\ \/ FitsAbove(g1, e, s1, N) /\ x = [g |-> g1, s |-> s1]
               \/ ~FitsAbove(g1, e, s1, N) /\ x.s > s1
        BY <3>1, DownTurnKeeps
      <3> QED BY <3>1, <3>2 DEF g1, s1
    <2>4. Frame(g, x.g, n)
      BY <2>2, <2>3, FrameTrans
    <2>5. Done(x) \/ Far(x, m + 1)
      <3>1. x.s \in Nat /\ w.s \in Nat
        BY <2>2, <2>3 DEF Gap
      <3> HIDE DEF Done
      <3> QED BY <2>2, <2>3, <3>1, <1>1
    <2> QED BY <2>3, <2>4, <2>5 DEF x
  <1>5. P(g.cur)
    <2> HIDE DEF T
    <2>1. g.cur \in T
      BY <1>1, <1>3, <1>4, Induct
    <2> QED BY <2>1, <1>1 DEF T
  <1>6. Done(u[g.cur])
    <2>1. u[g.cur].s \in 0..N-1
      BY <1>5 DEF Gap
    <2> QED BY <1>1, <1>5, <2>1 DEF FitsBelow
  <1> QED BY <1>5, <1>6 DEF u

\* Placing the waiting entry where it fits.
LEMMA PlaceKeeps ==
    ASSUME NEW n \in Nat, NEW N \in Nat, NEW g, NEW e, NEW s,
           Gap(g, e, s, N, n), GapOrdered(g, s, N),
           FitsAbove(g, e, s, N), FitsBelow(g, e, s)
    PROVE  LET k == CopyNode(g, s, e)
           IN  Full(k, N, n) /\ Ordered(k, N) /\ Frame(g, k, n)
  <1> DEFINE k == CopyNode(g, s, e)
  <1>1. /\ s \in Nat /\ s \in 0..N-1 /\ N \in 1..n /\ e \in Entries /\ g.id[e] \in 1..n-1
        /\ Shaped(g, n) /\ s \in 0..n-1
    BY DEF Gap
  <1>2. /\ Shaped(k, n)
        /\ k.heap = [g.heap EXCEPT ![s] = e]
        /\ k.ids = [g.ids EXCEPT ![g.id[e]] = s]
        /\ k.free = g.free /\ k.cur = g.cur /\ k.id = g.id /\ k.value = g.value
    BY <1>1, CopyNodeIs
  <1> HIDE DEF k
  <1>3. /\ g.heap \in [0..n-1 -> Entries \cup {None}] /\ g.ids \in [0..n-1 -> Int]
        /\ g.value \in [Entries -> Nat]
    BY <1>1 DEF Shaped
  <1>4. \A t \in 0..N-1 : k.heap[t] = IF t = s THEN e ELSE g.heap[t]
    BY <1>1, <1>2, <1>3
  <1>5. \A t \in (0..N-1) \ {s} :
           /\ g.heap[t] \in Entries /\ g.id[g.heap[t]] \in 1..n-1
           /\ g.ids[g.id[g.heap[t]]] = t /\ g.id[g.heap[t]] # g.id[e]
    BY DEF Gap, Slotted
  <1>6. Slotted(k, 0..N-1, n)
    <2> SUFFICES ASSUME NEW t \in 0..N-1
                 PROVE  /\ k.heap[t] \in Entries
                        /\ k.id[k.heap[t]] \in 1..n-1
                        /\ k.ids[k.id[k.heap[t]]] = t
      BY DEF Slotted
    <2>1. CASE t = s
      BY SMTT(30), <2>1, <1>1, <1>2, <1>3, <1>4
    <2>2. CASE t # s
      <3>1. k.heap[t] = g.heap[t] /\ k.id[k.heap[t]] = g.id[g.heap[t]]
        BY <2>2, <1>2, <1>4
      <3>2. k.ids[g.id[g.heap[t]]] = g.ids[g.id[g.heap[t]]]
        BY SMTT(30), <2>2, <1>2, <1>3, <1>5
      <3> QED BY <2>2, <3>1, <3>2, <1>5
    <2> QED BY <2>1, <2>2
  <1>7. \A f \in Entries : k.id[f] > 0 => \E t \in 0..N-1 : k.heap[t] = f
    <2> SUFFICES ASSUME NEW f \in Entries, g.id[f] > 0
                 PROVE  \E t \in 0..N-1 : k.heap[t] = f
      BY <1>2
    <2>1. f = e \/ \E t \in (0..N-1) \ {s} : g.heap[t] = f
      BY DEF Gap
    <2> QED BY <2>1, <1>1, <1>4
  <1>8. Full(k, N, n)
    BY <1>1, <1>2, <1>6, <1>7 DEF Full
  <1>9. Frame(g, k, n)
    <2>1. ASSUME NEW i \in 0..n-1, \A f \in Entries : g.id[f] > 0 => g.id[f] # i
          PROVE  k.ids[i] = g.ids[i]
      <3>1. g.id[e] # i
        BY <2>1, <1>1
      <3> QED BY <3>1, <1>2, <1>3
    <2> QED BY <2>1, <1>2 DEF Frame
  <1>10. Ordered(k, N)
    <2> SUFFICES ASSUME NEW t \in 0..N-1, t # 0
                 PROVE  k.value[k.heap[Parent(t)]] <= k.value[k.heap[t]]
      BY DEF Ordered, After
    <2>1. Parent(t) \in 0..N-1 /\ Parent(t) # t
      BY Tree
    <2>2. CASE t = s
      BY <2>1, <2>2, <1>2, <1>4 DEF FitsBelow
    <2>3. CASE t # s /\ Parent(t) = s
      BY <2>1, <2>3, <1>2, <1>4 DEF FitsAbove
    <2>4. CASE t # s /\ Parent(t) # s
      <3>1. g.value[g.heap[Parent(t)]] <= g.value[g.heap[t]]
        BY <2>4 DEF GapOrdered, After
      <3> QED BY <3>1, <2>1, <2>4, <1>2, <1>4
    <2> QED BY <2>2, <2>3, <2>4
  <1> QED BY <1>8, <1>9, <1>10 DEF k

LEMMA ReheapUpKeeps ==
    ASSUME NEW n \in Nat, NEW N \in Nat, NEW g, NEW e, NEW s,
           Gap(g, e, s, N, n), GapOrdered(g, s, N), FitsAbove(g, e, s, N)
    PROVE  LET k == ReheapUp(g, e, s)
           IN  Full(k, N, n) /\ Ordered(k, N) /\ Frame(g, k, n)
  <1> DEFINE w == UpTurns(g, e, s)[s]
             j == w.g
             r == w.s
             k == CopyNode(j, r, e)
  <1>1. /\ Gap(j, e, r, N, n) /\ GapOrdered(j, r, N)
        /\ FitsAbove(j, e, r, N) /\ FitsBelow(j, e, r)
        /\ Frame(g, j, n)
    BY UpLoopKeeps
  <1>2. ReheapUp(g, e, s) = k
    BY DEF ReheapUp
  <1> HIDE DEF j, r
  <1>3. Full(k, N, n) /\ Ordered(k, N) /\ Frame(j, k, n)
    BY <1>1, PlaceKeeps
  <1> HIDE DEF k
  <1> QED BY <1>1, <1>2, <1>3, FrameTrans

LEMMA ReheapDownKeeps ==
    ASSUME NEW n \in Nat, NEW N \in Nat, NEW g, NEW e, NEW s,
           Gap(g, e, s, N, n), g.cur = N, GapOrdered(g, s, N), FitsBelow(g, e, s)
    PROVE  LET k == ReheapDown(g, e, s)
           IN  Full(k, N, n) /\ Ordered(k, N) /\ Frame(g, k, n)
  <1> DEFINE w == DownTurns(g, e, s)[g.cur]
             j == w.g
             r == w.s
             k == CopyNode(j, r, e)
  <1>1. /\ Gap(j, e, r, N, n) /\ GapOrdered(j, r, N)
        /\ FitsAbove(j, e, r, N) /\ FitsBelow(j, e, r)
        /\ Frame(g, j, n)
    BY DownLoopKeeps
  <1>2. ReheapDown(g, e, s) = k
    BY DEF ReheapDown
  <1> HIDE DEF j, r
  <1>3. Full(k, N, n) /\ Ordered(k, N) /\ Frame(j, k, n)
    BY <1>1, PlaceKeeps
  <1> HIDE DEF k
  <1> QED BY <1>1, <1>2, <1>3, FrameTrans

----------------------------------------------------------------------------
(***************************************************************************)
(* The free list: c[0] is its head, c[m] lies one past the end of the      *)
(* table, and the ids in between are those that no entry in the heap has.  *)
(***************************************************************************)
InUse(g, i) == \E f \in Entries : g.id[f] > 0 /\ g.id[f] = i

Chain(g, n, m, c) ==
    /\ c \in [0..m -> 1..n]
    /\ c[0] = g.free /\ c[m] = n
    /\ \A i \in 0..m-1 : c[i] \in 1..n-1 /\ g.ids[c[i]] = -c[i + 1]
    /\ \A i \in 0..m : \A j \in 0..m : c[i] = c[j] => i = j
    /\ \A k \in 1..n-1 : InUse(g, k) <=> ~\E i \in 0..m-1 : c[i] = k

LEMMA FrameKeepsChain ==
    ASSUME NEW n \in Nat, NEW m \in Nat, NEW g, NEW k, NEW c,
           Chain(g, n, m, c), Frame(g, k, n)
    PROVE  Chain(k, n, m, c)
  <1>1. k.id = g.id /\ k.free = g.free
    BY DEF Frame
  <1>2. \A i \in 0..m-1 : k.ids[c[i]] = g.ids[c[i]]
    <2> SUFFICES ASSUME NEW i \in 0..m-1 PROVE k.ids[c[i]] = g.ids[c[i]]
      OBVIOUS
    <2>1. c[i] \in 1..n-1 /\ ~InUse(g, c[i])
      BY DEF Chain
    <2>2. \A f \in Entries : g.id[f] > 0 => g.id[f] # c[i]
      BY <2>1 DEF InUse
    <2> QED BY <2>1, <2>2 DEF Frame
  <1>3. \A i \in 1..n-1 : InUse(k, i) <=> InUse(g, i)
    BY <1>1 DEF InUse
  <1> QED BY <1>1, <1>2, <1>3 DEF Chain

----------------------------------------------------------------------------
(***************************************************************************)
(* remove_node: the entry's id goes to the free list, and the last entry   *)
(* takes its slot.                                                         *)
(***************************************************************************)
Sound(g, n) ==
    /\ Full(g, g.cur, n) /\ Ordered(g, g.cur)
    /\ g.cur + 2 <= n /\ g.ids[0] < 0
    /\ \E c : Chain(g, n, n - 1 - g.cur, c)

LEMMA SlotsDiffer ==
    ASSUME NEW n \in Nat, NEW g, NEW N, Full(g, N, n)
    PROVE  \A f \in Entries : \A t \in 0..N-1 :
              g.id[f] > 0 /\ g.id[f] = g.id[g.heap[t]] => f = g.heap[t]
  BY DEF Full, Slotted

Freed(g, s) ==
    LET q == PushFreelist(g, g.id[g.heap[s]])
    IN  [q EXCEPT !.cur = @ - 1, !.id[g.heap[s]] = -1]

LEMMA FreedIs ==
    ASSUME NEW n \in Nat, NEW g, Sound(g, n), NEW s \in 0..g.cur-1
    PROVE  LET e == g.heap[s]
               r == Freed(g, s)
           IN  /\ Shaped(r, n) /\ e \in Entries /\ g.id[e] \in 1..n-1
               /\ r.heap = g.heap /\ r.ids = [g.ids EXCEPT ![g.id[e]] = -g.free]
               /\ r.free = g.id[e] /\ r.cur = g.cur - 1 /\ r.cur \in Nat
               /\ r.id = [g.id EXCEPT ![e] = -1] /\ r.value = g.value
  <1> DEFINE e == g.heap[s]
             i == g.id[e]
             a == [g EXCEPT !.ids = [g.ids EXCEPT ![i] = -g.free]]
             b == [a EXCEPT !.free = i]
             d == [b EXCEPT !.cur = b.cur - 1]
             r == [d EXCEPT !.id = [d.id EXCEPT ![e] = -1]]
  <1>1. /\ e \in Entries /\ i \in 1..n-1 /\ Shaped(g, n)
        /\ g.cur \in Nat /\ g.free \in Nat /\ g.cur - 1 \in Nat
    <2>1. Shaped(g, n) /\ g.cur \in Nat /\ g.free \in Nat
      BY DEF Sound, Full, Shaped
    <2>2. e \in Entries /\ i \in 1..n-1
      BY DEF Sound, Full, Slotted
    <2> QED BY <2>1, <2>2
  <1> HIDE DEF e, i
  <1>2. Shaped(a, n) /\ a.heap = g.heap /\ a.ids = [g.ids EXCEPT ![i] = -g.free]
        /\ a.cur = g.cur /\ a.id = g.id /\ a.value = g.value
    <2>1. [g.ids EXCEPT ![i] = -g.free] \in [0..n-1 -> Int]
      BY <1>1 DEF Shaped
    <2>2. Shaped(a, n)
      BY <1>1, <2>1, SetIds
    <2> QED BY <1>1, <2>2 DEF Shaped
  <1> HIDE DEF a
  <1>3. Shaped(b, n) /\ b.heap = a.heap /\ b.ids = a.ids /\ b.free = i
        /\ b.cur = a.cur /\ b.id = a.id /\ b.value = a.value
    <2>1. i \in Nat
      BY <1>1
    <2>2. Shaped(b, n)
      BY <1>2, <2>1, SetFree
    <2> QED BY <1>2, <2>2 DEF Shaped
  <1> HIDE DEF b
  <1>4. Shaped(d, n) /\ d.heap = b.heap /\ d.ids = b.ids /\ d.free = b.free
        /\ d.cur = g.cur - 1 /\ d.id = b.id /\ d.value = b.value
    <2>1. Shaped(d, n)
      BY <1>1, <1>2, <1>3, SetCur
    <2> QED BY <1>1, <1>2, <1>3, <2>1 DEF Shaped
  <1> HIDE DEF d
  <1>5. Shaped(r, n) /\ r.heap = d.heap /\ r.ids = d.ids /\ r.free = d.free
        /\ r.cur = d.cur /\ r.id = [d.id EXCEPT ![e] = -1] /\ r.value = d.value
    <2>1. [d.id EXCEPT ![e] = -1] \in [Entries -> Int]
      <3>1. d.id \in [Entries -> Int]
        BY <1>4 DEF Shaped
      <3>2. -1 \in Int
        OBVIOUS
      <3> QED BY <3>1, <3>2, <1>1
    <2>2. Shaped(r, n)
      BY <1>4, <2>1, SetId
    <2> QED BY <1>4, <2>2 DEF Shaped
  <1> HIDE DEF r
  <1>6. r = Freed(g, s)
    BY DEF r, d, b, a, i, e, Freed, PushFreelist
  <1> QED BY <1>1, <1>2, <1>3, <1>4, <1>5, <1>6 DEF e, i

LEMMA FreedKeeps ==
    ASSUME NEW n \in Nat, NEW g, Sound(g, n), NEW s \in 0..g.cur-1
    PROVE  LET r == Freed(g, s)
           IN  /\ Slotted(r, (0..g.cur-1) \ {s}, n)
               /\ \A f \in Entries : r.id[f] > 0 =>
                     \E t \in (0..g.cur-1) \ {s} : r.heap[t] = f
               /\ \A t \in (0..g.cur-1) \ {s} : \A u \in (0..g.cur-1) \ {s} :
                     r.id[r.heap[t]] = r.id[r.heap[u]] => t = u
               /\ r.ids[0] < 0
               /\ \E c : Chain(r, n, n - 1 - r.cur, c)
  <1> DEFINE e == g.heap[s]
             i == g.id[e]
             r == Freed(g, s)
  <1>1. /\ Shaped(r, n) /\ e \in Entries /\ i \in 1..n-1
        /\ r.heap = g.heap /\ r.ids = [g.ids EXCEPT ![i] = -g.free]
        /\ r.free = i /\ r.cur = g.cur - 1 /\ r.cur \in Nat
        /\ r.id = [g.id EXCEPT ![e] = -1] /\ r.value = g.value
    BY FreedIs
  <1>2. /\ g.ids \in [0..n-1 -> Int] /\ g.id \in [Entries -> Int] /\ g.free \in Nat
        /\ g.cur \in Nat /\ g.cur + 2 <= n /\ g.ids[i] = s
    BY DEF Sound, Full, Slotted, Shaped
  <1> HIDE DEF r, e
  <1>2a. \A f \in Entries : r.id[f] = IF f = e THEN -1 ELSE g.id[f]
    BY <1>1, <1>2
  <1> HIDE DEF i
  <1>2b. \A x \in 0..n-1 : r.ids[x] = IF x = i THEN -g.free ELSE g.ids[x]
    BY <1>1, <1>2
  <1> USE DEF i
  <1>3. \A t \in (0..g.cur-1) \ {s} :
           /\ g.heap[t] \in Entries /\ g.id[g.heap[t]] \in 1..n-1
           /\ g.ids[g.id[g.heap[t]]] = t
    BY DEF Sound, Full, Slotted
  <1>4. \A t \in (0..g.cur-1) \ {s} : g.id[g.heap[t]] # i /\ g.heap[t] # e
    BY <1>2, <1>3
  <1>5. \A t \in (0..g.cur-1) \ {s} :
           /\ r.heap[t] = g.heap[t] /\ r.id[r.heap[t]] = g.id[g.heap[t]]
           /\ r.ids[g.id[g.heap[t]]] = g.ids[g.id[g.heap[t]]]
    <2> SUFFICES ASSUME NEW t \in (0..g.cur-1) \ {s}
                 PROVE  /\ r.heap[t] = g.heap[t] /\ r.id[r.heap[t]] = g.id[g.heap[t]]
                        /\ r.ids[g.id[g.heap[t]]] = g.ids[g.id[g.heap[t]]]
      OBVIOUS
    <2>1. r.heap[t] = g.heap[t] /\ r.id[r.heap[t]] = g.id[g.heap[t]]
      BY <1>1, <1>2a, <1>3, <1>4
    <2>2. r.ids[g.id[g.heap[t]]] = g.ids[g.id[g.heap[t]]]
      BY <1>2b, <1>3, <1>4
    <2> QED BY <2>1, <2>2
  <1>6. Slotted(r, (0..g.cur-1) \ {s}, n)
    BY <1>3, <1>5 DEF Slotted
  <1>7. \A f \in Entries : r.id[f] > 0 =>
           \E t \in (0..g.cur-1) \ {s} : r.heap[t] = f
    <2> SUFFICES ASSUME NEW f \in Entries, r.id[f] > 0
                 PROVE  \E t \in (0..g.cur-1) \ {s} : r.heap[t] = f
      OBVIOUS
    <2>1. f # e /\ g.id[f] > 0
      BY <1>1, <1>2
    <2>2. PICK t \in 0..g.cur-1 : g.heap[t] = f
      BY <2>1 DEF Sound, Full
    <2>3. t # s
      BY <2>1, <2>2 DEF e
    <2> QED BY <2>2, <2>3, <1>1
  <1>8. \A t \in (0..g.cur-1) \ {s} : \A u \in (0..g.cur-1) \ {s} :
           r.id[r.heap[t]] = r.id[r.heap[u]] => t = u
    BY <1>3, <1>5
  <1>9. r.ids[0] < 0
    <2>1. g.ids[0] < 0 /\ 0 \in 0..n-1 /\ 0 # i
      BY <1>1, <1>2 DEF Sound
    <2> QED BY <2>1, <1>2b
  <1>10. \E c : Chain(r, n, n - 1 - r.cur, c)
    <2> DEFINE m == n - 1 - g.cur
    <2>1. PICK c : Chain(g, n, m, c)
      BY DEF Sound
    <2>2. m \in Nat /\ m + 1 = n - 1 - r.cur
      BY <1>1, <1>2, SMTT(30)
    <2> HIDE DEF m
    <2>3. /\ c \in [0..m -> 1..n]
          /\ c[0] = g.free /\ c[m] = n
          /\ \A j \in 0..m-1 : c[j] \in 1..n-1 /\ g.ids[c[j]] = -c[j + 1]
          /\ \A j \in 0..m : \A k \in 0..m : c[j] = c[k] => j = k
          /\ \A k \in 1..n-1 : InUse(g, k) <=> ~\E j \in 0..m-1 : c[j] = k
      BY <2>1 DEF Chain
    <2> DEFINE b == [j \in 0..m+1 |-> IF j = 0 THEN i ELSE c[j - 1]]
    <2>4. InUse(g, i)
      BY <1>1 DEF InUse
    <2>5. \A j \in 0..m : c[j] # i
      <3>1. \A j \in 0..m-1 : c[j] # i
        BY <1>1, <2>3, <2>4
      <3>2. c[m] # i
        BY <1>1, <2>3
      <3> QED BY <3>1, <3>2, <2>2
    <2>6. \A k \in 1..n-1 : InUse(r, k) <=> InUse(g, k) /\ k # i
      <3>1. ASSUME NEW f \in Entries, g.id[f] > 0, g.id[f] = i
            PROVE  f = e
        BY <3>1, SlotsDiffer DEF e, Sound
      <3>2. \A f \in Entries : r.id[f] = IF f = e THEN -1 ELSE g.id[f]
        BY <1>2a
      <3>3. g.id[e] = i
        BY DEF e
      <3> HIDE DEF i
      <3> QED BY <3>1, <3>2, <3>3 DEF InUse
    <2> HIDE DEF i
    <2>7. /\ b \in [0..m+1 -> 1..n] /\ b[0] = i /\ b[m + 1] = n
          /\ \A j \in 0..m : b[j + 1] = c[j]
      BY SMTT(30), <1>1, <2>2, <2>3
    <2>8. \A j \in 0..m : b[j] \in 1..n-1 /\ r.ids[b[j]] = -b[j + 1]
      <3> SUFFICES ASSUME NEW j \in 0..m PROVE b[j] \in 1..n-1 /\ r.ids[b[j]] = -b[j + 1]
        OBVIOUS
      <3>1. CASE j = 0
        <4>1. b[0] = i /\ b[0 + 1] = c[0] /\ c[0] = g.free
          BY <3>1, <2>2, <2>3, <2>7
        <4>2. r.ids[i] = -g.free
          BY <1>1, <1>2b
        <4> HIDE DEF b
        <4> QED BY <3>1, <4>1, <4>2, <1>1
      <3>2. CASE j # 0
        <4>1. j - 1 \in 0..m-1 /\ (j - 1) + 1 = j /\ j - 1 \in 0..m
          BY <3>2, <2>2
        <4>2. b[j] = c[j - 1] /\ b[j + 1] = c[j]
          BY <4>1, <2>7
        <4>3. c[j - 1] \in 1..n-1 /\ g.ids[c[j - 1]] = -c[j] /\ c[j - 1] # i
          BY <4>1, <2>3, <2>5
        <4> HIDE DEF b
        <4> QED BY <4>2, <4>3, <1>2b
      <3> QED BY <3>1, <3>2
    <2>9. \A j \in 0..m+1 : j # 0 => j - 1 \in 0..m /\ b[j] = c[j - 1]
      BY <2>2
    <2> HIDE DEF b
    <2>10. \A j \in 0..m+1 : \A k \in 0..m+1 : b[j] = b[k] => j = k
      <3> SUFFICES ASSUME NEW j \in 0..m+1, NEW k \in 0..m+1, b[j] = b[k] PROVE j = k
        OBVIOUS
      <3>1. CASE j = 0 \/ k = 0
        BY <3>1, <2>5, <2>7, <2>9
      <3>2. CASE j # 0 /\ k # 0
        <4>1. j - 1 = k - 1
          BY <3>2, <2>3, <2>9
        <4> QED BY <4>1, <2>2
      <3> QED BY <3>1, <3>2
    <2>11. \A k \in 1..n-1 : InUse(r, k) <=> ~\E j \in 0..(m+1)-1 : b[j] = k
      <3> SUFFICES ASSUME NEW k \in 1..n-1
                   PROVE  InUse(r, k) <=> ~\E j \in 0..m : b[j] = k
        BY <2>2
      <3>1. ASSUME NEW j \in 0..m, b[j] = k PROVE k = i \/ \E l \in 0..m-1 : c[l] = k
        <4>1. CASE j = 0
          BY <4>1, <3>1, <2>7
        <4>2. CASE j # 0
          <5>1. j - 1 \in 0..m-1 /\ b[j] = c[j - 1]
            BY <4>2, <2>2, <2>9
          <5> QED BY <5>1, <3>1
        <4> QED BY <4>1, <4>2
      <3>2. ASSUME NEW l \in 0..m-1, c[l] = k PROVE \E j \in 0..m : b[j] = k
        <4>1. l + 1 \in 0..m /\ l \in 0..m
          BY <2>2
        <4> QED BY <4>1, <3>2, <2>7
      <3>3. 0 \in 0..m
        BY <2>2
      <3> QED BY <3>1, <3>2, <3>3, <2>3, <2>6, <2>7
    <2>12. Chain(r, n, m + 1, b)
      <3>1. (m + 1) - 1 = m
        BY <2>2
      <3> QED BY <3>1, <1>1, <2>7, <2>8, <2>10, <2>11 DEF Chain
    <2> QED BY <2>2, <2>12
  <1> QED BY <1>6, <1>7, <1>8, <1>9, <1>10 DEF r

LEMMA RemoveNodeKeeps ==
    ASSUME NEW n \in Nat, NEW g, Sound(g, n), NEW s \in 0..g.cur-1
    PROVE  LET k == RemoveNode(g, s)
           IN  /\ Sound(k, n) /\ k.cur = g.cur - 1
               /\ g.heap[s] \in Entries
               /\ k.id = [g.id EXCEPT ![g.heap[s]] = -1] /\ k.value = g.value
  <1> DEFINE e == g.heap[s]
             r == Freed(g, s)
             N == r.cur
             f == r.heap[N]
             p == CopyNode(r, s, f)
             k == RemoveNode(g, s)
  <1>1. /\ Shaped(r, n) /\ e \in Entries /\ g.id[e] \in 1..n-1
        /\ r.heap = g.heap /\ r.ids = [g.ids EXCEPT ![g.id[e]] = -g.free]
        /\ r.free = g.id[e] /\ r.cur = g.cur - 1 /\ r.cur \in Nat
        /\ r.id = [g.id EXCEPT ![e] = -1] /\ r.value = g.value
    BY FreedIs
  <1>2. /\ Slotted(r, (0..g.cur-1) \ {s}, n)
        /\ \A x \in Entries : r.id[x] > 0 =>
              \E t \in (0..g.cur-1) \ {s} : r.heap[t] = x
        /\ \A t \in (0..g.cur-1) \ {s} : \A u \in (0..g.cur-1) \ {s} :
              r.id[r.heap[t]] = r.id[r.heap[u]] => t = u
        /\ r.ids[0] < 0
        /\ \E c : Chain(r, n, n - 1 - r.cur, c)
    BY FreedKeeps
  <1>3. /\ g.cur \in Nat /\ g.cur + 2 <= n /\ Ordered(g, g.cur)
        /\ \A t \in 0..g.cur-1 : g.value[g.heap[t]] \in Nat
    BY DEF Sound, Full, Shaped, Slotted
  <1>4. k = IF s >= N THEN r
            ELSE IF p.value[f] >= p.value[p.heap[Parent(s)]]
                 THEN ReheapDown(p, f, s) ELSE ReheapUp(p, f, s)
    BY DEF RemoveNode, Freed
  <1> HIDE DEF r, k, e
  <1>5. N \in Nat /\ N + 1 = g.cur /\ s \in Nat
    BY <1>1, <1>3
  <1> SUFFICES /\ Sound(k, n) /\ k.cur = r.cur /\ k.id = r.id /\ k.value = r.value
    BY <1>1 DEF k, e
  <1>6. CASE s >= N
    <2>1. k = r /\ s = N
      BY <1>4, <1>5, <1>6
    <2>2. (0..g.cur-1) \ {s} = 0..N-1
      BY <1>5, <2>1
    <2>3. Full(r, N, n)
      <3>1. N \in 0..n
        BY <1>3, <1>5
      <3> HIDE DEF N
      <3> QED BY <3>1, <1>1, <1>2, <2>2 DEF Full
    <2>4. Ordered(r, N)
      <3> SUFFICES ASSUME NEW t \in 0..N-1, t # 0
                   PROVE  r.value[r.heap[Parent(t)]] <= r.value[r.heap[t]]
        BY DEF Ordered, After
      <3>1. t \in 0..g.cur-1
        BY <1>5
      <3> QED BY <3>1, <1>1, <1>3 DEF Ordered, After
    <2> QED BY <2>1, <2>3, <2>4, <1>1, <1>2, <1>3, <1>5 DEF Sound
  <1>7. CASE s < N
    <2>1. /\ N \in (0..g.cur-1) \ {s} /\ N \in 1..n /\ s \in 0..n-1 /\ s \in 0..N-1
      BY <1>3, <1>5, <1>7
    <2>2. f \in Entries /\ r.id[f] \in 1..n-1
      BY <2>1, <1>2 DEF Slotted
    <2> HIDE DEF f
    <2>3. /\ Shaped(p, n)
          /\ p.heap = [r.heap EXCEPT ![s] = f]
          /\ p.ids = [r.ids EXCEPT ![r.id[f]] = s]
          /\ p.free = r.free /\ p.cur = r.cur /\ p.id = r.id /\ p.value = r.value
      <3>1. r.id[f] \in 0..n-1 /\ f \in Entries
        BY <2>2
      <3>2. Shaped(r, n) /\ s \in 0..n-1
        BY <1>1, <2>1
      <3> QED BY <3>1, <3>2, CopyNodeIs, SMTT(30)
    <2> HIDE DEF p
    <2>4. /\ r.heap \in [0..n-1 -> Entries \cup {None}] /\ r.ids \in [0..n-1 -> Int]
          /\ N \in 0..n-1
      <3>1. N \in 0..n-1
        BY <1>3, <1>5
      <3>2. r.heap \in [0..n-1 -> Entries \cup {None}] /\ r.ids \in [0..n-1 -> Int]
        BY <1>1 DEF Shaped
      <3> QED BY <3>1, <3>2
    <2>5. \A t \in 0..N-1 : p.heap[t] = IF t = s THEN f ELSE r.heap[t]
      BY <2>3, <2>4
    <2>6. \A t \in (0..N-1) \ {s} :
             /\ r.heap[t] \in Entries /\ r.id[r.heap[t]] \in 1..n-1
             /\ r.ids[r.id[r.heap[t]]] = t /\ r.id[r.heap[t]] # r.id[f]
      <3> SUFFICES ASSUME NEW t \in (0..N-1) \ {s}
                   PROVE  /\ r.heap[t] \in Entries /\ r.id[r.heap[t]] \in 1..n-1
                          /\ r.ids[r.id[r.heap[t]]] = t /\ r.id[r.heap[t]] # r.id[f]
        OBVIOUS
      <3>1. t \in (0..g.cur-1) \ {s} /\ t # N
        BY <1>5
      <3> QED BY <3>1, <2>1, <1>2 DEF Slotted, f
    <2>7. Slotted(p, (0..N-1) \ {s}, n)
      <3> SUFFICES ASSUME NEW t \in (0..N-1) \ {s}
                   PROVE  /\ p.heap[t] \in Entries
                          /\ p.id[p.heap[t]] \in 1..n-1
                          /\ p.ids[p.id[p.heap[t]]] = t
        BY DEF Slotted
      <3>1. p.heap[t] = r.heap[t] /\ p.id[p.heap[t]] = r.id[r.heap[t]]
        BY <2>3, <2>5
      <3>2. p.ids[r.id[r.heap[t]]] = r.ids[r.id[r.heap[t]]]
        <4>1. \A i \in 0..n-1 : i # r.id[f] => p.ids[i] = r.ids[i]
          BY <2>3, <2>4
        <4> QED BY <4>1, <2>6
      <3> QED BY <3>1, <3>2, <2>6
    <2>8. Gap(p, f, s, N, n)
      <3>1. \A t \in (0..N-1) \ {s} : p.heap[t] # f /\ p.id[p.heap[t]] # p.id[f]
        BY <2>3, <2>5, <2>6
      <3>2. \A x \in Entries : p.id[x] > 0 =>
               x = f \/ \E t \in (0..N-1) \ {s} : p.heap[t] = x
        <4> SUFFICES ASSUME NEW x \in Entries, r.id[x] > 0, x # f
                     PROVE  \E t \in (0..N-1) \ {s} : p.heap[t] = x
          BY <2>3
        <4>1. PICK t \in (0..g.cur-1) \ {s} : r.heap[t] = x
          BY <1>2
        <4>2. t # N
          BY <4>1 DEF f
        <4>3. t \in (0..N-1) \ {s}
          BY <4>2, <1>5
        <4> QED BY <4>1, <4>3, <2>5
      <3> QED BY <3>1, <3>2, <2>1, <2>2, <2>3, <2>7 DEF Gap
    <2> DEFINE v(t) == g.value[g.heap[t]]
    <2>9. \A t \in 0..N-1 : t # s => p.value[p.heap[t]] = v(t) /\ v(t) \in Nat
      <3>1. \A t \in 0..N-1 : t \in 0..g.cur-1
        BY <1>5
      <3> QED BY <3>1, <1>1, <1>3, <2>3, <2>5
    <2>10. \A t \in 0..N-1 : t # 0 => v(Parent(t)) <= v(t)
      <3>1. \A t \in 0..N-1 : t \in 0..g.cur-1
        BY <1>5
      <3> QED BY <3>1, <1>3 DEF Ordered, After
    <2>11. \A t \in 0..N-1 : t # 0 => Parent(t) \in 0..N-1 /\ Parent(t) < t
      <3>1. \A t \in 0..N-1 : t \in Nat
        OBVIOUS
      <3>2. \A t \in Nat : t # 0 => Parent(t) \in Nat /\ Parent(t) < t
        BY Tree
      <3> QED BY <3>1, <3>2, <1>5
    <2>12. v(s) \in Nat
      BY <1>3
    <2>13. \A t \in 0..N-1 : s # 0 /\ t # 0 /\ Parent(t) = s => v(Parent(s)) <= v(t)
      <3> SUFFICES ASSUME NEW t \in 0..N-1, s # 0, t # 0, Parent(t) = s
                   PROVE  v(Parent(s)) <= v(t)
        OBVIOUS
      <3>1. v(Parent(s)) <= v(s) /\ v(s) <= v(t)
        BY <2>1, <2>10
      <3>2. v(Parent(s)) \in Nat /\ v(t) \in Nat
        <4>1. t # s /\ Parent(s) # s /\ Parent(s) \in 0..N-1
          BY <2>1, <2>11
        <4> QED BY <4>1, <2>9
      <3> HIDE DEF v
      <3> QED BY <3>1, <3>2, <2>12
    <2> HIDE DEF v
    <2>14. GapOrdered(p, s, N)
      <3>1. ASSUME NEW t \in 0..N-1, t # 0, t # s, Parent(t) # s
            PROVE  p.value[p.heap[Parent(t)]] <= p.value[p.heap[t]]
        BY <3>1, <2>9, <2>10, <2>11
      <3>2. ASSUME s # 0, NEW t \in 0..N-1, t # 0, Parent(t) = s
            PROVE  p.value[p.heap[Parent(s)]] <= p.value[p.heap[t]]
        <4>1. t # s /\ Parent(s) # s /\ Parent(s) \in 0..N-1
          BY <3>2, <2>1, <2>11
        <4> QED BY <3>2, <4>1, <2>9, <2>13
      <3> QED BY <3>1, <3>2 DEF GapOrdered, After
    <2>15. p.value[f] \in Nat /\ p.heap[s] = f
      BY <2>1, <2>2, <2>3, <2>5 DEF Shaped
    <2>16. /\ Full(k, N, n) /\ Ordered(k, N) /\ Frame(p, k, n)
      <3>1. CASE p.value[f] >= p.value[p.heap[Parent(s)]]
        <4>1. FitsBelow(p, f, s)
          <5>1. s # 0 => p.value[p.heap[Parent(s)]] \in Nat
            BY <2>1, <2>9, <2>11
          <5> QED BY <3>1, <5>1, <2>15 DEF FitsBelow
        <4>2. k = ReheapDown(p, f, s)
          BY <1>4, <1>5, <1>7, <3>1 DEF p, f
        <4>3. p.cur = N
          BY <2>3
        <4> HIDE DEF N
        <4> QED BY <4>1, <4>2, <4>3, <2>8, <2>14, <1>5, ReheapDownKeeps
      <3>2. CASE ~(p.value[f] >= p.value[p.heap[Parent(s)]])
        <4>1. s # 0
          BY <3>2, <2>15 DEF Parent
        <4>2. Parent(s) # s /\ Parent(s) \in 0..N-1
          BY <4>1, <2>1, <2>11
        <4>3. p.value[f] < v(Parent(s)) /\ v(Parent(s)) \in Nat
          BY <3>2, <4>2, <2>9, <2>15
        <4>4. FitsAbove(p, f, s, N)
          <5> SUFFICES ASSUME NEW t \in 0..N-1, t # 0, Parent(t) = s, t # s
                       PROVE  p.value[f] <= p.value[p.heap[t]]
            BY DEF FitsAbove
          <5> QED BY <4>1, <4>3, <2>9, <2>13, <2>15
        <4>5. k = ReheapUp(p, f, s)
          BY <1>4, <1>5, <1>7, <3>2 DEF p, f
        <4> HIDE DEF N
        <4> QED BY <4>4, <4>5, <2>8, <2>14, <1>5, ReheapUpKeeps
      <3> QED BY <3>1, <3>2
    <2>17. k.cur = r.cur /\ k.id = r.id /\ k.value = r.value
      BY <2>3, <2>16 DEF Frame
    <2>18. Frame(r, p, n)
      <3>1. ASSUME NEW i \in 0..n-1, \A x \in Entries : r.id[x] > 0 => r.id[x] # i
            PROVE  p.ids[i] = r.ids[i]
        <4>1. r.id[f] # i
          BY <3>1, <2>2
        <4> QED BY <4>1, <2>3, <2>4
      <3> QED BY <3>1, <2>3 DEF Frame
    <2>19. Frame(r, k, n)
      BY <2>16, <2>18, FrameTrans
    <2>20. \E c : Chain(k, n, n - 1 - k.cur, c)
      <3>1. PICK c : Chain(r, n, n - 1 - r.cur, c)
        BY <1>2
      <3>2. n - 1 - r.cur \in Nat
        BY <1>3, <1>5
      <3>3. Chain(k, n, n - 1 - r.cur, c)
        BY <3>1, <3>2, <2>19, FrameKeepsChain
      <3> QED BY <3>3, <2>17
    <2>21. k.ids[0] < 0
      <3>1. k.ids[0] = r.ids[0]
        <4>1. 0 \in 0..n-1
          BY <2>1
        <4> QED BY <4>1, <2>19 DEF Frame
      <3> QED BY <3>1, <1>2
    <2>22. k.cur + 2 <= n /\ k.cur = N
      BY <2>17, <1>3, <1>5
    <2> QED BY <2>16, <2>17, <2>20, <2>21, <2>22 DEF Sound
  <1> QED BY <1>5, <1>6, <1>7

----------------------------------------------------------------------------
(***************************************************************************)
(* schedule_entry: the entry takes the first free id and waits at the      *)
(* first free slot, if need be after the arrays have grown.                *)
(***************************************************************************)
Popped(g, e, time) == [PopFreelist(g, e) EXCEPT !.value[e] = time]

\* e has an id and waits for the slot after the last one.
Waiting(g, e, n) ==
    /\ Gap(g, e, g.cur, g.cur + 1, n) /\ GapOrdered(g, g.cur, g.cur + 1)
    /\ g.cur + 2 <= n /\ g.ids[0] < 0
    /\ \E c : Chain(g, n, n - 2 - g.cur, c)

\* The free list without its first id, from x on.
RestOfChain(g, n, m, c, x) ==
    /\ c \in [0..m -> 1..n]
    /\ c[0] = x /\ c[m] = n
    /\ \A i \in 0..m-1 : c[i] \in 1..n-1 /\ g.ids[c[i]] = -c[i + 1]
    /\ \A i \in 0..m : \A j \in 0..m : c[i] = c[j] => i = j
    /\ \A k \in 1..n-1 : InUse(g, k) \/ k = g.free <=> ~\E i \in 0..m-1 : c[i] = k

LEMMA PoppedIs ==
    ASSUME NEW n \in Nat, NEW g, Sound(g, n), NEW e \in Entries, NEW time \in Nat
    PROVE  LET r == Popped(g, e, time)
           IN  /\ Shaped(r, n) /\ r.heap = g.heap /\ r.ids = g.ids
               /\ r.free = -g.ids[g.free] /\ r.cur = g.cur
               /\ r.id = [g.id EXCEPT ![e] = g.free]
               /\ r.value = [g.value EXCEPT ![e] = time]
               /\ g.free \in 1..n-1
               /\ \A k \in 1..n-1 : k = g.free => ~InUse(g, k)
               /\ \E c : RestOfChain(g, n, n - 2 - g.cur, c, r.free)
  <1> DEFINE m == n - 1 - g.cur
             x == -g.ids[g.free]
             a == [g EXCEPT !.id = [g.id EXCEPT ![e] = g.free]]
             b == [a EXCEPT !.free = x]
             r == [b EXCEPT !.value = [b.value EXCEPT ![e] = time]]
  <1>1. Shaped(g, n) /\ g.cur \in Nat /\ g.cur + 2 <= n /\ g.free \in Nat
    BY DEF Sound, Full, Shaped
  <1>2. PICK c : Chain(g, n, m, c)
    BY DEF Sound
  <1>3. m \in Nat /\ m >= 1 /\ m - 1 = n - 2 - g.cur /\ m - 2 = n - 3 - g.cur
    BY <1>1
  <1> HIDE DEF m
  <1>4. /\ c \in [0..m -> 1..n]
        /\ c[0] = g.free /\ c[m] = n
        /\ \A i \in 0..m-1 : c[i] \in 1..n-1 /\ g.ids[c[i]] = -c[i + 1]
        /\ \A i \in 0..m : \A j \in 0..m : c[i] = c[j] => i = j
        /\ \A k \in 1..n-1 : InUse(g, k) <=> ~\E i \in 0..m-1 : c[i] = k
    BY <1>2 DEF Chain
  <1>5. /\ 0 \in 0..m-1 /\ 1 \in 0..m
        /\ g.free \in 1..n-1 /\ x = c[1] /\ x \in 1..n /\ ~InUse(g, g.free)
    <2>1. 0 \in 0..m-1 /\ 1 \in 0..m
      BY <1>3
    <2>2. g.free \in 1..n-1 /\ ~InUse(g, g.free) /\ g.ids[g.free] = -c[1] /\ c[1] \in 1..n
      BY <2>1, <1>4
    <2> QED BY <2>1, <2>2
  <1> HIDE DEF x
  <1>6. Shaped(a, n) /\ a.heap = g.heap /\ a.ids = g.ids /\ a.free = g.free
        /\ a.cur = g.cur /\ a.id = [g.id EXCEPT ![e] = g.free] /\ a.value = g.value
    <2>1. [g.id EXCEPT ![e] = g.free] \in [Entries -> Int]
      <3>1. g.id \in [Entries -> Int] /\ g.free \in Int
        BY <1>1 DEF Shaped
      <3> QED BY <3>1
    <2>2. Shaped(a, n)
      BY <1>1, <2>1, SetId
    <2> QED BY <1>1, <2>2 DEF Shaped
  <1> HIDE DEF a
  <1>7. Shaped(b, n) /\ b.heap = a.heap /\ b.ids = a.ids /\ b.free = x
        /\ b.cur = a.cur /\ b.id = a.id /\ b.value = a.value
    <2>1. x \in Nat
      BY <1>5
    <2>2. Shaped(b, n)
      BY <1>6, <2>1, SetFree
    <2> QED BY <1>6, <2>2 DEF Shaped
  <1> HIDE DEF b
  <1>8. Shaped(r, n) /\ r.heap = b.heap /\ r.ids = b.ids /\ r.free = b.free
        /\ r.cur = b.cur /\ r.id = b.id /\ r.value = [b.value EXCEPT ![e] = time]
    <2>1. [b.value EXCEPT ![e] = time] \in [Entries -> Nat]
      <3>1. b.value \in [Entries -> Nat]
        BY <1>7 DEF Shaped
      <3> QED BY <3>1
    <2>2. Shaped(r, n)
      BY <1>7, <2>1, SetValue
    <2> QED BY <1>7, <2>2 DEF Shaped
  <1> HIDE DEF r
  <1>9. r = Popped(g, e, time)
    <2>1. a.ids[g.free] = g.ids[g.free]
      BY <1>6
    <2> QED BY <1>1 DEF r, b, a, x, Popped, PopFreelist, Shaped
  <1> DEFINE d == [i \in 0..m-1 |-> c[i + 1]]
  <1>10. /\ d \in [0..m-1 -> 1..n] /\ d[0] = x /\ d[m-1] = n
         /\ \A i \in 0..m-1 : d[i] = c[i + 1] /\ i + 1 \in 0..m
    BY <1>3, <1>4, <1>5
  <1> HIDE DEF d
  <1>11. \A i \in 0..m-2 : d[i] \in 1..n-1 /\ g.ids[d[i]] = -d[i + 1]
    <2> SUFFICES ASSUME NEW i \in 0..m-2 PROVE d[i] \in 1..n-1 /\ g.ids[d[i]] = -d[i + 1]
      OBVIOUS
    <2>1. i \in 0..m-1 /\ i + 1 \in 0..m-1 /\ (i + 1) + 1 \in 0..m
      BY <1>3
    <2>2. d[i] = c[i + 1] /\ d[i + 1] = c[(i + 1) + 1]
      BY <2>1, <1>10
    <2> QED BY <2>1, <2>2, <1>4
  <1>12. \A i \in 0..m-1 : \A j \in 0..m-1 : d[i] = d[j] => i = j
    <2> SUFFICES ASSUME NEW i \in 0..m-1, NEW j \in 0..m-1, d[i] = d[j] PROVE i = j
      OBVIOUS
    <2>1. i + 1 = j + 1
      BY <1>4, <1>10
    <2> QED BY <2>1
  <1>13. \A k \in 1..n-1 :
            InUse(g, k) \/ k = g.free <=> ~\E i \in 0..m-2 : d[i] = k
    <2> SUFFICES ASSUME NEW k \in 1..n-1
                 PROVE  (\E i \in 0..m-1 : c[i] = k) /\ k # c[0]
                           <=> \E i \in 0..m-2 : d[i] = k
      BY <1>4
    <2>1. ASSUME NEW i \in 0..m-1, c[i] = k, k # c[0]
          PROVE  \E j \in 0..m-2 : d[j] = k
      <3>1. i - 1 \in 0..m-2 /\ i - 1 \in 0..m-1 /\ (i - 1) + 1 = i
        BY <2>1, <1>3
      <3>2. d[i - 1] = c[(i - 1) + 1]
        BY <3>1, <1>10
      <3> QED BY <3>1, <3>2, <2>1
    <2>2. ASSUME NEW j \in 0..m-2, d[j] = k
          PROVE  (\E i \in 0..m-1 : c[i] = k) /\ k # c[0]
      <3>1. j \in 0..m-1 /\ j + 1 \in 0..m-1 /\ j + 1 # 0 /\ j + 1 \in 0..m /\ 0 \in 0..m
        BY <1>3
      <3>2. d[j] = c[j + 1]
        BY <3>1, <1>10
      <3> QED BY <3>1, <3>2, <2>2, <1>4
    <2> QED BY <2>1, <2>2
  <1>14. RestOfChain(g, n, m - 1, d, x)
    <2>1. (m - 1) - 1 = m - 2
      BY <1>3
    <2> QED BY <2>1, <1>10, <1>11, <1>12, <1>13 DEF RestOfChain
  <1>15. r.free = x /\ r.free = -g.ids[g.free]
    BY <1>7, <1>8 DEF x
  <1>16. \A k \in 1..n-1 : k = g.free => ~InUse(g, k)
    BY <1>5
  <1>17. /\ Shaped(r, n) /\ r.heap = g.heap /\ r.ids = g.ids
         /\ r.cur = g.cur
         /\ r.id = [g.id EXCEPT ![e] = g.free]
         /\ r.value = [g.value EXCEPT ![e] = time]
         /\ g.free \in 1..n-1
    BY <1>5, <1>6, <1>7, <1>8
  <1> QED BY <1>3, <1>9, <1>14, <1>15, <1>16, <1>17

LEMMA PoppedWaits ==
    ASSUME NEW n \in Nat, NEW g, Sound(g, n), NEW e \in Entries, NEW time \in Nat,
           g.id[e] < 1
    PROVE  Waiting(Popped(g, e, time), e, n)
  <1> DEFINE r == Popped(g, e, time)
             N == g.cur
  <1>1. /\ Shaped(r, n) /\ r.heap = g.heap /\ r.ids = g.ids
        /\ r.free = -g.ids[g.free] /\ r.cur = N
        /\ r.id = [g.id EXCEPT ![e] = g.free]
        /\ r.value = [g.value EXCEPT ![e] = time]
        /\ g.free \in 1..n-1
        /\ \A k \in 1..n-1 : k = g.free => ~InUse(g, k)
        /\ \E c : RestOfChain(g, n, n - 2 - N, c, r.free)
    BY PoppedIs
  <1>2. PICK c : RestOfChain(g, n, n - 2 - N, c, r.free)
    BY <1>1
  <1> HIDE DEF r
  <1>3. /\ N \in Nat /\ N + 2 <= n /\ g.ids[0] < 0 /\ Ordered(g, N)
        /\ g.id \in [Entries -> Int] /\ g.value \in [Entries -> Nat]
    BY DEF Sound, Full, Shaped
  <1>4. \A t \in 0..N-1 : /\ g.heap[t] \in Entries /\ g.id[g.heap[t]] \in 1..n-1
                          /\ g.ids[g.id[g.heap[t]]] = t
    BY DEF Sound, Full, Slotted
  <1>5. \A f \in Entries : g.id[f] > 0 => \E t \in 0..N-1 : g.heap[t] = f
    BY DEF Sound, Full
  <1> HIDE DEF N
  <1>6. /\ \A f \in Entries : r.id[f] = IF f = e THEN g.free ELSE g.id[f]
        /\ \A f \in Entries : r.value[f] = IF f = e THEN time ELSE g.value[f]
    BY <1>1, <1>3
  <1>7. \A t \in 0..N-1 : g.heap[t] # e /\ g.id[g.heap[t]] # g.free
    <2> SUFFICES ASSUME NEW t \in 0..N-1 PROVE g.heap[t] # e /\ g.id[g.heap[t]] # g.free
      OBVIOUS
    <2>1. g.heap[t] # e
      BY <1>3, <1>4
    <2>2. InUse(g, g.id[g.heap[t]])
      BY <1>4 DEF InUse
    <2> QED BY <2>1, <2>2, <1>1
  <1>8. (0..(N+1)-1) \ {N} = 0..N-1
    BY <1>3
  <1>9. Gap(r, e, N, N + 1, n)
    <2>1. N + 1 \in 1..n /\ N \in 0..(N+1)-1
      BY <1>3
    <2>2. r.id[e] \in 1..n-1
      BY <1>1, <1>6
    <2>3. Slotted(r, 0..N-1, n)
      BY <1>1, <1>4, <1>6, <1>7 DEF Slotted
    <2>4. \A t \in 0..N-1 : r.heap[t] # e /\ r.id[r.heap[t]] # r.id[e]
      BY <1>1, <1>4, <1>6, <1>7
    <2>5. \A f \in Entries : r.id[f] > 0 => f = e \/ \E t \in 0..N-1 : r.heap[t] = f
      BY <1>1, <1>5, <1>6
    <2> QED BY <1>1, <1>8, <2>1, <2>2, <2>3, <2>4, <2>5 DEF Gap
  <1>10. GapOrdered(r, N, N + 1)
    <2>1. ASSUME NEW t \in 0..(N+1)-1, t # 0
          PROVE  t \in Nat /\ Parent(t) \in Nat /\ Parent(t) < t /\ Parent(t) # N
      <3>1. t \in Nat /\ t <= N
        BY <1>3
      <3>2. Parent(t) \in Nat /\ Parent(t) < t
        BY <3>1, <2>1, Tree
      <3> QED BY <1>3, <3>1, <3>2
    <2>2. ASSUME NEW t \in 0..(N+1)-1, t # 0, t # N
          PROVE  r.value[r.heap[Parent(t)]] <= r.value[r.heap[t]]
      <3>1. t \in 0..N-1 /\ Parent(t) \in 0..N-1
        BY <2>1, <2>2, <1>3
      <3>2. g.value[g.heap[Parent(t)]] <= g.value[g.heap[t]]
        BY <2>2, <3>1, <1>3 DEF Ordered, After
      <3> QED BY <3>1, <3>2, <1>1, <1>4, <1>6, <1>7
    <2> QED BY <2>1, <2>2 DEF GapOrdered, After
  <1>11. Chain(r, n, n - 2 - N, c)
    <2>1. \A k \in 1..n-1 : InUse(r, k) <=> InUse(g, k) \/ k = g.free
      BY <1>1, <1>6 DEF InUse
    <2> QED BY <1>1, <1>2, <2>1 DEF Chain, RestOfChain
  <1> QED BY <1>1, <1>3, <1>9, <1>10, <1>11 DEF Waiting, r

LEMMA GrowKeeps ==
    ASSUME NEW n \in Nat, NEW g, NEW e, g.cur \in Nat, Waiting(g, e, n), g.cur + 2 = n
    PROVE  LET k == GrowHeap(g)
           IN  /\ Waiting(k, e, 2 * n)
               /\ k.cur = g.cur /\ k.id = g.id /\ k.value = g.value
  <1> DEFINE N == g.cur
             x == [s \in 0..2*n-1 |-> IF s < n THEN g.heap[s] ELSE None]
             y == [i \in 0..2*n-1 |-> IF i < n THEN g.ids[i] ELSE -(i + 1)]
             a == [g EXCEPT !.heap = x]
             k == [a EXCEPT !.ids = y]
  <1>1. /\ Gap(g, e, N, N + 1, n) /\ GapOrdered(g, N, N + 1)
        /\ g.ids[0] < 0 /\ \E c : Chain(g, n, n - 2 - N, c)
    BY DEF Waiting
  <1>2. /\ Shaped(g, n) /\ g.heap \in [0..n-1 -> Entries \cup {None}]
        /\ g.ids \in [0..n-1 -> Int] /\ g.free \in Nat
        /\ g.id \in [Entries -> Int] /\ g.value \in [Entries -> Nat]
    BY <1>1 DEF Gap, Shaped
  <1>3. GrowHeap(g) = k
    <2>1. Size(g) = n
      BY <1>2, SizeShaped
    <2> QED BY <2>1, Zenon DEF GrowHeap
  <1>4. n >= 2 /\ N \in 0..n-2 /\ N + 1 \in 1..n /\ N \in Nat
    OBVIOUS
  <1>5. /\ Shaped(k, 2 * n) /\ k.heap = x /\ k.ids = y
        /\ k.free = g.free /\ k.cur = g.cur /\ k.id = g.id /\ k.value = g.value
    <2>1. x \in [0..2*n-1 -> Entries \cup {None}]
      BY <1>2
    <2>2. y \in [0..2*n-1 -> Int]
      BY <1>2
    <2> HIDE DEF x, y
    <2>3. /\ a \in [heap: [0..2*n-1 -> Entries \cup {None}], ids: [0..n-1 -> Int],
                    free: Nat, cur: Nat, id: [Entries -> Int], value: [Entries -> Nat]]
          /\ a.heap = x /\ a.free = g.free /\ a.cur = g.cur /\ a.id = g.id
          /\ a.value = g.value
      BY <1>2, <2>1 DEF Shaped
    <2> HIDE DEF a
    <2>4. /\ Shaped(k, 2 * n) /\ k.ids = y /\ k.heap = a.heap
          /\ k.free = a.free /\ k.cur = a.cur /\ k.id = a.id /\ k.value = a.value
      BY <2>2, <2>3 DEF Shaped
    <2> QED BY <2>3, <2>4
  <1>6. /\ \A s \in 0..n-1 : x[s] = g.heap[s] /\ y[s] = g.ids[s]
        /\ \A s \in n..2*n-1 : y[s] = -(s + 1)
    OBVIOUS
  <1> HIDE DEF x, y
  <1>7. /\ k.heap = x /\ k.ids = y /\ k.free = g.free /\ k.cur = g.cur
        /\ k.id = g.id /\ k.value = g.value
    BY <1>5
  <1> HIDE DEF k, N
  <1>8. \A t \in 0..(N+1)-1 : t \in 0..n-1 /\ k.heap[t] = g.heap[t]
    BY <1>4, <1>6, <1>7
  <1>9. Slotted(k, (0..(N+1)-1) \ {N}, 2 * n)
    <2> SUFFICES ASSUME NEW t \in (0..(N+1)-1) \ {N}
                 PROVE  /\ k.heap[t] \in Entries
                        /\ k.id[k.heap[t]] \in 1..2*n-1
                        /\ k.ids[k.id[k.heap[t]]] = t
      BY DEF Slotted
    <2>1. /\ g.heap[t] \in Entries /\ g.id[g.heap[t]] \in 1..n-1
          /\ g.ids[g.id[g.heap[t]]] = t
      BY <1>1 DEF Gap, Slotted
    <2>2. k.heap[t] = g.heap[t] /\ k.id = g.id
      BY <1>7, <1>8
    <2> QED BY <2>1, <2>2, <1>4, <1>6, <1>7
  <1>10. Gap(k, e, N, N + 1, 2 * n)
    <2>1. /\ e \in Entries /\ g.id[e] \in 1..n-1 /\ N \in 0..(N+1)-1
          /\ \A t \in (0..(N+1)-1) \ {N} : g.heap[t] # e /\ g.id[g.heap[t]] # g.id[e]
          /\ \A f \in Entries : g.id[f] > 0 =>
                f = e \/ \E t \in (0..(N+1)-1) \ {N} : g.heap[t] = f
      BY <1>1 DEF Gap
    <2>2. N + 1 \in 1..2*n /\ k.id[e] \in 1..2*n-1
      BY <2>1, <1>4, <1>7
    <2>3. /\ \A t \in (0..(N+1)-1) \ {N} : k.heap[t] # e /\ k.id[k.heap[t]] # k.id[e]
          /\ \A f \in Entries : k.id[f] > 0 =>
                f = e \/ \E t \in (0..(N+1)-1) \ {N} : k.heap[t] = f
      BY <2>1, <1>7, <1>8
    <2> QED BY <2>1, <2>2, <2>3, <1>5, <1>9 DEF Gap
  <1>11. GapOrdered(k, N, N + 1)
    <2>1. \A t \in 0..(N+1)-1 : t # 0 => Parent(t) \in 0..(N+1)-1 /\ Parent(t) # N
      <3>1. \A t \in Nat : t # 0 => Parent(t) \in Nat /\ Parent(t) < t
        BY Tree
      <3> QED BY <3>1, <1>4
    <2> QED BY <2>1, <1>1, <1>7, <1>8 DEF GapOrdered, After
  <1>12. k.ids[0] < 0
    BY <1>1, <1>4, <1>6, <1>7
  <1>13. /\ g.free = n
         /\ \A i \in 1..n-1 : InUse(g, i)
    <2>1. PICK c : Chain(g, n, 0, c)
      <3>1. n - 2 - N = 0
        BY DEF N
      <3> QED BY <3>1, <1>1
    <2> QED BY <2>1 DEF Chain
  <1>14. \E c : Chain(k, 2 * n, n, c)
    <2> DEFINE c == [i \in 0..n |-> n + i]
    <2>1. /\ c \in [0..n -> 1..2*n] /\ c[0] = k.free /\ c[n] = 2 * n
          /\ \A i \in 0..n : c[i] = n + i
      BY <1>4, <1>7, <1>13
    <2> HIDE DEF c
    <2>2. \A i \in 0..n-1 : c[i] \in 1..2*n-1 /\ k.ids[c[i]] = -c[i + 1]
      <3> SUFFICES ASSUME NEW i \in 0..n-1
                   PROVE  c[i] \in 1..2*n-1 /\ k.ids[c[i]] = -c[i + 1]
        OBVIOUS
      <3>1. c[i] = n + i /\ c[i + 1] = n + i + 1 /\ n + i \in n..2*n-1
        BY <2>1, <1>4
      <3> QED BY <3>1, <1>4, <1>6, <1>7
    <2>3. \A i \in 0..n : \A j \in 0..n : c[i] = c[j] => i = j
      BY <2>1
    <2>4. \A i \in 1..2*n-1 : InUse(k, i) <=> i < n
      <3>1. \A f \in Entries : g.id[f] > 0 => g.id[f] \in 1..n-1
        BY <1>1 DEF Gap, Slotted
      <3> QED BY <3>1, <1>7, <1>13 DEF InUse
    <2>5. \A i \in 1..2*n-1 : InUse(k, i) <=> ~\E j \in 0..n-1 : c[j] = i
      <3>1. ASSUME NEW i \in 1..2*n-1, i >= n PROVE \E j \in 0..n-1 : c[j] = i
        <4>1. i - n \in 0..n-1 /\ n + (i - n) = i /\ i - n \in 0..n
          BY <3>1
        <4> QED BY <4>1, <2>1
      <3>2. ASSUME NEW i \in 1..2*n-1, NEW j \in 0..n-1, c[j] = i PROVE i >= n
        <4>1. j \in 0..n
          OBVIOUS
        <4> QED BY <4>1, <3>2, <2>1
      <3> QED BY <3>1, <3>2, <2>4
    <2>6. Chain(k, 2 * n, n, c)
      BY <2>1, <2>2, <2>3, <2>5 DEF Chain
    <2> QED BY <2>6
  <1>15. 2 * n - 2 - N = n /\ N + 2 <= 2 * n
    BY <1>4 DEF N
  <1> QED BY <1>3, <1>7, <1>10, <1>11, <1>12, <1>14, <1>15 DEF Waiting, N

LEMMA InsertKeeps ==
    ASSUME NEW n \in Nat, NEW g, NEW e, Waiting(g, e, n)
    PROVE  LET k == InsertNode(g, e)
           IN  /\ \E z \in Nat : Sound(k, z)
               /\ k.cur = g.cur + 1 /\ k.id = g.id /\ k.value = g.value
  <1> DEFINE b == IF g.cur + 2 >= Size(g) THEN GrowHeap(g) ELSE g
             N == b.cur
             r == ReheapUp(b, e, N)
             k == [r EXCEPT !.cur = r.cur + 1]
  <1>1. Shaped(g, n) /\ g.cur \in Nat /\ Size(g) = n /\ g.cur + 2 <= n
    BY SizeShaped DEF Waiting, Gap, Shaped
  <1>2. /\ b.cur = g.cur /\ b.id = g.id /\ b.value = g.value
        /\ \E z \in Nat : Waiting(b, e, z) /\ b.cur + 3 <= z
    <2>1. CASE g.cur + 2 >= n
      <3>1. g.cur + 2 = n
        BY <2>1, <1>1
      <3>2. Waiting(GrowHeap(g), e, 2 * n) /\ GrowHeap(g).cur = g.cur
            /\ GrowHeap(g).id = g.id /\ GrowHeap(g).value = g.value
        BY <3>1, <1>1, GrowKeeps
      <3>3. b = GrowHeap(g) /\ 2 * n \in Nat /\ g.cur + 3 <= 2 * n
        BY <2>1, <3>1, <1>1
      <3> HIDE DEF b
      <3> QED BY <3>2, <3>3
    <2>2. CASE ~(g.cur + 2 >= n)
      <3>1. b = g /\ g.cur + 3 <= n
        BY <2>2, <1>1
      <3> HIDE DEF b
      <3> QED BY <3>1
    <2> QED BY <2>1, <2>2
  <1>3. InsertNode(g, e) = k
    BY DEF InsertNode
  <1> HIDE DEF b
  <1>4. PICK z \in Nat : Waiting(b, e, z) /\ b.cur + 3 <= z
    BY <1>2
  <1>5. /\ Gap(b, e, N, N + 1, z) /\ GapOrdered(b, N, N + 1) /\ b.ids[0] < 0
        /\ \E c : Chain(b, z, z - 2 - N, c)
        /\ N \in Nat /\ N + 1 \in Nat /\ N + 3 <= z
    BY <1>1, <1>2, <1>4 DEF Waiting
  <1> HIDE DEF N
  <1>6. FitsAbove(b, e, N, N + 1)
    <2>1. \A t \in 0..(N+1)-1 : t # 0 => Parent(t) # N
      <3>1. \A t \in Nat : t # 0 => Parent(t) \in Nat /\ Parent(t) < t
        BY Tree
      <3> QED BY <3>1, <1>5
    <2> QED BY <2>1 DEF FitsAbove
  <1>7. Full(r, N + 1, z) /\ Ordered(r, N + 1) /\ Frame(b, r, z)
    BY <1>5, <1>6, ReheapUpKeeps
  <1> HIDE DEF r
  <1>8. r.cur = N /\ Shaped(r, z) /\ N + 1 \in Nat
    BY <1>5, <1>7 DEF Frame, Full, N
  <1>9. /\ Shaped(k, z) /\ k.cur = N + 1
        /\ k.heap = r.heap /\ k.ids = r.ids /\ k.free = r.free
        /\ k.id = r.id /\ k.value = r.value
    <2>1. Shaped(k, z)
      BY <1>8, SetCur
    <2> QED BY <2>1, <1>8 DEF Shaped
  <1> HIDE DEF k
  <1>10. Full(k, k.cur, z)
    BY <1>7, <1>9 DEF Full, Slotted
  <1>11. Ordered(k, k.cur)
    BY <1>7, <1>9 DEF Ordered, After
  <1>12. \E c : Chain(k, z, z - 1 - k.cur, c)
    <2>1. PICK c : Chain(b, z, z - 2 - N, c)
      BY <1>5
    <2>2. z - 2 - N \in Nat /\ z - 2 - N = z - 1 - k.cur
      BY <1>5, <1>9
    <2>3. Chain(r, z, z - 2 - N, c)
      BY <2>1, <2>2, <1>7, FrameKeepsChain
    <2>4. Chain(k, z, z - 2 - N, c)
      BY <2>3, <1>9 DEF Chain, InUse
    <2> QED BY <2>2, <2>4
  <1>13. k.ids[0] < 0
    <2>1. \A f \in Entries : b.id[f] > 0 => b.id[f] # 0
      OBVIOUS
    <2>2. r.ids[0] = b.ids[0]
      <3>1. 0 \in 0..z-1
        BY <1>5
      <3> QED BY <2>1, <3>1, <1>7 DEF Frame
    <2> QED BY <2>2, <1>5, <1>9
  <1>14. k.cur + 2 <= z
    BY <1>5, <1>9
  <1>15. Sound(k, z)
    BY <1>10, <1>11, <1>12, <1>13, <1>14 DEF Sound
  <1>16. k.id = g.id /\ k.value = g.value /\ k.cur = g.cur + 1
    BY <1>2, <1>7, <1>9 DEF Frame, N
  <1> QED BY <1>3, <1>15, <1>16

----------------------------------------------------------------------------
(***************************************************************************)
(* The three calls that change the heap, and the heap they start from.     *)
(***************************************************************************)
LEMMA ScheduleKeeps ==
    ASSUME NEW n \in Nat, NEW g, Sound(g, n), NEW e \in Entries, NEW time \in Nat,
           g.id[e] < 1
    PROVE  LET k == ScheduleEntry(g, e, time)
           IN  /\ \E z \in Nat : Sound(k, z)
               /\ k.value = [g.value EXCEPT ![e] = time]
               /\ \E i \in Nat : i > 0 /\ k.id = [g.id EXCEPT ![e] = i]
  <1> DEFINE r == Popped(g, e, time)
             k == InsertNode(r, e)
  <1>1. g.cur < Size(g)
    <2>1. Shaped(g, n) /\ g.cur \in Nat /\ g.cur + 2 <= n
      BY DEF Sound, Full, Shaped
    <2>2. Size(g) = n
      BY <2>1, SizeShaped
    <2> QED BY <2>1, <2>2
  <1>2. ScheduleEntry(g, e, time) = k
    BY <1>1 DEF ScheduleEntry, Popped
  <1>3. Waiting(r, e, n)
    BY PoppedWaits
  <1>4. /\ r.id = [g.id EXCEPT ![e] = g.free]
        /\ r.value = [g.value EXCEPT ![e] = time]
        /\ g.free \in 1..n-1
    <2>1. /\ Shaped(r, n) /\ r.heap = g.heap /\ r.ids = g.ids
          /\ r.free = -g.ids[g.free] /\ r.cur = g.cur
          /\ r.id = [g.id EXCEPT ![e] = g.free]
          /\ r.value = [g.value EXCEPT ![e] = time]
          /\ g.free \in 1..n-1
          /\ \A i \in 1..n-1 : i = g.free => ~InUse(g, i)
          /\ \E c : RestOfChain(g, n, n - 2 - g.cur, c, r.free)
      BY PoppedIs
    <2> QED BY <2>1
  <1> HIDE DEF r
  <1>5. (\E z \in Nat : Sound(k, z)) /\ k.id = r.id /\ k.value = r.value
    BY <1>3, InsertKeeps
  <1> HIDE DEF k
  <1>6. g.free \in Nat /\ g.free > 0
    BY <1>4
  <1> QED BY <1>2, <1>4, <1>5, <1>6

\* An entry is in the heap exactly when its id says so, and the slot to which
\* the id leads is its own.
LEMMA Occupants ==
    ASSUME NEW n \in Nat, NEW g, Sound(g, n)
    PROVE  /\ {g.heap[s] : s \in 0..g.cur-1} = {e \in Entries : g.id[e] > 0}
           /\ \A e \in Entries : g.id[e] > 0 =>
                 g.ids[g.id[e]] \in 0..g.cur-1 /\ g.heap[g.ids[g.id[e]]] = e
           /\ \A e \in Entries : g.id[e] <= n - 1
  <1>1. Full(g, g.cur, n)
    BY DEF Sound
  <1>2. /\ g.cur \in Nat /\ g.id \in [Entries -> Int]
        /\ \A t \in 0..g.cur-1 : /\ g.heap[t] \in Entries /\ g.id[g.heap[t]] \in 1..n-1
                                 /\ g.ids[g.id[g.heap[t]]] = t
        /\ \A f \in Entries : g.id[f] > 0 => \E t \in 0..g.cur-1 : g.heap[t] = f
    BY <1>1 DEF Full, Shaped, Slotted
  <1>3. \A t \in 0..g.cur-1 : g.id[g.heap[t]] > 0
    BY <1>2
  <1>4. {g.heap[s] : s \in 0..g.cur-1} = {e \in Entries : g.id[e] > 0}
    BY <1>2, <1>3
  <1>5. ASSUME NEW e \in Entries, g.id[e] > 0
        PROVE  /\ g.ids[g.id[e]] \in 0..g.cur-1 /\ g.heap[g.ids[g.id[e]]] = e
               /\ g.id[e] <= n - 1
    BY <1>2, <1>5
  <1>6. ASSUME NEW e \in Entries, ~(g.id[e] > 0)
        PROVE  g.id[e] <= n - 1
    <2>1. n >= 2
      BY <1>2 DEF Sound
    <2> QED BY <2>1, <1>2, <1>6
  <1> QED BY <1>4, <1>5, <1>6

LEMMA CancelKeeps ==
    ASSUME NEW n \in Nat, NEW g, Sound(g, n), NEW e \in Entries
    PROVE  LET k == Cancelled(g, e)
           IN  Sound(k, n) /\ k.id = [g.id EXCEPT ![e] = -1] /\ k.value = g.value
  <1> DEFINE k == Cancelled(g, e)
             r == [g EXCEPT !.id = [g.id EXCEPT ![e] = -1]]
  <1>1. Shaped(g, n) /\ Size(g) = n /\ g.id \in [Entries -> Int] /\ g.ids[0] < 0
    BY SizeShaped DEF Sound, Full, Shaped
  <1>2. CASE g.id[e] > 0
    <2>1. /\ g.ids[g.id[e]] \in 0..g.cur-1 /\ g.heap[g.ids[g.id[e]]] = e
          /\ g.id[e] <= n - 1
      BY <1>2, Occupants
    <2>2. k = RemoveNode(g, g.ids[g.id[e]])
      BY <1>1, <1>2, <2>1 DEF Cancelled
    <2> DEFINE s == g.ids[g.id[e]]
    <2>3. s \in 0..g.cur-1 /\ g.heap[s] = e /\ k = RemoveNode(g, s)
      BY <2>1, <2>2
    <2> HIDE DEF k, s
    <2>4. Sound(k, n) /\ k.id = [g.id EXCEPT ![g.heap[s]] = -1] /\ k.value = g.value
      BY <2>3, RemoveNodeKeeps
    <2> QED BY <2>3, <2>4 DEF k
  <1>3. CASE ~(g.id[e] > 0)
    <2>1. k = r
      <3>1. g.id[e] = 0 \/ g.id[e] < 0
        BY <1>1, <1>3
      <3> QED BY <3>1, <1>1 DEF Cancelled
    <2> HIDE DEF k
    <2>2. -1 \in Int
      OBVIOUS
    <2>3. [g.id EXCEPT ![e] = -1] \in [Entries -> Int]
      BY <1>1, <2>2
    <2>4. /\ Shaped(r, n) /\ r.heap = g.heap /\ r.ids = g.ids /\ r.free = g.free
          /\ r.cur = g.cur /\ r.id = [g.id EXCEPT ![e] = -1] /\ r.value = g.value
      <3>1. Shaped(r, n)
        BY <1>1, <2>3, SetId
      <3> QED BY <1>1, <3>1 DEF Shaped
    <2> HIDE DEF r
    <2>5. \A f \in Entries : r.id[f] = IF f = e THEN -1 ELSE g.id[f]
      BY <1>1, <2>4
    <2>6. \A f \in Entries : g.id[f] > 0 => f # e /\ r.id[f] = g.id[f]
      BY <1>3, <2>5
    <2>7. \A f \in Entries : r.id[f] > 0 => g.id[f] > 0
      BY <2>5
    <2>8. Full(r, r.cur, n)
      <3>1. \A t \in 0..g.cur-1 : /\ g.heap[t] \in Entries /\ g.id[g.heap[t]] \in 1..n-1
                                  /\ g.ids[g.id[g.heap[t]]] = t
        BY DEF Sound, Full, Slotted
      <3>2. \A t \in 0..g.cur-1 : r.id[g.heap[t]] = g.id[g.heap[t]]
        BY <2>6, <3>1
      <3>3. Slotted(r, 0..r.cur-1, n)
        BY <2>4, <3>1, <3>2 DEF Slotted
      <3>4. \A f \in Entries : r.id[f] > 0 => \E t \in 0..r.cur-1 : r.heap[t] = f
        BY <2>4, <2>7 DEF Sound, Full
      <3>5. r.cur \in 0..n
        BY <2>4 DEF Sound, Full
      <3> QED BY <2>4, <3>3, <3>4, <3>5 DEF Full
    <2>9. Ordered(r, r.cur)
      BY <2>4 DEF Sound, Ordered, After
    <2>10. \E c : Chain(r, n, n - 1 - r.cur, c)
      <3>1. PICK c : Chain(g, n, n - 1 - g.cur, c)
        BY DEF Sound
      <3>2. \A i \in 1..n-1 : InUse(r, i) <=> InUse(g, i)
        BY <2>6, <2>7 DEF InUse
      <3>3. Chain(r, n, n - 1 - g.cur, c)
        BY <3>1, <3>2, <2>4 DEF Chain
      <3> QED BY <3>3, <2>4
    <2>11. Sound(r, n)
      BY <2>4, <2>8, <2>9, <2>10 DEF Sound
    <2> QED BY <2>1, <2>4, <2>11 DEF k
  <1> QED BY <1>2, <1>3

LEMMA InitialHeap ==
    ASSUME Init
    PROVE  \E n \in Nat : Sound(h, n)
  <1> DEFINE n == InitSize + 2
  <1>1. PICK i \in {-1, 0} :
          h = [heap |-> [s \in 0..InitSize+1 |-> None],
               ids |-> [s \in 0..InitSize+1 |-> -(s + 1)],
               free |-> 1, cur |-> 0,
               id |-> [e \in Entries |-> i],
               value |-> [e \in Entries |-> 0]]
    BY DEF Init
  <1>2. InitSize \in Nat /\ n \in Nat /\ n >= 2 /\ n - 1 = InitSize + 1
    BY TimerAssumption
  <1> HIDE DEF n
  <1>3. /\ h.heap = [s \in 0..n-1 |-> None] /\ h.ids = [s \in 0..n-1 |-> -(s + 1)]
        /\ h.free = 1 /\ h.cur = 0
        /\ h.id = [e \in Entries |-> i] /\ h.value = [e \in Entries |-> 0]
    BY <1>1, <1>2
  <1>4. Shaped(h, n)
    <2>1. /\ h.heap \in [0..n-1 -> Entries \cup {None}] /\ h.ids \in [0..n-1 -> Int]
          /\ h.free \in Nat /\ h.cur \in Nat
          /\ h.id \in [Entries -> Int] /\ h.value \in [Entries -> Nat]
      BY <1>2, <1>3
    <2>2. h = [heap |-> h.heap, ids |-> h.ids, free |-> h.free, cur |-> h.cur,
               id |-> h.id, value |-> h.value]
      BY <1>1
    <2> QED BY <2>1, <2>2 DEF Shaped
  <1>5. \A e \in Entries : ~(h.id[e] > 0)
    BY <1>3
  <1>6. Full(h, h.cur, n) /\ Ordered(h, h.cur)
    BY <1>2, <1>3, <1>4, <1>5 DEF Full, Slotted, Ordered
  <1>7. \E c : Chain(h, n, n - 1 - h.cur, c)
    <2> DEFINE c == [j \in 0..n-1 |-> j + 1]
    <2>1. /\ c \in [0..n-1 -> 1..n] /\ c[0] = h.free /\ c[n-1] = n
          /\ \A j \in 0..n-1 : c[j] = j + 1
      BY <1>2, <1>3
    <2> HIDE DEF c
    <2>2. \A j \in 0..(n-1)-1 : c[j] \in 1..n-1 /\ h.ids[c[j]] = -c[j + 1]
      <3> SUFFICES ASSUME NEW j \in 0..(n-1)-1
                   PROVE  c[j] \in 1..n-1 /\ h.ids[c[j]] = -c[j + 1]
        OBVIOUS
      <3>1. j \in 0..n-1 /\ j + 1 \in 0..n-1 /\ c[j] = j + 1 /\ c[j + 1] = (j + 1) + 1
        BY <2>1, <1>2
      <3>2. h.ids[j + 1] = -((j + 1) + 1)
        BY <3>1, <1>3
      <3> QED BY <3>1, <3>2, <1>2
    <2>3. \A j \in 0..n-1 : \A k \in 0..n-1 : c[j] = c[k] => j = k
      BY <2>1
    <2>4. \A k \in 1..n-1 : ~InUse(h, k) /\ \E j \in 0..(n-1)-1 : c[j] = k
      <3> SUFFICES ASSUME NEW k \in 1..n-1
                   PROVE  ~InUse(h, k) /\ \E j \in 0..(n-1)-1 : c[j] = k
        OBVIOUS
      <3>1. ~InUse(h, k)
        BY <1>5 DEF InUse
      <3>2. k - 1 \in 0..(n-1)-1 /\ k - 1 \in 0..n-1 /\ (k - 1) + 1 = k
        BY <1>2
      <3> QED BY <3>1, <3>2, <2>1
    <2>5. Chain(h, n, n - 1, c)
      BY <2>1, <2>2, <2>3, <2>4 DEF Chain
    <2>6. n - 1 - h.cur = n - 1
      BY <1>2, <1>3
    <2> QED BY <2>5, <2>6
  <1>8. h.cur + 2 <= n /\ h.ids[0] < 0
    BY <1>2, <1>3
  <1> QED BY <1>2, <1>6, <1>7, <1>8 DEF Sound

----------------------------------------------------------------------------
(***************************************************************************)
(* The free list as IdsSound follows it: FreeAfter is a recursive          *)
(* function, and the chain is what it computes.                            *)
(***************************************************************************)
LEMMA FreeAfterIsChain ==
    ASSUME NEW n \in Nat, NEW m \in Nat, NEW c, Chain(h, n, m, c), NEW i \in 0..m
    PROVE  FreeAfter(i) = c[i]
  <1> DEFINE Steps(f) == [j \in 0..i |-> IF j = 0 THEN h.free ELSE -h.ids[f[j - 1]]]
             d == [j \in 0..i |-> c[j]]
             f == CHOOSE x : x = Steps(x)
  <1>1. /\ c \in [0..m -> 1..n] /\ c[0] = h.free
        /\ \A j \in 0..m-1 : h.ids[c[j]] = -c[j + 1]
    BY DEF Chain
  <1>2. \A j \in 0..i : j # 0 => j - 1 \in 0..i /\ c[j] = -h.ids[c[j - 1]]
    <2> SUFFICES ASSUME NEW j \in 0..i, j # 0
                 PROVE  j - 1 \in 0..i /\ c[j] = -h.ids[c[j - 1]]
      OBVIOUS
    <2>1. j - 1 \in 0..m-1 /\ (j - 1) + 1 = j /\ j \in 0..m /\ j - 1 \in 0..i
      OBVIOUS
    <2>2. h.ids[c[j - 1]] = -c[j] /\ c[j] \in Int
      BY <2>1, <1>1
    <2> QED BY <2>1, <2>2
  <1>3. d = Steps(d)
    <2>1. \A j \in 0..i : d[j] = c[j]
      OBVIOUS
    <2>2. \A j \in 0..i : c[j] = IF j = 0 THEN h.free ELSE -h.ids[d[j - 1]]
      BY <2>1, <1>1, <1>2
    <2> QED BY <2>2
  <1>4. \E x : x = Steps(x)
    <2> HIDE DEF d, Steps
    <2> QED BY <1>3
  <1>5. f = Steps(f)
    BY <1>4
  <1>6. FreeAfter(i) = f[i]
    BY DEF FreeAfter
  <1> HIDE DEF f
  <1>7. \A j \in 0..i : f[j] = IF j = 0 THEN h.free ELSE -h.ids[f[j - 1]]
    BY <1>5
  <1> DEFINE T == {j \in Nat : j <= i => f[j] = c[j]}
  <1>8. 0 \in T
    BY <1>1, <1>7
  <1>9. ASSUME NEW j \in Nat, j \in T PROVE j + 1 \in T
    <2> SUFFICES ASSUME j + 1 <= i PROVE f[j + 1] = c[j + 1]
      OBVIOUS
    <2>1. f[j] = c[j] /\ j + 1 \in 0..i /\ (j + 1) - 1 = j /\ j + 1 # 0
      BY <1>9
    <2> QED BY <2>1, <1>2, <1>7
  <1> HIDE DEF T
  <1>10. i \in T
    BY <1>8, <1>9, Induct
  <1> QED BY <1>6, <1>10 DEF T

LEMMA SoundIds ==
    ASSUME NEW n \in Nat, Sound(h, n)
    PROVE  IdsSound
  <1> DEFINE m == n - 1 - h.cur
             used == {h.id[h.heap[s]] : s \in 0..h.cur-1}
             free == {FreeAfter(i) : i \in 0..Size(h)-2-h.cur}
  <1>1. Shaped(h, n) /\ h.cur \in Nat /\ h.cur + 2 <= n /\ m \in Nat
    BY SMTT(30) DEF Sound, Full, Shaped
  <1>2. Size(h) = n
    BY <1>1, SizeShaped
  <1>3. PICK c : Chain(h, n, m, c)
    BY DEF Sound
  <1>4. /\ c[m] = n
        /\ \A i \in 0..m-1 : c[i] \in 1..n-1
        /\ \A k \in 1..n-1 : InUse(h, k) <=> ~\E i \in 0..m-1 : c[i] = k
    BY <1>3 DEF Chain
  <1>5. m - 1 = n - 2 - h.cur /\ \A i \in 0..m-1 : i \in 0..m
    BY <1>1
  <1>6. \A i \in 0..m : FreeAfter(i) = c[i]
    BY <1>1, <1>3, FreeAfterIsChain
  <1>7. /\ \A t \in 0..h.cur-1 : /\ h.heap[t] \in Entries /\ h.id[h.heap[t]] \in 1..n-1
                                 /\ h.ids[h.id[h.heap[t]]] = t
        /\ \A f \in Entries : h.id[f] > 0 => \E t \in 0..h.cur-1 : h.heap[t] = f
    BY DEF Sound, Full, Slotted
  <1>8. free = {c[i] : i \in 0..m-1}
    BY <1>2, <1>5, <1>6
  <1>9. \A k \in 1..n-1 : k \in used <=> InUse(h, k)
    BY <1>7 DEF InUse
  <1>10. used \subseteq 1..n-1
    BY <1>7
  <1>11. FreeAfter(Size(h)-1-h.cur) = Size(h)
    <2>1. Size(h) - 1 - h.cur = m /\ m \in 0..m
      BY <1>1, <1>2
    <2> QED BY <2>1, <1>2, <1>4, <1>6
  <1>12. \A e \in Entries : h.id[e] > 0 <=> e \in InHeap
    <2>1. InHeap = {e \in Entries : h.id[e] > 0}
      BY Occupants DEF InHeap
    <2> QED BY <2>1
  <1> HIDE DEF used, free
  <1>13. used \cup free = 1..n-1 /\ used \cap free = {}
    <2> HIDE DEF m
    <2>1. free \subseteq 1..n-1
      BY <1>4, <1>8
    <2>2. \A k \in 1..n-1 : k \in free <=> ~(k \in used)
      BY <1>4, <1>8, <1>9
    <2> QED BY <2>1, <2>2, <1>10
  <1>14. \A s \in 0..h.cur-1 : h.ids[h.id[h.heap[s]]] = s
    BY <1>7
  <1> QED BY <1>2, <1>11, <1>12, <1>13, <1>14 DEF IdsSound, used, free

LEMMA SoundOrder ==
    ASSUME NEW n \in Nat, Sound(h, n)
    PROVE  HeapOrdered
  <1>1. /\ h.cur \in Nat
        /\ \A t \in 0..h.cur-1 : t # 0 => h.value[h.heap[Parent(t)]] <= h.value[h.heap[t]]
        /\ \A t \in 0..h.cur-1 : h.value[h.heap[t]] \in Nat
    BY DEF Sound, Full, Shaped, Slotted, Ordered, After
  <1>2. Parent(0) = 0
    BY DEF Parent
  <1> QED BY <1>1, <1>2 DEF HeapOrdered

\* The first slot holds the earliest entry: were there an earlier one, there
\* would be one in a least slot, and its parent would be no later.
LEMMA RootIsEarliest ==
    ASSUME NEW n \in Nat, NEW g, Sound(g, n)
    PROVE  \A t \in 0..g.cur-1 : g.value[g.heap[0]] <= g.value[g.heap[t]]
  <1> DEFINE v(t) == g.value[g.heap[t]]
             T == {t \in 0..g.cur-1 : v(t) < v(0)}
  <1>1. /\ g.cur \in Nat /\ \A t \in 0..g.cur-1 : v(t) \in Nat
        /\ \A t \in 0..g.cur-1 : t # 0 => v(Parent(t)) <= v(t)
    BY DEF Sound, Full, Shaped, Slotted, Ordered, After
  <1> HIDE DEF v
  <1>2. T = {}
    <2> SUFFICES ASSUME T # {} PROVE FALSE
      OBVIOUS
    <2>1. T \subseteq Nat
      OBVIOUS
    <2>2. PICK t \in T : \A u \in T : t <= u
      <3> HIDE DEF T
      <3> QED BY <2>1, Least
    <2>3. t \in 0..g.cur-1 /\ v(t) < v(0) /\ t # 0 /\ 0 \in 0..g.cur-1
      BY <2>2, <1>1
    <2> HIDE DEF T
    <2>4. Parent(t) \in 0..g.cur-1 /\ Parent(t) < t
      <3>1. t \in Nat
        BY <2>3
      <3>2. Parent(t) \in Nat /\ Parent(t) < t
        BY <3>1, <2>3, Tree
      <3>3. g.cur \in Nat
        BY <1>1
      <3> QED BY <3>1, <3>2, <3>3, <2>3
    <2>5. v(Parent(t)) < v(0)
      BY <2>3, <2>4, <1>1
    <2>6. Parent(t) \in T
      BY <2>4, <2>5 DEF T
    <2> QED BY <2>2, <2>3, <2>4, <2>6
  <1>3. \A t \in 0..g.cur-1 : v(0) <= v(t)
    <2> SUFFICES ASSUME NEW t \in 0..g.cur-1 PROVE v(0) <= v(t)
      OBVIOUS
    <2>1. ~(v(t) < v(0)) /\ 0 \in 0..g.cur-1
      BY <1>1, <1>2
    <2> QED BY <2>1, <1>1
  <1> QED BY <1>3 DEF v

----------------------------------------------------------------------------
(***************************************************************************)
(* The inductive invariant: the heap is Sound, an entry that is about to   *)
(* be inserted is not in it, and no two threads are about to insert the    *)
(* same entry.  The last part is what a Shared entry breaks.               *)
(***************************************************************************)
Armings ==
    /\ \A t \in Threads : arm[t] # NoArm =>
          arm[t].e \in Entries /\ arm[t].expires \in Nat /\ h.id[arm[t].e] < 1
    /\ \A t \in Threads : \A u \in Threads :
          arm[t] # NoArm /\ arm[u] # NoArm /\ arm[t].e = arm[u].e => t = u

Times ==
    /\ arm \in [Threads -> {NoArm} \cup [e: Entries, expires: Nat]]
    /\ running \in [Threads -> Entries \cup {None}]
    /\ now \in Nat
    /\ pnow \in [Threads -> Nat] /\ \A t \in Threads : pnow[t] <= now

TimerInv == (\E n \in Nat : Sound(h, n)) /\ Armings /\ Times

LEMMA InitTimerInv == Init => TimerInv
  <1> SUFFICES ASSUME Init PROVE TimerInv
    OBVIOUS
  <1>1. \E n \in Nat : Sound(h, n)
    BY InitialHeap
  <1>2. /\ arm = [t \in Threads |-> NoArm] /\ running = [t \in Threads |-> None]
        /\ now = 0 /\ pnow = [t \in Threads |-> 0]
    BY DEF Init
  <1>3. Armings /\ Times
    BY <1>2 DEF Armings, Times
  <1> QED BY <1>1, <1>3 DEF TimerInv

\* What the steps do to the heap, for the invariant and for the refinement.
LEMMA ScheduleInsertDoes ==
    ASSUME TimerInv, NEW t \in Threads, ScheduleInsert(t)
    PROVE  /\ arm[t].e \in Entries /\ arm[t].expires \in Nat /\ h.id[arm[t].e] < 1
           /\ \E n \in Nat : Sound(h', n)
           /\ h'.value = [h.value EXCEPT ![arm[t].e] = arm[t].expires]
           /\ \E i \in Nat : i > 0 /\ h'.id = [h.id EXCEPT ![arm[t].e] = i]
  <1> DEFINE e == arm[t].e
             time == arm[t].expires
  <1>1. PICK n \in Nat : Sound(h, n)
    BY DEF TimerInv
  <1>2. e \in Entries /\ time \in Nat /\ h.id[e] < 1 /\ h' = ScheduleEntry(h, e, time)
    BY DEF TimerInv, Armings, ScheduleInsert
  <1> HIDE DEF e, time
  <1>3. /\ \E z \in Nat : Sound(h', z)
        /\ h'.value = [h.value EXCEPT ![e] = time]
        /\ \E i \in Nat : i > 0 /\ h'.id = [h.id EXCEPT ![e] = i]
    BY <1>1, <1>2, ScheduleKeeps
  <1> QED BY <1>2, <1>3 DEF e, time

LEMMA CancelDoes ==
    ASSUME TimerInv, NEW t \in Threads, NEW e \in Entries, Cancel(t, e)
    PROVE  /\ \E n \in Nat : Sound(h', n)
           /\ h'.id = [h.id EXCEPT ![e] = -1] /\ h'.value = h.value
  <1>1. PICK n \in Nat : Sound(h, n)
    BY DEF TimerInv
  <1>2. h' = Cancelled(h, e)
    BY DEF Cancel
  <1>3. Sound(h', n) /\ h'.id = [h.id EXCEPT ![e] = -1] /\ h'.value = h.value
    BY <1>1, <1>2, CancelKeeps
  <1> QED BY <1>3

LEMMA PollTurnDoes ==
    ASSUME TimerInv, NEW t \in Threads, NEW m \in Nat, NEW c, PollTurn(t, m, c)
    PROVE  \/ /\ \E n \in Nat : Sound(h', n)
              /\ h.heap[0] \in Entries /\ h.id[h.heap[0]] > 0
              /\ h'.id = [h.id EXCEPT ![h.heap[0]] = -1] /\ h'.value = h.value
              /\ h.value[h.heap[0]] <= m
              /\ \A e \in Entries : h.id[e] > 0 => h.value[h.heap[0]] <= h.value[e]
              /\ running' = [running EXCEPT ![t] = h.heap[0]]
              /\ pnow' = [pnow EXCEPT ![t] = m]
           \/ /\ h' = h
              /\ running' = [running EXCEPT ![t] = None]
              /\ pnow' = [pnow EXCEPT ![t] = 0]
  <1>1. PICK n \in Nat : Sound(h, n)
    BY DEF TimerInv
  <1>2. CASE HeadDue(m) /\ c < PollMax
    <2>1. /\ h.cur > 0 /\ h.value[h.heap[0]] <= m
          /\ h' = RemoveNode(h, 0)
          /\ running' = [running EXCEPT ![t] = h.heap[0]]
          /\ pnow' = [pnow EXCEPT ![t] = m]
      BY <1>2 DEF PollTurn, HeadDue
    <2>2. h.cur \in Nat /\ 0 \in 0..h.cur-1 /\ h.heap[0] \in Entries /\ h.id[h.heap[0]] > 0
      <3>1. h.cur \in Nat /\ 0 \in 0..h.cur-1
        BY <1>1, <2>1 DEF Sound, Full, Shaped
      <3>2. h.heap[0] \in Entries /\ h.id[h.heap[0]] \in 1..n-1
        BY <1>1, <3>1 DEF Sound, Full, Slotted
      <3> QED BY <3>1, <3>2
    <2>3. /\ Sound(h', n)
          /\ h'.id = [h.id EXCEPT ![h.heap[0]] = -1] /\ h'.value = h.value
      BY <1>1, <2>1, <2>2, RemoveNodeKeeps
    <2>4. \A e \in Entries : h.id[e] > 0 => h.value[h.heap[0]] <= h.value[e]
      <3>1. \A e \in Entries : h.id[e] > 0 =>
               h.ids[h.id[e]] \in 0..h.cur-1 /\ h.heap[h.ids[h.id[e]]] = e
        BY <1>1, Occupants
      <3>2. \A s \in 0..h.cur-1 : h.value[h.heap[0]] <= h.value[h.heap[s]]
        BY <1>1, RootIsEarliest
      <3> QED BY <3>1, <3>2
    <2> QED BY <2>1, <2>2, <2>3, <2>4
  <1>3. CASE ~(HeadDue(m) /\ c < PollMax)
    BY <1>3 DEF PollTurn
  <1> QED BY <1>2, <1>3

LEMMA PollTurnKeeps ==
    ASSUME TimerInv, NEW t \in Threads, NEW m \in Nat, m <= now, NEW c,
           PollTurn(t, m, c), UNCHANGED <<now, arm>>
    PROVE  TimerInv'
  <1>1. /\ arm \in [Threads -> {NoArm} \cup [e: Entries, expires: Nat]]
        /\ running \in [Threads -> Entries \cup {None}]
        /\ now \in Nat
        /\ pnow \in [Threads -> Nat] /\ \A u \in Threads : pnow[u] <= now
    BY DEF TimerInv, Times
  <1>2. CASE /\ \E n \in Nat : Sound(h', n)
             /\ h.heap[0] \in Entries
             /\ h'.id = [h.id EXCEPT ![h.heap[0]] = -1]
             /\ running' = [running EXCEPT ![t] = h.heap[0]]
             /\ pnow' = [pnow EXCEPT ![t] = m]
    <2>1. Times'
      BY <1>1, <1>2 DEF Times
    <2>2. \A e \in Entries : h.id[e] < 1 => h'.id[e] < 1
      <3>1. h.id \in [Entries -> Int]
        BY DEF TimerInv, Sound, Full, Shaped
      <3> QED BY <3>1, <1>2
    <2>3. Armings'
      BY <2>2 DEF TimerInv, Armings, NoArm
    <2> QED BY <1>2, <2>1, <2>3 DEF TimerInv
  <1>3. CASE /\ h' = h
             /\ running' = [running EXCEPT ![t] = None]
             /\ pnow' = [pnow EXCEPT ![t] = 0]
    <2>1. Times'
      BY <1>1, <1>3 DEF Times
    <2>2. Armings'
      BY <1>3 DEF TimerInv, Armings, NoArm
    <2> QED BY <1>3, <2>1, <2>2 DEF TimerInv
  <1> QED BY <1>2, <1>3, PollTurnDoes

LEMMA NextTimerInv ==
    ASSUME ~Shared
    PROVE  TimerInv /\ [Next]_vars => TimerInv'
  <1> SUFFICES ASSUME TimerInv, [Next]_vars PROVE TimerInv'
    OBVIOUS
  <1>1. /\ arm \in [Threads -> {NoArm} \cup [e: Entries, expires: Nat]]
        /\ running \in [Threads -> Entries \cup {None}]
        /\ now \in Nat
        /\ pnow \in [Threads -> Nat] /\ \A u \in Threads : pnow[u] <= now
    BY DEF TimerInv, Times
  <1>2. \A u \in Threads : arm[u] # NoArm =>
           arm[u].e \in Entries /\ arm[u].expires \in Nat /\ h.id[arm[u].e] < 1
    BY DEF TimerInv, Armings
  <1>3. \A u \in Threads : \A w \in Threads :
           arm[u] # NoArm /\ arm[w] # NoArm /\ arm[u].e = arm[w].e => u = w
    BY DEF TimerInv, Armings
  <1>4. h.id \in [Entries -> Int]
    BY DEF TimerInv, Sound, Full, Shaped
  <1>5. ASSUME NEW t \in Threads, NEW e \in Entries, NEW d \in Delays, Schedule(t, e, d)
        PROVE  TimerInv'
    <2> DEFINE a == [e |-> e, expires |-> now + d]
    <2>1. /\ arm' = [arm EXCEPT ![t] = a]
          /\ h.id[e] < 1 /\ h' = h /\ now' = now /\ running' = running /\ pnow' = pnow
          /\ \A u \in Threads \ {t} : arm[u].e # e
      BY <1>5 DEF Schedule, MaySchedule
    <2>2. a \in [e: Entries, expires: Nat] /\ a.e = e /\ a.expires \in Nat
      BY <1>1, TimerAssumption
    <2> HIDE DEF a
    <2>3. \A u \in Threads : arm'[u] = IF u = t THEN a ELSE arm[u]
      BY <1>1, <2>1
    <2>4. Times'
      BY <1>1, <2>1, <2>2 DEF Times
    <2>5. \A u \in Threads : arm'[u] # NoArm =>
             arm'[u].e \in Entries /\ arm'[u].expires \in Nat /\ h'.id[arm'[u].e] < 1
      BY <1>2, <2>1, <2>2, <2>3
    <2>6. \A u \in Threads : \A w \in Threads :
             arm'[u] # NoArm /\ arm'[w] # NoArm /\ arm'[u].e = arm'[w].e => u = w
      <3> SUFFICES ASSUME NEW u \in Threads, NEW w \in Threads,
                          arm'[u] # NoArm, arm'[w] # NoArm, arm'[u].e = arm'[w].e
                   PROVE  u = w
        OBVIOUS
      <3>1. CASE u = t /\ w # t
        BY <3>1, <2>1, <2>2, <2>3
      <3>2. CASE u # t /\ w = t
        BY <3>2, <2>1, <2>2, <2>3
      <3>3. CASE u # t /\ w # t
        BY <3>3, <1>3, <2>3
      <3> QED BY <3>1, <3>2, <3>3
    <2>7. Armings'
      BY <2>5, <2>6 DEF Armings, NoArm
    <2>8. \E n \in Nat : Sound(h', n)
      BY <2>1 DEF TimerInv
    <2> QED BY <2>4, <2>7, <2>8 DEF TimerInv
  <1>6. ASSUME NEW t \in Threads, ScheduleInsert(t)
        PROVE  TimerInv'
    <2> DEFINE e == arm[t].e
    <2>1. e \in Entries /\ (\E n \in Nat : Sound(h', n)) /\
          \E i \in Nat : i > 0 /\ h'.id = [h.id EXCEPT ![e] = i]
      BY <1>6, ScheduleInsertDoes
    <2>2. /\ arm[t] # NoArm /\ arm' = [arm EXCEPT ![t] = NoArm]
          /\ now' = now /\ running' = running /\ pnow' = pnow
      BY <1>6 DEF ScheduleInsert
    <2>3. \A u \in Threads : arm'[u] = IF u = t THEN NoArm ELSE arm[u]
      BY <1>1, <2>2
    <2>4. Times'
      BY <1>1, <2>2 DEF Times
    <2>5. \A f \in Entries : f # e => h'.id[f] = h.id[f]
      BY <1>4, <2>1
    <2>6. \A u \in Threads : u # t /\ arm[u] # NoArm => arm[u].e # e
      BY <1>3, <2>2
    <2> HIDE DEF e
    <2>7. \A u \in Threads : arm'[u] # NoArm =>
             arm'[u].e \in Entries /\ arm'[u].expires \in Nat /\ h'.id[arm'[u].e] < 1
      BY <1>2, <2>3, <2>5, <2>6
    <2>8. \A u \in Threads : \A w \in Threads :
             arm'[u] # NoArm /\ arm'[w] # NoArm /\ arm'[u].e = arm'[w].e => u = w
      BY <1>3, <2>3
    <2>9. Armings'
      BY <2>7, <2>8 DEF Armings, NoArm
    <2> QED BY <2>1, <2>4, <2>9 DEF TimerInv
  <1>7. ASSUME NEW t \in Threads, NEW e \in Entries, Cancel(t, e)
        PROVE  TimerInv'
    <2>1. (\E n \in Nat : Sound(h', n)) /\ h'.id = [h.id EXCEPT ![e] = -1]
      BY <1>7, CancelDoes
    <2>2. now' = now /\ arm' = arm /\ running' = running /\ pnow' = pnow
      BY <1>7 DEF Cancel
    <2>3. \A f \in Entries : h.id[f] < 1 => h'.id[f] < 1
      BY <1>4, <2>1
    <2>4. Armings'
      BY <1>2, <1>3, <2>2, <2>3 DEF Armings, NoArm
    <2>5. Times'
      BY <1>1, <2>2 DEF Times
    <2> QED BY <2>1, <2>4, <2>5 DEF TimerInv
  <1>8. ASSUME NEW t \in Threads, Poll(t)
        PROVE  TimerInv'
    <2>1. PollTurn(t, now, 0) /\ UNCHANGED <<now, arm>> /\ now <= now
      BY <1>1, <1>8 DEF Poll
    <2> QED BY <1>1, <2>1, PollTurnKeeps
  <1>9. ASSUME NEW t \in Threads, CallbackReturns(t)
        PROVE  TimerInv'
    <2>1. /\ PollTurn(t, pnow[t], pcnt[t]) /\ UNCHANGED <<now, arm>>
          /\ pnow[t] \in Nat /\ pnow[t] <= now
      BY <1>1, <1>9 DEF CallbackReturns
    <2> QED BY <2>1, PollTurnKeeps
  <1>10. ASSUME Tick PROVE TimerInv'
    <2>1. now' = now + 1 /\ h' = h /\ arm' = arm /\ running' = running /\ pnow' = pnow
      BY <1>10 DEF Tick
    <2>2. Times'
      BY <1>1, <2>1 DEF Times
    <2>3. Armings'
      BY <1>2, <1>3, <2>1 DEF Armings, NoArm
    <2> QED BY <2>1, <2>2, <2>3 DEF TimerInv
  <1>11. ASSUME UNCHANGED vars PROVE TimerInv'
    <2>1. h' = h /\ now' = now /\ arm' = arm /\ running' = running /\ pnow' = pnow
      BY <1>11 DEF vars
    <2>2. Times'
      BY <1>1, <2>1 DEF Times
    <2>3. Armings'
      BY <1>2, <1>3, <2>1 DEF Armings, NoArm
    <2> QED BY <2>1, <2>2, <2>3 DEF TimerInv
  <1> QED BY <1>5, <1>6, <1>7, <1>8, <1>9, <1>10, <1>11 DEF Next

LEMMA AlwaysTimerInv ==
    ASSUME ~Shared
    PROVE  Spec => []TimerInv
  <1>1. Init => TimerInv
    BY InitTimerInv
  <1>2. TimerInv /\ [Next]_vars => TimerInv'
    BY NextTimerInv
  <1> QED BY <1>1, <1>2, PTL DEF Spec

(***************************************************************************)
(* The timer ids and their free list survive every schedule, cancellation, *)
(* expiry and growth (push_freelist, pop_freelist, copy_node, grow_heap),  *)
(* for any number of threads and entries, if no two threads schedule one   *)
(* entry at a time: an entry's id leads to its slot, and the free list     *)
(* runs through exactly the other ids.                                     *)
(***************************************************************************)
THEOREM TimerIdsSound ==
    ASSUME ~Shared
    PROVE  Spec => []IdsSound
  <1>1. TimerInv => IdsSound
    BY SoundIds DEF TimerInv
  <1> QED BY <1>1, AlwaysTimerInv, PTL

(***************************************************************************)
(* The heap order survives remove_node, reheap_up and reheap_down: no      *)
(* entry expires before the one in its parent's slot.                      *)
(***************************************************************************)
THEOREM TimerHeapOrdered ==
    ASSUME ~Shared
    PROVE  Spec => []HeapOrdered
  <1>1. TimerInv => HeapOrdered
    BY SoundOrder DEF TimerInv
  <1> QED BY <1>1, AlwaysTimerInv, PTL

----------------------------------------------------------------------------
(***************************************************************************)
(* The refinement: an entry is armed in Timers while it is in the heap.    *)
(***************************************************************************)
DueIn(g) == [e \in Entries |-> IF g.id[e] > 0 THEN g.value[e] ELSE None]
Due == [e \in Entries |-> IF e \in InHeap THEN h.value[e] ELSE None]

LEMMA DueIs ==
    ASSUME NEW n \in Nat, Sound(h, n)
    PROVE  Due = DueIn(h)
  <1>1. InHeap = {e \in Entries : h.id[e] > 0}
    BY Occupants DEF InHeap
  <1>2. \A e \in Entries : e \in InHeap <=> h.id[e] > 0
    BY <1>1
  <1> QED BY <1>2 DEF Due, DueIn

LEMMA DueIsPrime ==
    ASSUME NEW n \in Nat, Sound(h', n)
    PROVE  Due' = DueIn(h')
  <1>1. InHeap' = {e \in Entries : h'.id[e] > 0}
    BY Occupants DEF InHeap
  <1>2. \A e \in Entries : e \in InHeap' <=> h'.id[e] > 0
    BY <1>1
  <1> QED BY <1>2 DEF Due, DueIn

LEMMA InsertArms ==
    ASSUME TimerInv, TimerInv', NEW t \in Threads, ScheduleInsert(t)
    PROVE  \E e \in Entries : Abstract!Arm(e)
  <1>1. PICK e \in Entries, time \in Nat :
           /\ h.id[e] < 1
           /\ h'.value = [h.value EXCEPT ![e] = time]
           /\ \E i \in Nat : i > 0 /\ h'.id = [h.id EXCEPT ![e] = i]
    BY ScheduleInsertDoes
  <1>2. now' = now /\ running' = running
    BY DEF ScheduleInsert
  <1>3. h.id \in [Entries -> Int] /\ h.value \in [Entries -> Nat] /\ None \notin Nat
    BY TimerAssumption DEF TimerInv, Sound, Full, Shaped
  <1>4. Due = DueIn(h) /\ Due' = DueIn(h')
    BY DueIs, DueIsPrime DEF TimerInv
  <1>5. /\ \A f \in Entries : Due[f] = IF h.id[f] > 0 THEN h.value[f] ELSE None
        /\ \A f \in Entries : Due'[f] = IF h'.id[f] > 0 THEN h'.value[f] ELSE None
        /\ Due = [f \in Entries |-> Due[f]] /\ Due' = [f \in Entries |-> Due'[f]]
    BY <1>4 DEF DueIn
  <1>6. Due[e] = None /\ Due'[e] = time
    BY <1>1, <1>3, <1>5
  <1>7. \A f \in Entries : f # e => Due'[f] = Due[f]
    BY <1>1, <1>3, <1>5
  <1>8. Due' = [Due EXCEPT ![e] = Due'[e]]
    BY <1>1, <1>5, <1>7
  <1>9. Abstract!Arm(e)
    BY <1>1, <1>2, <1>6, <1>8 DEF Abstract!Arm, Abstract!Armed, Due
  <1> QED BY <1>1, <1>9

LEMMA CancelDisarms ==
    ASSUME TimerInv, TimerInv', NEW t \in Threads, NEW e \in Entries, Cancel(t, e)
    PROVE  Abstract!Disarm(e) \/ (Due' = Due /\ now' = now /\ running' = running)
  <1>1. h'.id = [h.id EXCEPT ![e] = -1] /\ h'.value = h.value
    BY CancelDoes
  <1>2. now' = now /\ running' = running
    BY DEF Cancel
  <1>3. h.id \in [Entries -> Int] /\ h.value \in [Entries -> Nat] /\ None \notin Nat
    BY TimerAssumption DEF TimerInv, Sound, Full, Shaped
  <1>4. Due = DueIn(h) /\ Due' = DueIn(h')
    BY DueIs, DueIsPrime DEF TimerInv
  <1>5. /\ \A f \in Entries : Due[f] = IF h.id[f] > 0 THEN h.value[f] ELSE None
        /\ \A f \in Entries : Due'[f] = IF h'.id[f] > 0 THEN h'.value[f] ELSE None
        /\ Due = [f \in Entries |-> Due[f]] /\ Due' = [f \in Entries |-> Due'[f]]
    BY <1>4 DEF DueIn
  <1>6. Due'[e] = None /\ \A f \in Entries : f # e => Due'[f] = Due[f]
    BY <1>1, <1>3, <1>5
  <1>7. CASE h.id[e] > 0
    <2>1. Due[e] # None
      BY <1>3, <1>5, <1>7
    <2>2. Due' = [Due EXCEPT ![e] = None]
      BY <1>5, <1>6
    <2> QED BY <1>2, <2>1, <2>2 DEF Abstract!Disarm, Abstract!Armed, Due
  <1>8. CASE ~(h.id[e] > 0)
    <2>1. \A f \in Entries : Due'[f] = Due[f]
      BY <1>5, <1>6, <1>8
    <2> QED BY <1>2, <1>5, <2>1
  <1> QED BY <1>7, <1>8

LEMMA PollFires ==
    ASSUME TimerInv, TimerInv', NEW t \in Threads, NEW m \in Nat, m <= now, NEW c,
           PollTurn(t, m, c), now' = now
    PROVE  (\E e \in Entries : Abstract!Fire(t, e)) \/ Abstract!Return(t)
  <1>1. h.id \in [Entries -> Int] /\ h.value \in [Entries -> Nat] /\ None \notin Nat
        /\ now \in Nat
    BY TimerAssumption DEF TimerInv, Sound, Full, Shaped, Times
  <1>2. Due = DueIn(h) /\ Due' = DueIn(h')
    BY DueIs, DueIsPrime DEF TimerInv
  <1>3. /\ \A f \in Entries : Due[f] = IF h.id[f] > 0 THEN h.value[f] ELSE None
        /\ \A f \in Entries : Due'[f] = IF h'.id[f] > 0 THEN h'.value[f] ELSE None
        /\ Due = [f \in Entries |-> Due[f]] /\ Due' = [f \in Entries |-> Due'[f]]
    BY <1>2 DEF DueIn
  <1>4. ASSUME NEW e \in Entries, h.id[e] > 0,
               h'.id = [h.id EXCEPT ![e] = -1], h'.value = h.value,
               h.value[e] <= m,
               \A f \in Entries : h.id[f] > 0 => h.value[e] <= h.value[f],
               running' = [running EXCEPT ![t] = e]
        PROVE  \E f \in Entries : Abstract!Fire(t, f)
    <2>1. Due[e] = h.value[e] /\ Due[e] # None /\ Due[e] <= now
      BY <1>1, <1>3, <1>4
    <2>2. \A f \in Entries : Due[f] # None => Due[e] <= Due[f]
      BY <1>3, <1>4
    <2>3. Due'[e] = None /\ \A f \in Entries : f # e => Due'[f] = Due[f]
      BY <1>1, <1>3, <1>4
    <2>4. Due' = [Due EXCEPT ![e] = None]
      BY <1>3, <1>4, <2>3
    <2>5. Abstract!Fire(t, e)
      BY <1>4, <2>1, <2>2, <2>4 DEF Abstract!Fire, Abstract!Armed, Due
    <2> QED BY <1>4, <2>5
  <1>5. CASE h' = h /\ running' = [running EXCEPT ![t] = None]
    <2>1. Due' = Due
      BY <1>2, <1>5
    <2> QED BY <1>5, <2>1 DEF Abstract!Return, Due
  <1> QED BY <1>4, <1>5, PollTurnDoes

LEMMA InitAbstract == Init => Abstract!Init
  <1> SUFFICES ASSUME Init PROVE Abstract!Init
    OBVIOUS
  <1>1. now = 0 /\ running = [t \in Threads |-> None]
    BY DEF Init
  <1>2. h.cur = 0
    BY DEF Init
  <1>3. InHeap = {}
    BY <1>2 DEF InHeap
  <1> QED BY <1>1, <1>3 DEF Abstract!Init

LEMMA StepAbstract ==
    ASSUME TimerInv, TimerInv', [Next]_vars
    PROVE  [Abstract!Next]_<<Due, now, running>>
  <1>1. ASSUME NEW t \in Threads, NEW e \in Entries, NEW d \in Delays, Schedule(t, e, d)
        PROVE  UNCHANGED <<Due, now, running>>
    BY <1>1 DEF Schedule, Due, InHeap
  <1>2. ASSUME NEW t \in Threads, ScheduleInsert(t)
        PROVE  Abstract!Next
    BY <1>2, InsertArms DEF Abstract!Next
  <1>3. ASSUME NEW t \in Threads, NEW e \in Entries, Cancel(t, e)
        PROVE  [Abstract!Next]_<<Due, now, running>>
    BY <1>3, CancelDisarms DEF Abstract!Next
  <1>4. ASSUME NEW t \in Threads, Poll(t)
        PROVE  Abstract!Next
    <2>1. PollTurn(t, now, 0) /\ now' = now /\ now \in Nat /\ now <= now
      BY <1>4 DEF Poll, TimerInv, Times
    <2>2. (\E e \in Entries : Abstract!Fire(t, e)) \/ Abstract!Return(t)
      BY <2>1, PollFires
    <2> QED BY <2>2 DEF Abstract!Next
  <1>5. ASSUME NEW t \in Threads, CallbackReturns(t)
        PROVE  Abstract!Next
    <2>1. /\ PollTurn(t, pnow[t], pcnt[t]) /\ now' = now
          /\ pnow[t] \in Nat /\ pnow[t] <= now
      BY <1>5 DEF CallbackReturns, TimerInv, Times
    <2>2. (\E e \in Entries : Abstract!Fire(t, e)) \/ Abstract!Return(t)
      BY <2>1, PollFires
    <2> QED BY <2>2 DEF Abstract!Next
  <1>6. ASSUME Tick PROVE Abstract!Next
    <2>1. now' = now + 1 /\ h' = h /\ running' = running
      BY <1>6 DEF Tick
    <2> QED BY <2>1 DEF Abstract!Next, Abstract!Tick, InHeap
  <1>7. ASSUME UNCHANGED vars PROVE UNCHANGED <<Due, now, running>>
    BY <1>7 DEF vars, Due, InHeap
  <1> QED BY <1>1, <1>2, <1>3, <1>4, <1>5, <1>6, <1>7 DEF Next

(***************************************************************************)
(* The timer heap implements Timers for any number of threads, entries and *)
(* ticks, if no two threads schedule one entry at a time: a poll starts    *)
(* the callback of an armed entry that is due and of none that is due      *)
(* later than another one, and an entry that was cancelled or has fired    *)
(* does not fire until it is scheduled again.                              *)
(***************************************************************************)
THEOREM TimerHeapImplementsTimers ==
    ASSUME ~Shared
    PROVE  Spec => ImplementsTimers
  <1>1. Init => Abstract!Init
    BY InitAbstract
  <1>2. TimerInv /\ TimerInv' /\ [Next]_vars => [Abstract!Next]_<<Due, now, running>>
    BY StepAbstract
  <1> QED BY <1>1, <1>2, AlwaysTimerInv, PTL DEF Spec, ImplementsTimers, Abstract!Spec, Due
============================================================================
