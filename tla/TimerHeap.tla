----------------------------- MODULE TimerHeap -----------------------------
(***************************************************************************)
(* The timer heap of oslib/src/timer.c: a binary heap of entries ordered   *)
(* by expiry, a table from timer ids to heap slots through which the free  *)
(* ids are linked, and the calls of several threads on it.  The heap's     *)
(* lock is released around each callback and around nothing else, so what  *)
(* happens between two callbacks is one step; the test of                  *)
(* TIMER_HeapSchedule is made before the lock is taken and is a step of    *)
(* its own.                                                                *)
(***************************************************************************)
EXTENDS Integers, FiniteSets

CONSTANTS
    Threads,
    NEntries,    \* the application's T_TimerEntity records are 1..NEntries
    None,
    Pollers,     \* threads that call TIMER_HeapPoll
    Armers,      \* threads that schedule entries
    Cancellers,  \* threads that cancel entries
    Rearmed,     \* entries whose callback schedules them again
    Shared,      \* TRUE: two threads may schedule the same entry at a time
    Delays,      \* the delays the application asks for
    InitSize,    \* _stSize of TIMER_HeapCreate
    PollMax,     \* m_u32PollMax
    MaxArms,     \* bound: how often an entry is scheduled
    MaxNow       \* bound: the last tick

Entries == 1..NEntries

ASSUME TimerAssumption ==
    /\ NEntries \in Nat /\ InitSize \in Nat /\ MaxArms \in Nat /\ MaxNow \in Nat
    /\ PollMax \in Nat \ {0}
    /\ Delays \subseteq Nat
    /\ Pollers \cup Armers \cup Cancellers \subseteq Threads
    /\ Rearmed \subseteq Entries /\ Shared \in BOOLEAN
    /\ None \notin Threads \cup Entries /\ None \notin Nat

VARIABLES
    h,        \* the heap: its arrays, and the fields it keeps in the entries
    now,
    arm,      \* arm[t]: the schedule call that passed its test, or NoArm
    running,  \* running[t]: the entry whose callback thread t is in
    pnow,     \* now and u32Count of the TIMER_HeapPoll thread t is in
    pcnt,
    arms      \* history: how often the application has scheduled an entry

vars == <<h, now, arm, running, pnow, pcnt, arms>>

NoArm == [e |-> None, expires |-> 0]

----------------------------------------------------------------------------
(***************************************************************************)
(* The arrays.  heap[s] is the entry in slot s, ids[i] the slot of the     *)
(* entry with timer id i or, negated, the id after i on the free list.     *)
(***************************************************************************)
Size(g) == Cardinality(DOMAIN g.ids)

Parent(s) == IF s = 0 THEN 0 ELSE (s - 1) \div 2
Left(s)   == s + s + 1

CopyNode(g, s, e) == [g EXCEPT !.heap[s] = e, !.ids[g.id[e]] = s]

PopFreelist(g, e) == [g EXCEPT !.id[e] = g.free, !.free = -g.ids[g.free]]
PushFreelistUnlinked(g, i) == [g EXCEPT !.free = i]          \* mutant
PushFreelist(g, i) == [g EXCEPT !.ids[i] = -g.free, !.free = i]

(***************************************************************************)
(* The loops of reheap_down and reheap_up.  The entry being placed is held *)
(* back: w.s is the slot that waits for it, and a turn fills that slot     *)
(* from a neighbour, which then waits instead.  The loop's turns are a     *)
(* recursive function; one that finds nothing to move stays as it is.      *)
(***************************************************************************)
MoveGap(w, t) == [g |-> CopyNode(w.g, w.s, w.g.heap[t]), s |-> t]

EarlierChild(g, s) ==
    LET c == Left(s)
    IN  IF c + 1 < g.cur /\ g.value[g.heap[c + 1]] < g.value[g.heap[c]]
        THEN c + 1 ELSE c

DownTurn(w, e) ==
    LET c == EarlierChild(w.g, w.s)
    IN  IF Left(w.s) < w.g.cur /\ w.g.value[w.g.heap[c]] < w.g.value[e]
        THEN MoveGap(w, c) ELSE w

UpTurn(w, e) ==
    LET p == Parent(w.s)
    IN  IF w.s > 0 /\ w.g.value[e] < w.g.value[w.g.heap[p]]
        THEN MoveGap(w, p) ELSE w

DownTurns(g, e, s) ==
    LET turn[n \in 0..g.cur] ==
            IF n = 0 THEN [g |-> g, s |-> s] ELSE DownTurn(turn[n - 1], e)
    IN  turn

UpTurns(g, e, s) ==
    LET turn[n \in 0..s] ==
            IF n = 0 THEN [g |-> g, s |-> s] ELSE UpTurn(turn[n - 1], e)
    IN  turn

ReheapDown(g, e, s) == LET w == DownTurns(g, e, s)[g.cur] IN CopyNode(w.g, w.s, e)
ReheapUp(g, e, s)   == LET w == UpTurns(g, e, s)[s]       IN CopyNode(w.g, w.s, e)

\* Mutant: the last entry is always moved down.
RemoveNodeDown(g, s) ==
    LET p == PushFreelist(g, g.id[g.heap[s]])
        r == [p EXCEPT !.cur = @ - 1, !.id[g.heap[s]] = -1]
        moved == r.heap[r.cur]
    IN  IF s < r.cur THEN ReheapDown(CopyNode(r, s, moved), moved, s)
        ELSE r

RemoveNode(g, s) ==
    LET p == PushFreelist(g, g.id[g.heap[s]])
        r == [p EXCEPT !.cur = @ - 1, !.id[g.heap[s]] = -1]
        moved == r.heap[r.cur]
        c == CopyNode(r, s, moved)
    IN  IF s >= r.cur THEN r
        ELSE IF c.value[moved] >= c.value[c.heap[Parent(s)]]
        THEN ReheapDown(c, moved, s)
        ELSE ReheapUp(c, moved, s)

GrowHeap(g) ==
    LET n == Size(g)
    IN  [g EXCEPT !.heap = [s \in 0..2*n-1 |-> IF s < n THEN g.heap[s] ELSE None],
                  !.ids  = [i \in 0..2*n-1 |-> IF i < n THEN g.ids[i] ELSE -(i + 1)]]

InsertNode(g, e) ==
    LET b == IF g.cur + 2 >= Size(g) THEN GrowHeap(g) ELSE g
    IN  [ReheapUp(b, e, b.cur) EXCEPT !.cur = @ + 1]

ScheduleEntry(g, e, time) ==
    IF g.cur < Size(g)
    THEN InsertNode([PopFreelist(g, e) EXCEPT !.value[e] = time], e)
    ELSE g

\* cancel: an entry that is not in the heap only loses its id.
Cancelled(g, e) ==
    IF \/ g.id[e] < 0 \/ g.id[e] > Size(g)
       \/ g.ids[g.id[e]] < 0
       \/ g.heap[g.ids[g.id[e]]] # e
    THEN [g EXCEPT !.id[e] = -1]
    ELSE RemoveNode(g, g.ids[g.id[e]])

----------------------------------------------------------------------------
(***************************************************************************)
(* TIMER_HeapCreate.  TIMER_EntityInit gives an entry the id -1; the test  *)
(* program clears its entries instead, so that their id is 0.              *)
(***************************************************************************)
Init ==
    /\ \E i \in {-1, 0} :
          h = [heap |-> [s \in 0..InitSize+1 |-> None],
               ids |-> [s \in 0..InitSize+1 |-> -(s + 1)],
               free |-> 1, cur |-> 0,
               id |-> [e \in Entries |-> i],
               value |-> [e \in Entries |-> 0]]
    /\ now = 0
    /\ arm = [t \in Threads |-> NoArm]
    /\ running = [t \in Threads |-> None]
    /\ pnow = [t \in Threads |-> 0]
    /\ pcnt = [t \in Threads |-> 0]
    /\ arms = [e \in Entries |-> 0]

Idle(t) == arm[t] = NoArm /\ running[t] = None

\* The application: outside callbacks it schedules its entries in turn, a
\* callback schedules its own entry.  Unless they are Shared, an entry is
\* scheduled by one thread at a time.
MaySchedule(t, e) ==
    /\ arm[t] = NoArm /\ arms[e] < MaxArms
    /\ \/ running[t] = None /\ t \in Armers
          /\ \A f \in Entries : f < e => arms[f] > arms[e]
       \/ running[t] = e /\ e \in Rearmed
    /\ \/ Shared
       \/ \A u \in Threads \ {t} : arm[u].e # e /\ running[u] # e

\* TIMER_HeapSchedule up to the lock: the test that the entry is not running
\* and the computation of its expiry.
Schedule(t, e, d) ==
    /\ MaySchedule(t, e)
    /\ h.id[e] < 1
    /\ arm' = [arm EXCEPT ![t] = [e |-> e, expires |-> now + d]]
    /\ arms' = [arms EXCEPT ![e] = @ + 1]
    /\ UNCHANGED <<h, now, running, pnow, pcnt>>

\* The rest of it, under the lock.
ScheduleInsert(t) ==
    /\ arm[t] # NoArm
    /\ h' = ScheduleEntry(h, arm[t].e, arm[t].expires)
    /\ arm' = [arm EXCEPT ![t] = NoArm]
    /\ UNCHANGED <<now, running, pnow, pcnt, arms>>

\* TIMER_EntityCancel and TIMER_EntityCancelIfActive.
Cancel(t, e) ==
    /\ t \in Cancellers /\ arm[t] = NoArm
    /\ h' = Cancelled(h, e)
    /\ UNCHANGED <<now, arm, running, pnow, pcnt, arms>>

HeadDueEarly(n)  == h.cur > 0                                \* mutant
HeadDueStrict(n) == h.cur > 0 /\ h.value[h.heap[0]] < n      \* mutant
HeadDue(n) == h.cur > 0 /\ h.value[h.heap[0]] <= n

\* The loop of TIMER_HeapPoll up to the next callback, or to its return.
PollTurn(t, n, c) ==
    IF HeadDue(n) /\ c < PollMax
    THEN /\ h' = RemoveNode(h, 0)
         /\ running' = [running EXCEPT ![t] = h.heap[0]]
         /\ pnow' = [pnow EXCEPT ![t] = n] /\ pcnt' = [pcnt EXCEPT ![t] = c + 1]
    ELSE /\ running' = [running EXCEPT ![t] = None]
         /\ pnow' = [pnow EXCEPT ![t] = 0] /\ pcnt' = [pcnt EXCEPT ![t] = 0]
         /\ UNCHANGED h

Poll(t) ==
    /\ t \in Pollers /\ Idle(t)
    /\ h.cur > 0
    /\ PollTurn(t, now, 0)
    /\ UNCHANGED <<now, arm, arms>>

\* A callback returns to the loop.
CallbackReturns(t) ==
    /\ running[t] # None /\ arm[t] = NoArm
    /\ PollTurn(t, pnow[t], pcnt[t])
    /\ UNCHANGED <<now, arm, arms>>

Tick ==
    /\ now < MaxNow
    /\ now' = now + 1
    /\ UNCHANGED <<h, arm, running, pnow, pcnt, arms>>

Next ==
    \/ \E t \in Threads :
          \/ ScheduleInsert(t) \/ Poll(t) \/ CallbackReturns(t)
          \/ \E e \in Entries : Cancel(t, e) \/ \E d \in Delays : Schedule(t, e, d)
    \/ Tick

Spec == Init /\ [][Next]_vars

\* Calls under way are finished, callbacks return, somebody keeps polling and
\* time passes.
Fairness ==
    /\ \A t \in Threads : /\ WF_vars(ScheduleInsert(t))
                          /\ WF_vars(CallbackReturns(t))
    /\ \A t \in Pollers : WF_vars(Poll(t))
    /\ WF_vars(Tick)

FairSpec == Spec /\ Fairness

----------------------------------------------------------------------------
InHeap == {h.heap[s] : s \in 0..h.cur-1}

TypeOK ==
    /\ h.cur \in 0..NEntries /\ h.free \in Nat /\ Size(h) >= h.cur + 2
    /\ DOMAIN h.heap = DOMAIN h.ids
    /\ InHeap \subseteq Entries
    /\ now \in 0..MaxNow
    /\ arm \in [Threads -> {NoArm} \cup [e: Entries, expires: Nat]]
    /\ running \in [Threads -> Entries \cup {None}]
    /\ pnow \in [Threads -> 0..MaxNow] /\ pcnt \in [Threads -> 0..PollMax]
    /\ arms \in [Entries -> 0..MaxArms]

\* The chain of free ids, followed n links far.
FreeAfter(n) ==
    LET step[i \in 0..n] == IF i = 0 THEN h.free ELSE -h.ids[step[i - 1]]
    IN  step[n]

\* Timer ids: the entry in a slot has an id of its own that leads back to the
\* slot, and the free list runs through exactly the other ids, from free to
\* one past the end of the table, where the next growth continues it.
IdsSound ==
    LET used == {h.id[h.heap[s]] : s \in 0..h.cur-1}
        free == {FreeAfter(n) : n \in 0..Size(h)-2-h.cur}
    IN  /\ \A s \in 0..h.cur-1 : h.ids[h.id[h.heap[s]]] = s
        /\ \A e \in Entries : h.id[e] > 0 <=> e \in InHeap
        /\ used \cup free = 1..Size(h)-1 /\ used \cap free = {}
        /\ FreeAfter(Size(h)-1-h.cur) = Size(h)

\* No entry expires before its parent in the heap.
HeapOrdered ==
    \A s \in 0..h.cur-1 : h.value[h.heap[Parent(s)]] <= h.value[h.heap[s]]

\* An entry is in the heap at most once: TIMER_HeapSchedule refuses one that
\* is running (ASSERT_RETURN at timer.c:323).
ScheduledOnce == Cardinality(InHeap) = h.cur

\* Whatever the heap does with its arrays, it behaves like a set of armed
\* entries from which the earliest due one is taken.
Abstract == INSTANCE Timers WITH
                due <- [e \in Entries |-> IF e \in InHeap THEN h.value[e] ELSE None]
ImplementsTimers == Abstract!Spec

\* An entry that is due does not stay in the heap.
DueEntryLeaves ==
    \A e \in Entries : (e \in InHeap /\ h.value[e] <= now) ~> e \notin InHeap
============================================================================
