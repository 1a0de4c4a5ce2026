--------------------------- MODULE IoqueueProofs ---------------------------
(***************************************************************************)
(* Proofs about Ioqueue for any number of threads, keys and operations:    *)
(* the reference count of a key is exact, no key is recycled under a       *)
(* poller, and callbacks under the key's lock do not outlive its socket.   *)
(***************************************************************************)
EXTENDS Ioqueue, FiniteSetTheorems, SequenceTheorems,
        TLAPS

(***************************************************************************)
(* What each action does to the variables of Types (core).  The actions    *)
(* that also handle data are projected onto them; the others are used as   *)
(* they are.                                                               *)
(***************************************************************************)
core == <<lockVars, list, ref_count, closing, free_due, polled, fd, pc, evs,
          queue, todo, cb, call>>
keyVars == <<list, ref_count, closing, free_due, polled, fd>>

WaitEvents(t) ==
    /\ pc[t] = "idle"
    /\ \E E \in [Keys -> SUBSET {"IN", "OUT", "ERR"}] :
          /\ \A k \in Keys : E[k] # {} => polled[k]
          /\ evs' = [evs EXCEPT ![t] = E]
    /\ Goto(t, "pollevents")
    /\ UNCHANGED <<lockVars, keyVars, queue, todo, cb, call>>

PollMove(t) ==
    /\ \/ pc[t] = "idle" /\ Goto(t, "polltimeout")
       \/ pc[t] = "pollconnect" /\ Goto(t, "idle")
    /\ UNCHANGED <<lockVars, keyVars, evs, queue, todo, cb, call>>

WalkBegin(t) ==
    /\ pc[t] = "pollconnect" /\ qlock = None
    /\ qlock' = t
    /\ todo' = [todo EXCEPT ![t] = {k \in Keys : list[k] = "active"}]
    /\ Goto(t, "ctloop")
    /\ UNCHANGED <<klock, kdepth, keyVars, evs, queue, cb, call>>

WalkSkip(t, k) ==
    /\ pc[t] = "ctloop" /\ k \in todo[t]
    /\ todo' = [todo EXCEPT ![t] = @ \ {k}]
    /\ UNCHANGED <<lockVars, keyVars, pc, evs, queue, cb, call>>

\* A dispatcher that has the key's lock starts the completion r.
Deliver(t, k, r) ==
    /\ KeyFree(t, k) /\ ~closing[k]
    /\ r.key = k
    /\ cb' = [cb EXCEPT ![t] = r]
    /\ IF r.has_lock THEN LockKey(t, k) ELSE UNCHANGED <<klock, kdepth>>
    /\ Goto(t, "cbcheck")
    /\ UNCHANGED <<qlock, keyVars, evs, queue, call>>

WalkCb(t, k, r) ==
    /\ pc[t] = "ctloop" /\ k \in todo[t] /\ r.then = "ctloop"
    /\ todo' = [todo EXCEPT ![t] = @ \ {k}]
    /\ Deliver(t, k, r)

DispatchCb(t, k, r) ==
    /\ pc[t] = "dispatch" /\ queue[t][k] # "NO_EVENT" /\ r.then = "dec"
    /\ Deliver(t, k, r)
    /\ UNCHANGED todo

CallMove(t) ==
    /\ \/ /\ pc[t] \in {"recv", "send", "accept", "queue_op", "connect",
                        "connect_lock", "post"}
          /\ Return(t)
       \/ pc[t] \in {"recv", "send", "accept"} /\ Goto(t, "queue_op") /\ UNCHANGED call
       \/ pc[t] = "connect" /\ Goto(t, "connect_lock") /\ UNCHANGED call
    /\ UNCHANGED <<lockVars, keyVars, evs, queue, todo, cb>>

PostCb(t, r) ==
    /\ pc[t] = "post"
    /\ r.key = call[t].key /\ ~r.has_lock /\ r.then = "idle"
    /\ cb' = [cb EXCEPT ![t] = r]
    /\ call' = [call EXCEPT ![t] = NoCall]
    /\ Goto(t, "cbenter")
    /\ UNCHANGED <<lockVars, keyVars, evs, queue, todo>>

UnregDelOk(t) ==
    /\ pc[t] = "unreg_del" /\ qlock = None
    /\ polled' = [polled EXCEPT ![call[t].key] = FALSE]
    /\ Goto(t, "unreg_close")
    /\ UNCHANGED <<lockVars, list, ref_count, closing, free_due, fd, evs, queue,
                   todo, cb, call>>

UnregDelFail(t) ==
    /\ pc[t] = "unreg_del" /\ qlock = None
    /\ UnlockKey(call[t].key)
    /\ Return(t)
    /\ UNCHANGED <<qlock, keyVars, evs, queue, todo, cb>>

RegisterScan ==
    /\ qlock = None
    /\ list' = Scanned
    /\ UNCHANGED <<lockVars, ref_count, closing, free_due, polled, fd, pc, evs,
                   queue, todo, cb, call>>

RegisterKey(k, n, added) ==
    /\ qlock = None
    /\ Scanned[k] = "free"
    /\ list' = [Scanned EXCEPT ![k] = IF added THEN "active" ELSE "lost"]
    /\ ref_count' = [ref_count EXCEPT ![k] = @ + 1]
    /\ closing' = [closing EXCEPT ![k] = FALSE]
    /\ fd' = [fd EXCEPT ![k] = n]
    /\ polled' = [polled EXCEPT ![k] = added]
    /\ UNCHANGED <<lockVars, free_due, pc, evs, queue, todo, cb, call>>

Begin(t, c, k, o) ==
    /\ \/ pc[t] = "idle" /\ Held(k) /\ c # "set_concurrency"
       \/ pc[t] = "incb" /\ k = cb[t].key /\ c \notin {"post", "set_concurrency"}
    /\ c \in OpCalls \cup {"post"} => o \in Ops
    /\ call' = [call EXCEPT ![t] = [key |-> k, op |-> o, kind |-> c,
                   ret |-> IF pc[t] = "idle" THEN "idle" ELSE "cbend"]]
    /\ Goto(t, c)
    /\ UNCHANGED <<lockVars, keyVars, evs, queue, todo, cb>>

CorePoll(t) ==
    \/ WaitEvents(t) \/ PollMove(t) \/ PollLock(t) \/ PollUnlock(t)
    \/ PollDecrement(t) \/ PollReturn(t) \/ PollScan(t)
    \/ WalkBegin(t) \/ ConnectTimeoutEnd(t)
    \/ \E k \in Keys : \/ Collect(t, k) \/ WalkSkip(t, k) \/ DispatchNothing(t, k)
                       \/ \E r \in CbRecord : WalkCb(t, k, r) \/ DispatchCb(t, k, r)

CoreCall(t) ==
    \/ UnregLock(t) \/ UnregDelOk(t) \/ UnregDelFail(t) \/ UnregClose(t)
    \/ UnregDecrement(t) \/ UnregUnlock(t) \/ CallMove(t)
    \/ \E r \in CbRecord : PostCb(t, r)
    \/ \E c \in KeyCalls, k \in Keys, o \in Ops \cup {None} : Begin(t, c, k, o)

CoreNext ==
    \/ \E t \in Threads : CorePoll(t) \/ CbStep(t) \/ CoreCall(t)
    \/ RegisterScan
    \/ \E k \in Keys, n \in Nat, added \in BOOLEAN : RegisterKey(k, n, added)
    \/ \E k \in Keys : FreeDelayPasses(k)

(***************************************************************************)
(* The inductive invariant.  TypeOK is not inductive by itself: that       *)
(* ref_count and kdepth stay natural numbers is a consequence of RefInv    *)
(* and LockInv, so Types allows them any integer.                          *)
(***************************************************************************)
Types ==
    /\ qlock \in Threads \cup {None}
    /\ klock \in [Keys -> Threads \cup {None}]
    /\ kdepth \in [Keys -> Int]
    /\ list \in [Keys -> Lists]
    /\ ref_count \in [Keys -> Int]
    /\ closing \in [Keys -> BOOLEAN]
    /\ free_due \in [Keys -> BOOLEAN]
    /\ polled \in [Keys -> BOOLEAN]
    /\ fd \in [Keys -> Nat]
    /\ pc \in [Threads -> PcSet]
    /\ evs \in [Threads -> [Keys -> SUBSET {"IN", "OUT", "ERR"}]]
    /\ queue \in [Threads -> [Keys -> EventTypes]]
    /\ todo \in [Threads -> SUBSET Keys]
    /\ cb \in [Threads -> CbRecord]
    /\ call \in [Threads -> CallRecord]

\* The rest of TypeOK: variables no argument about the life cycle needs.
DataTypes ==
    /\ count \in Nat
    /\ allow_concurrent \in [Keys -> BOOLEAN]
    /\ pending \in [Keys -> [OpCalls -> Seq(Ops)]]
    /\ connecting \in [Keys -> BOOLEAN]
    /\ connect_due \in [Keys -> BOOLEAN]
    /\ op \in [Ops -> OpCalls \cup {"none"}]
    /\ want_out \in [Keys -> BOOLEAN]
    /\ rx \in [Keys -> Nat]
    /\ conn \in [Keys -> {"none", "pending", "done", "failed"}]
    /\ eagain \in [Threads -> BOOLEAN]
    /\ outst \subseteq Ops
    /\ dropped \in BOOLEAN
    /\ broken \subseteq {"free_list", "ref_count", "closing", "count", "send_rc"}

\* Which records a thread has set up at each point of its program.
NoCbPc == {"idle"} \cup (PollPc \ {"dec"})

FrameInv ==
    \A t \in Threads :
        /\ pc[t] \in NoCbPc => cb[t] = NoCb
        /\ pc[t] = "dec" => /\ cb[t].key \in Keys
                            /\ ~cb[t].has_lock /\ cb[t].then = "idle"
        /\ pc[t] \in CbPc => cb[t].key \in Keys
        /\ pc[t] \in ApiPc => /\ call[t].key \in Keys
                              /\ call[t].ret = "idle" => cb[t] = NoCb
                              /\ call[t].ret = "cbend" => cb[t].key \in Keys
        /\ pc[t] = "post" => call[t].ret = "idle"
        /\ pc[t] \in {"recv", "send", "accept", "queue_op", "post"} =>
               call[t].op \in Ops
        /\ pc[t] \in {"recv", "send", "accept", "queue_op"} =>
               call[t].kind \in OpCalls

\* How often thread t has locked key k: for a callback, for unregistering.
Depth(t, k) == (IF cb[t].has_lock /\ cb[t].key = k THEN 1 ELSE 0)
             + (IF pc[t] \in UnregPc /\ call[t].key = k THEN 1 ELSE 0)

LockInv ==
    \A k \in Keys :
        /\ klock[k] = None => kdepth[k] = 0
        /\ klock[k] # None => kdepth[k] > 0
        /\ \A t \in Threads :
              IF klock[k] = t THEN kdepth[k] = Depth(t, k) ELSE Depth(t, k) = 0

\* ioqueue->lock, and the walk that it protects.
QueueLockInv ==
    \A t \in Threads :
        /\ pc[t] \in {"collect", "ctloop"} \/ cb[t].then = "ctloop" => qlock = t
        /\ todo[t] # {} => qlock = t /\ (pc[t] = "ctloop" \/ cb[t].then = "ctloop")
        /\ \A k \in todo[t] : list[k] = "active"

\* queue[] is in use from collecting to the last decrement_counter, and the
\* entry being dispatched is still there.
QueueInv ==
    \A t \in Threads :
        /\ \A k \in Keys :
              /\ queue[t][k] # "NO_EVENT" =>
                    pc[t] \in {"collect", "dispatch", "dec"} \/ cb[t].then = "dec"
              /\ evs[t][k] # {} => /\ pc[t] \in {"pollevents", "collect"}
                                   /\ queue[t][k] = "NO_EVENT"
        /\ pc[t] = "dec" \/ cb[t].then = "dec" =>
              cb[t].key \in Keys /\ queue[t][cb[t].key] # "NO_EVENT"

\* The lists against the flags, and what an unregistration has done so far.
ListInv ==
    \A k \in Keys :
        /\ list[k] = "closing" => closing[k]
        /\ polled[k] => list[k] = "active" /\ ~closing[k]
        /\ \A t \in Threads :
              /\ Busy(t, k) => \/ list[k] = "active"
                               \/ list[k] = "closing" /\ ~free_due[k]
              /\ queue[t][k] # "NO_EVENT" => list[k] = "active"
              /\ pc[t] \in {"unreg_del", "unreg_close"} /\ call[t].key = k =>
                    list[k] = "active" /\ ~closing[k]
              /\ pc[t] = "unreg_close" /\ call[t].key = k => ~polled[k]
              /\ pc[t] = "unreg_dec" /\ call[t].key = k =>
                    list[k] = "active" /\ closing[k]

RefInv == RefCountExact /\ ActiveIffReferenced

IInv == /\ Types /\ DataTypes /\ FrameInv /\ LockInv /\ QueueLockInv /\ QueueInv
        /\ ListInv /\ RefInv /\ LifecycleAsserts /\ NoLateLockedCallback

\* Every step of the specification is one of these steps, or leaves core alone.
LEMMA CoreStep ==
    Types /\ DataTypes /\ FrameInv /\ [Next]_vars => [CoreNext]_core
<1> SUFFICES ASSUME Types, DataTypes, FrameInv, [Next]_vars
             PROVE  [CoreNext]_core
  OBVIOUS
<1> USE NoneAssumption, SettingsAssumption, CallsAssumption, BoundsAssumption
<1>1. ASSUME NEW t \in Threads, PollWait(t)
      PROVE  [CoreNext]_core
  <2>1. CASE /\ ReadyKeys = {} /\ Goto(t, "polltimeout") /\ UNCHANGED evs
    <3>1. PollMove(t)
      BY <1>1, <2>1 DEF PollWait, PollMove, lockVars, lifeVars, kernVars, keyVars
    <3>2. QED
      BY <3>1 DEF CoreNext, CorePoll
  <2>2. CASE \E K \in SUBSET ReadyKeys :
               /\ evs' = [evs EXCEPT ![t] =
                             [k \in Keys |-> IF k \in K THEN Ready(k) ELSE {}]]
               /\ Goto(t, "pollevents")
    <3> PICK K \in SUBSET ReadyKeys :
               /\ evs' = [evs EXCEPT ![t] =
                             [k \in Keys |-> IF k \in K THEN Ready(k) ELSE {}]]
               /\ Goto(t, "pollevents")
      BY <2>2
    <3> DEFINE E == [k \in Keys |-> IF k \in K THEN Ready(k) ELSE {}]
    <3>1. E \in [Keys -> SUBSET {"IN", "OUT", "ERR"}]
      BY DEF Ready
    <3>2. \A k \in Keys : E[k] # {} => polled[k]
      BY DEF ReadyKeys
    <3>3. pc[t] = "idle" /\ UNCHANGED <<lockVars, keyVars, queue, todo, cb, call>>
      BY <1>1 DEF PollWait, lockVars, lifeVars, kernVars, keyVars
    <3>4. WaitEvents(t)
      BY <3>1, <3>2, <3>3 DEF WaitEvents
    <3>5. QED
      BY <3>4 DEF CoreNext, CorePoll
  <2>3. QED
    BY <1>1, <2>1, <2>2 DEF PollWait
<1>2. ASSUME NEW t \in Threads, PollLock(t)
      PROVE  [CoreNext]_core
  BY <1>2 DEF CoreNext, CorePoll
<1>3. ASSUME NEW t \in Threads, PollUnlock(t)
      PROVE  [CoreNext]_core
  BY <1>3 DEF CoreNext, CorePoll
<1>4. ASSUME NEW t \in Threads, PollDecrement(t)
      PROVE  [CoreNext]_core
  BY <1>4 DEF CoreNext, CorePoll
<1>5. ASSUME NEW t \in Threads, PollReturn(t)
      PROVE  [CoreNext]_core
  BY <1>5 DEF CoreNext, CorePoll
<1>6. ASSUME NEW t \in Threads, PollScan(t)
      PROVE  [CoreNext]_core
  BY <1>6 DEF CoreNext, CorePoll
<1>7. ASSUME NEW t \in Threads, ConnectTimeoutEnd(t)
      PROVE  [CoreNext]_core
  BY <1>7 DEF CoreNext, CorePoll
<1>8. ASSUME NEW t \in Threads, ConnectTimeoutBegin(t)
      PROVE  [CoreNext]_core
  <2>1. PollMove(t) \/ WalkBegin(t)
    BY <1>8 DEF ConnectTimeoutBegin, PollMove, WalkBegin, lockVars, lifeVars, kernVars,
        keyVars
  <2>2. QED
    BY <2>1 DEF CoreNext, CorePoll
<1>9. ASSUME NEW t \in Threads, NEW k \in Keys, Collect(t, k)
      PROVE  [CoreNext]_core
  BY <1>9 DEF CoreNext, CorePoll
<1>10. ASSUME NEW t \in Threads, NEW k \in Keys, DispatchNothing(t, k)
      PROVE  [CoreNext]_core
  BY <1>10 DEF CoreNext, CorePoll
<1>11. ASSUME NEW t \in Threads, NEW k \in Keys, DispatchRead(t, k)
      PROVE  [CoreNext]_core
  <2> DEFINE l == IF pending[k]["accept"] # <<>> THEN "accept" ELSE "recv"
  <2> DEFINE r == Completion(k, l, Head(pending[k][l]),
                             IF rx[k] > 0 THEN "ok"
                             ELSE IF l = "recv" THEN "nodata" ELSE "err", "dec")
  <2>0. pending[k][l] \in Seq(Ops) /\ pending[k][l] # <<>>
    BY <1>11 DEF DispatchRead, DataTypes, OpCalls
  <2>1. r \in CbRecord /\ r.key = k /\ r.has_lock = ~allow_concurrent[k] /\ r.then = "dec"
    BY <2>0 DEF Completion, CbRecord, DataTypes, OpCalls
  <2>2. /\ pc[t] = "dispatch" /\ queue[t][k] # "NO_EVENT"
        /\ KeyFree(t, k) /\ ~closing[k]
        /\ cb' = [cb EXCEPT ![t] = r]
        /\ KeepOrReleaseKey(t, k) /\ Goto(t, "cbcheck")
        /\ UNCHANGED <<qlock, keyVars, evs, queue, call, todo>>
    BY <1>11 DEF DispatchRead, lifeVars, kernVars, pollVars, keyVars
  <2>3. DispatchCb(t, k, r)
    BY <2>1, <2>2 DEF DispatchCb, Deliver, KeepOrReleaseKey
  <2>4. QED
    BY <2>1, <2>3 DEF CoreNext, CorePoll
<1>12. ASSUME NEW t \in Threads, NEW k \in Keys, DispatchWrite(t, k)
      PROVE  [CoreNext]_core
  <2>0. Head(pending[k]["send"]) \in Ops
    BY <1>12 DEF DispatchWrite, DataTypes, OpCalls
  <2> PICK res \in {"ok", "err"} :
           cb' = [cb EXCEPT ![t] =
                     Completion(k, "send", Head(pending[k]["send"]), res, "dec")]
    BY <1>12 DEF DispatchWrite
  <2> DEFINE r == Completion(k, "send", Head(pending[k]["send"]), res, "dec")
  <2>1. r \in CbRecord /\ r.key = k /\ r.has_lock = ~allow_concurrent[k] /\ r.then = "dec"
    BY <2>0 DEF Completion, CbRecord, DataTypes, OpCalls
  <2>2. /\ pc[t] = "dispatch" /\ queue[t][k] # "NO_EVENT"
        /\ KeyFree(t, k) /\ ~closing[k]
        /\ cb' = [cb EXCEPT ![t] = r]
        /\ KeepOrReleaseKey(t, k) /\ Goto(t, "cbcheck")
        /\ UNCHANGED <<qlock, keyVars, evs, queue, call, todo>>
    BY <1>12 DEF DispatchWrite, lifeVars, kernVars, pollVars, keyVars
  <2>3. DispatchCb(t, k, r)
    BY <2>1, <2>2 DEF DispatchCb, Deliver, KeepOrReleaseKey
  <2>4. QED
    BY <2>1, <2>3 DEF CoreNext, CorePoll
<1>13. ASSUME NEW t \in Threads, NEW k \in Keys, DispatchConnect(t, k)
      PROVE  [CoreNext]_core
  <2> DEFINE r == Completion(k, "connect", None,
                 IF queue[t][k] = "WRITEABLE" THEN "ok" ELSE "err", "dec")
  <2>1. r \in CbRecord /\ r.key = k /\ r.has_lock = ~allow_concurrent[k] /\ r.then = "dec"
    BY DEF Completion, CbRecord, DataTypes
  <2>2. /\ pc[t] = "dispatch" /\ queue[t][k] # "NO_EVENT"
        /\ KeyFree(t, k) /\ ~closing[k]
        /\ cb' = [cb EXCEPT ![t] = r]
        /\ KeepOrReleaseKey(t, k) /\ Goto(t, "cbcheck")
        /\ UNCHANGED <<qlock, keyVars, evs, queue, call, todo>>
    BY <1>13 DEF DispatchConnect, lifeVars, kernVars, pollVars, keyVars
  <2>3. DispatchCb(t, k, r)
    BY <2>1, <2>2 DEF DispatchCb, Deliver, KeepOrReleaseKey
  <2>4. QED
    BY <2>1, <2>3 DEF CoreNext, CorePoll
<1>14. ASSUME NEW t \in Threads, NEW k \in Keys, ConnectTimeoutKey(t, k)
      PROVE  [CoreNext]_core
  <2>1. CASE connecting[k] /\ connect_due[k] /\ KeyFree(t, k) /\ ~closing[k]
    <3> DEFINE r == Completion(k, "connect", None, "err", "ctloop")
    <3>1. /\ r \in CbRecord /\ r.key = k /\ r.has_lock = ~allow_concurrent[k]
          /\ r.then = "ctloop"
      BY DEF Completion, CbRecord, DataTypes
    <3>2. /\ pc[t] = "ctloop" /\ k \in todo[t]
          /\ todo' = [todo EXCEPT ![t] = @ \ {k}]
          /\ cb' = [cb EXCEPT ![t] = r]
          /\ KeepOrReleaseKey(t, k) /\ Goto(t, "cbcheck")
          /\ UNCHANGED <<qlock, keyVars, evs, queue, call>>
      BY <1>14, <2>1 DEF ConnectTimeoutKey, lifeVars, keyVars
    <3>3. WalkCb(t, k, r)
      BY <2>1, <3>1, <3>2 DEF WalkCb, Deliver, KeepOrReleaseKey
    <3>4. QED
      BY <3>1, <3>3 DEF CoreNext, CorePoll
  <2>2. CASE ~(connecting[k] /\ connect_due[k] /\ KeyFree(t, k) /\ ~closing[k])
    <3>1. WalkSkip(t, k)
      BY <1>14, <2>2 DEF ConnectTimeoutKey, WalkSkip, lockVars, lifeVars, keyVars
    <3>2. QED
      BY <3>1 DEF CoreNext, CorePoll
  <2>3. QED
    BY <2>1, <2>2
<1>15. ASSUME NEW t \in Threads, CbCheck(t)
      PROVE  [CoreNext]_core
  BY <1>15 DEF CoreNext, CbStep
<1>16. ASSUME NEW t \in Threads, CbEnter(t)
      PROVE  [CoreNext]_core
  BY <1>16 DEF CoreNext, CbStep
<1>17. ASSUME NEW t \in Threads, CbReturn(t)
      PROVE  [CoreNext]_core
  BY <1>17 DEF CoreNext, CbStep
<1>18. ASSUME NEW t \in Threads, CbEnd(t)
      PROVE  [CoreNext]_core
  BY <1>18 DEF CoreNext, CbStep
<1>19. ASSUME NEW t \in Threads, UnregLock(t)
      PROVE  [CoreNext]_core
  BY <1>19 DEF CoreNext, CoreCall
<1>20. ASSUME NEW t \in Threads, UnregClose(t)
      PROVE  [CoreNext]_core
  BY <1>20 DEF CoreNext, CoreCall
<1>21. ASSUME NEW t \in Threads, UnregDecrement(t)
      PROVE  [CoreNext]_core
  BY <1>21 DEF CoreNext, CoreCall
<1>22. ASSUME NEW t \in Threads, UnregUnlock(t)
      PROVE  [CoreNext]_core
  BY <1>22 DEF CoreNext, CoreCall
<1>23. ASSUME NEW t \in Threads, UnregDel(t)
      PROVE  [CoreNext]_core
  <2>1. UnregDelOk(t) \/ UnregDelFail(t)
    BY <1>23 DEF UnregDel, UnregDelOk, UnregDelFail, lockVars, pollVars, keyVars, kernVars
  <2>2. QED
    BY <2>1 DEF CoreNext, CoreCall
<1>24. ASSUME NEW t \in Threads, RecvTry(t)
      PROVE  [CoreNext]_core
  <2>1. CallMove(t)
    BY <1>24 DEF RecvTry, CallMove, lockVars, lifeVars, pollVars, keyVars
  <2>2. QED
    BY <2>1 DEF CoreNext, CoreCall
<1>25. ASSUME NEW t \in Threads, SendTry(t)
      PROVE  [CoreNext]_core
  <2>1. CallMove(t)
    BY <1>25 DEF SendTry, CallMove, lockVars, lifeVars, pollVars, kernVars, keyVars
  <2>2. QED
    BY <2>1 DEF CoreNext, CoreCall
<1>26. ASSUME NEW t \in Threads, AcceptTry(t)
      PROVE  [CoreNext]_core
  <2>1. CallMove(t)
    BY <1>26 DEF AcceptTry, CallMove, lockVars, lifeVars, pollVars, keyVars
  <2>2. QED
    BY <2>1 DEF CoreNext, CoreCall
<1>27. ASSUME NEW t \in Threads, QueueOp(t)
      PROVE  [CoreNext]_core
  <2>1. CallMove(t)
    BY <1>27 DEF QueueOp, CallMove, lockVars, lifeVars, pollVars, keyVars
  <2>2. QED
    BY <2>1 DEF CoreNext, CoreCall
<1>28. ASSUME NEW t \in Threads, ConnectTry(t)
      PROVE  [CoreNext]_core
  <2>1. CallMove(t)
    BY <1>28 DEF ConnectTry, CallMove, lockVars, lifeVars, pollVars, keyVars
  <2>2. QED
    BY <2>1 DEF CoreNext, CoreCall
<1>29. ASSUME NEW t \in Threads, ConnectQueue(t)
      PROVE  [CoreNext]_core
  <2>1. CallMove(t)
    BY <1>29 DEF ConnectQueue, CallMove, lockVars, lifeVars, pollVars, keyVars
  <2>2. QED
    BY <2>1 DEF CoreNext, CoreCall
<1>30. ASSUME NEW t \in Threads, PostCompletion(t)
      PROVE  [CoreNext]_core
  <2> DEFINE k == call[t].key
  <2> DEFINE o == call[t].op
  <2>1. k \in Keys /\ o \in Ops /\ pc[t] = "post"
    BY <1>30 DEF PostCompletion, FrameInv, ApiPc
  <2>2. UNCHANGED <<lockVars, keyVars, evs, queue, todo>>
    BY <1>30 DEF PostCompletion, lifeVars, kernVars, pollVars, keyVars
  <2>3. CASE \E l \in OpCalls :
               /\ cb' = [cb EXCEPT ![t] = [NoCb EXCEPT !.key = k, !.kind = l,
                                          !.op = o, !.res = "posted"]]
               /\ Goto(t, "cbenter")
               /\ call' = [call EXCEPT ![t] = NoCall]
    <3> PICK l \in OpCalls :
               /\ cb' = [cb EXCEPT ![t] = [NoCb EXCEPT !.key = k, !.kind = l,
                                          !.op = o, !.res = "posted"]]
               /\ Goto(t, "cbenter")
               /\ call' = [call EXCEPT ![t] = NoCall]
      BY <2>3
    <3> DEFINE r == [NoCb EXCEPT !.key = k, !.kind = l, !.op = o, !.res = "posted"]
    <3>1. r \in CbRecord /\ r.key = k /\ ~r.has_lock /\ r.then = "idle"
      BY <2>1 DEF NoCb, CbRecord
    <3>2. PostCb(t, r)
      BY <2>1, <2>2, <3>1 DEF PostCb
    <3>3. QED
      BY <3>1, <3>2 DEF CoreNext, CoreCall
  <2>4. CASE Return(t) /\ UNCHANGED cb
    <3>1. CallMove(t)
      BY <2>1, <2>2, <2>4 DEF CallMove
    <3>2. QED
      BY <3>1 DEF CoreNext, CoreCall
  <2>5. QED
    BY <1>30, <2>3, <2>4 DEF PostCompletion
<1>31. ASSUME NEW t \in Threads, Register(t)
      PROVE  [CoreNext]_core
  <2>1. CASE list' = Scanned /\ UNCHANGED <<ref_count, closing, fd, kernVars>>
    <3>1. RegisterScan
      BY <1>31, <2>1 DEF Register, RegisterScan, kernVars, pollVars
    <3>2. QED
      BY <3>1 DEF CoreNext
  <2>2. CASE \E k \in Keys, n \in 1..MaxFd :
               /\ Scanned[k] = "free" /\ InitKey(k)
               /\ fd' = [fd EXCEPT ![k] = n]
               /\ \E added \in BOOLEAN :
                     /\ list' = [Scanned EXCEPT
                                    ![k] = IF added THEN "active" ELSE "lost"]
                     /\ polled' = [polled EXCEPT ![k] = added]
    <3> PICK k \in Keys, n \in 1..MaxFd, added \in BOOLEAN :
               /\ Scanned[k] = "free" /\ InitKey(k)
               /\ fd' = [fd EXCEPT ![k] = n]
               /\ list' = [Scanned EXCEPT ![k] = IF added THEN "active" ELSE "lost"]
               /\ polled' = [polled EXCEPT ![k] = added]
      BY <2>2
    <3>1. RegisterKey(k, n, added)
      BY <1>31 DEF Register, RegisterKey, InitKey, pollVars
    <3>2. n \in Nat
      BY BoundsAssumption
    <3>3. QED
      BY <3>1, <3>2 DEF CoreNext
  <2>3. QED
    BY <1>31, <2>1, <2>2 DEF Register
<1>32. ASSUME NEW t \in Threads, NEW k \in Keys, SetConcurrency(t, k)
      PROVE  [CoreNext]_core
  BY <1>32 DEF SetConcurrency, lockVars, lifeVars, kernVars, pollVars, core
<1>33. ASSUME NEW t \in Threads, NEW c \in KeyCalls, NEW k \in Keys,
              NEW o \in Ops \cup {None}, BeginCall(t, c, k, o)
      PROVE  [CoreNext]_core
  <2>1. c # "set_concurrency" /\ (c \in OpCalls \cup {"post"} => o \in Ops)
    BY <1>33 DEF BeginCall, DataTypes, OpCalls
  <2>2. c \in CbCalls => c # "post"
    BY DEF OpCalls
  <2>3. /\ \/ pc[t] = "idle" /\ Held(k)
           \/ pc[t] = "incb" /\ c \in CbCalls /\ k = cb[t].key
        /\ call' = [call EXCEPT ![t] = [key |-> k, op |-> o, kind |-> c,
                       ret |-> IF pc[t] = "idle" THEN "idle" ELSE "cbend"]]
        /\ Goto(t, c)
    BY <1>33 DEF BeginCall
  <2>4. UNCHANGED <<lockVars, keyVars, evs, queue, todo, cb>>
    BY <1>33 DEF BeginCall, lifeVars, kernVars, pollVars, keyVars
  <2>5. Begin(t, c, k, o)
    BY <2>1, <2>2, <2>3, <2>4 DEF Begin
  <2>6. QED
    BY <2>5 DEF CoreNext, CoreCall
<1>34. ASSUME NEW k \in Keys, FreeDelayPasses(k)
      PROVE  [CoreNext]_core
  BY <1>34 DEF CoreNext
<1>35. ASSUME NEW k \in Keys, Arrive(k)
      PROVE  [CoreNext]_core
  BY <1>35 DEF Arrive, lockVars, lifeVars, kernVars, pollVars, core
<1>36. ASSUME NEW k \in Keys, ConnectResolves(k)
      PROVE  [CoreNext]_core
  BY <1>36 DEF ConnectResolves, lockVars, lifeVars, kernVars, pollVars, core
<1>37. ASSUME NEW k \in Keys, ConnectDelayPasses(k)
      PROVE  [CoreNext]_core
  BY <1>37 DEF ConnectDelayPasses, lockVars, lifeVars, kernVars, pollVars, core
<1>38. CASE UNCHANGED vars
  BY <1>38 DEF vars, lifeVars, kernVars, pollVars, core
<1>39. QED
  BY <1>1, <1>2, <1>3, <1>4, <1>5, <1>6, <1>7, <1>8, <1>9, <1>10, <1>11,
      <1>12, <1>13, <1>14, <1>15, <1>16, <1>17, <1>18, <1>19, <1>20, <1>21,
      <1>22, <1>23, <1>24, <1>25, <1>26, <1>27, <1>28, <1>29, <1>30, <1>31,
      <1>32, <1>33, <1>34, <1>35, <1>36, <1>37, <1>38
  DEF Next, PollStep, CbStep, CallStep, NewCall, Environment

\* The records of a thread outside callbacks and calls are records.
LEMMA RecordTypes ==
    /\ NoCb \in CbRecord /\ NoCall \in CallRecord
    /\ \A k \in Keys : [NoCb EXCEPT !.key = k] \in CbRecord
  BY DEF NoCb, NoCall, CbRecord, CallRecord

\* What the building blocks of the actions do to the types.
LEMMA GotoType ==
    ASSUME Types, NEW t \in Threads, NEW label \in PcSet, Goto(t, label)
    PROVE  pc' \in [Threads -> PcSet]
  BY DEF Types, Goto

LEMMA LockTypes ==
    ASSUME Types, NEW t \in Threads, NEW k \in Keys,
           LockKey(t, k) \/ UnlockKey(k) \/ UNCHANGED <<klock, kdepth>>
    PROVE  klock' \in [Keys -> Threads \cup {None}] /\ kdepth' \in [Keys -> Int]
<1>1. CASE LockKey(t, k)
  BY <1>1 DEF Types, LockKey
<1>2. CASE UnlockKey(k)
  BY <1>2 DEF Types, UnlockKey
<1>3. CASE UNCHANGED <<klock, kdepth>>
  BY <1>3 DEF Types
<1>4. QED
  BY <1>1, <1>2, <1>3

LEMMA DecrementTypes ==
    ASSUME Types, NEW k \in Keys, Decrement(k)
    PROVE  /\ ref_count' \in [Keys -> Int]
           /\ list' \in [Keys -> Lists] /\ free_due' \in [Keys -> BOOLEAN]
<1>1. ref_count' \in [Keys -> Int]
  BY DEF Types, Decrement
<1>2. CASE ref_count[k] = 1
  BY <1>1, <1>2 DEF Types, Decrement, Lists
<1>3. CASE ref_count[k] # 1
  BY <1>1, <1>3 DEF Types, Decrement
<1>4. QED
  BY <1>2, <1>3

\* The core variables keep their types.
LEMMA TypesStep ==
    Types /\ FrameInv /\ [CoreNext]_core => Types'
<1> SUFFICES ASSUME Types, FrameInv, [CoreNext]_core
             PROVE  Types'
  OBVIOUS
<1> USE NoneAssumption
<1>1. ASSUME NEW t \in Threads, WaitEvents(t)
      PROVE  Types'
  BY <1>1 DEF WaitEvents, Goto, lockVars, keyVars, Types, FrameInv, PcSet,
      PollPc, CbPc, ApiPc, UnregPc, CbRecord, CallRecord, NoCb, NoCall, Lists,
      EventTypes, OpCalls, KeyCalls
<1>2. ASSUME NEW t \in Threads, PollMove(t)
      PROVE  Types'
  BY <1>2, ZenonT(40) DEF PollMove, Goto, lockVars, keyVars, Types, FrameInv, PcSet,
      PollPc, CbPc, ApiPc, UnregPc, CbRecord, CallRecord, NoCb, NoCall, Lists,
      EventTypes, OpCalls, KeyCalls
<1>3. ASSUME NEW t \in Threads, PollLock(t)
      PROVE  Types'
  BY <1>3 DEF PollLock, Goto, lifeVars, kernVars, pollVars, Types, FrameInv,
      PcSet, PollPc, CbPc, ApiPc, UnregPc, CbRecord, CallRecord, NoCb, NoCall,
      Lists, EventTypes, OpCalls, KeyCalls
<1>4. ASSUME NEW t \in Threads, PollUnlock(t)
      PROVE  Types'
  BY <1>4 DEF PollUnlock, Goto, lifeVars, kernVars, pollVars, Types, FrameInv,
      PcSet, PollPc, CbPc, ApiPc, UnregPc, CbRecord, CallRecord, NoCb, NoCall,
      Lists, EventTypes, OpCalls, KeyCalls
<1>5. ASSUME NEW t \in Threads, PollDecrement(t)
      PROVE  Types'
  <2>1. cb[t].key \in Keys
    BY <1>5 DEF PollDecrement, FrameInv
  <2>2. cb' \in [Threads -> CbRecord] /\ queue' \in [Threads -> [Keys -> EventTypes]]
    BY <1>5, <2>1, RecordTypes DEF PollDecrement, Types, EventTypes
  <2>3. /\ ref_count' \in [Keys -> Int]
        /\ list' \in [Keys -> Lists] /\ free_due' \in [Keys -> BOOLEAN]
    BY <1>5, <2>1, DecrementTypes DEF PollDecrement
  <2>4. pc' \in [Threads -> PcSet]
    BY <1>5 DEF PollDecrement, Goto, Types, PcSet, PollPc
  <2>5. QED
    BY <1>5, <2>2, <2>3, <2>4
    DEF PollDecrement, Decrement, Types, lockVars, kernVars
<1>6. ASSUME NEW t \in Threads, PollReturn(t)
      PROVE  Types'
  BY <1>6 DEF PollReturn, Goto, lockVars, lifeVars, kernVars, pollVars, Types,
      FrameInv, PcSet, PollPc, CbPc, ApiPc, UnregPc, CbRecord, CallRecord,
      NoCb, NoCall, Lists, EventTypes, OpCalls, KeyCalls
<1>7. ASSUME NEW t \in Threads, PollScan(t)
      PROVE  Types'
  BY <1>7 DEF PollScan, Goto, Scanned, lockVars, kernVars, pollVars, Types,
      FrameInv, PcSet, PollPc, CbPc, ApiPc, UnregPc, CbRecord, CallRecord,
      NoCb, NoCall, Lists, EventTypes, OpCalls, KeyCalls
<1>8. ASSUME NEW t \in Threads, WalkBegin(t)
      PROVE  Types'
  BY <1>8 DEF WalkBegin, Goto, keyVars, Types, FrameInv, PcSet, PollPc, CbPc,
      ApiPc, UnregPc, CbRecord, CallRecord, NoCb, NoCall, Lists, EventTypes,
      OpCalls, KeyCalls
<1>9. ASSUME NEW t \in Threads, ConnectTimeoutEnd(t)
      PROVE  Types'
  BY <1>9 DEF ConnectTimeoutEnd, Goto, lifeVars, kernVars, pollVars, Types,
      FrameInv, PcSet, PollPc, CbPc, ApiPc, UnregPc, CbRecord, CallRecord,
      NoCb, NoCall, Lists, EventTypes, OpCalls, KeyCalls
<1>10. ASSUME NEW t \in Threads, NEW k \in Keys, Collect(t, k)
      PROVE  Types'
  BY <1>10 DEF Collect, IncrementCounter, lockVars, kernVars, Types, FrameInv,
      PcSet, PollPc, CbPc, ApiPc, UnregPc, CbRecord, CallRecord, NoCb, NoCall,
      Lists, EventTypes, OpCalls, KeyCalls, EventType
<1>11. ASSUME NEW t \in Threads, NEW k \in Keys, WalkSkip(t, k)
      PROVE  Types'
  BY <1>11 DEF WalkSkip, lockVars, keyVars, Types, FrameInv, PcSet, PollPc,
      CbPc, ApiPc, UnregPc, CbRecord, CallRecord, NoCb, NoCall, Lists,
      EventTypes, OpCalls, KeyCalls
<1>12. ASSUME NEW t \in Threads, NEW k \in Keys, DispatchNothing(t, k)
      PROVE  Types'
  <2>1. cb' \in [Threads -> CbRecord]
    BY <1>12, RecordTypes DEF DispatchNothing, Types
  <2>2. pc' \in [Threads -> PcSet]
    BY <1>12 DEF DispatchNothing, Goto, Types, PcSet, PollPc
  <2>3. QED
    BY <1>12, <2>1, <2>2
    DEF DispatchNothing, Types, lockVars, lifeVars, kernVars, pollVars
<1>13. ASSUME NEW t \in Threads, NEW k \in Keys, NEW r \in CbRecord,
              WalkCb(t, k, r)
      PROVE  Types'
  <2>1. pc' \in [Threads -> PcSet]
    BY <1>13 DEF WalkCb, Deliver, Goto, Types, PcSet, CbPc
  <2>2. klock' \in [Keys -> Threads \cup {None}] /\ kdepth' \in [Keys -> Int]
    BY <1>13, LockTypes DEF WalkCb, Deliver
  <2>3. QED
    BY <1>13, <2>1, <2>2 DEF WalkCb, Deliver, Types, keyVars
<1>14. ASSUME NEW t \in Threads, NEW k \in Keys, NEW r \in CbRecord,
              DispatchCb(t, k, r)
      PROVE  Types'
  <2>1. pc' \in [Threads -> PcSet]
    BY <1>14 DEF DispatchCb, Deliver, Goto, Types, PcSet, CbPc
  <2>2. klock' \in [Keys -> Threads \cup {None}] /\ kdepth' \in [Keys -> Int]
    BY <1>14, LockTypes DEF DispatchCb, Deliver
  <2>3. QED
    BY <1>14, <2>1, <2>2 DEF DispatchCb, Deliver, Types, keyVars
<1>15. ASSUME NEW t \in Threads, CbCheck(t)
      PROVE  Types'
  <2>1. pc' \in [Threads -> PcSet]
    BY <1>15, GotoType DEF CbCheck, PcSet, CbPc
  <2>2. QED
    BY <1>15, <2>1 DEF CbCheck, Types, lockVars, lifeVars, kernVars, pollVars
<1>16. ASSUME NEW t \in Threads, CbEnter(t)
      PROVE  Types'
  BY <1>16 DEF CbEnter, Goto, lockVars, lifeVars, kernVars, pollVars, Types,
      FrameInv, PcSet, PollPc, CbPc, ApiPc, UnregPc, CbRecord, CallRecord,
      NoCb, NoCall, Lists, EventTypes, OpCalls, KeyCalls
<1>17. ASSUME NEW t \in Threads, CbReturn(t)
      PROVE  Types'
  BY <1>17 DEF CbReturn, Goto, lockVars, lifeVars, kernVars, pollVars, Types,
      FrameInv, PcSet, PollPc, CbPc, ApiPc, UnregPc, CbRecord, CallRecord,
      NoCb, NoCall, Lists, EventTypes, OpCalls, KeyCalls
<1>18. ASSUME NEW t \in Threads, CbEnd(t)
      PROVE  Types'
  <2>1. cb[t].key \in Keys /\ cb[t].then \in {"idle", "dec", "ctloop"}
    BY <1>18 DEF CbEnd, FrameInv, CbPc, Types, CbRecord
  <2>2. cb' \in [Threads -> CbRecord]
    BY <1>18, <2>1, RecordTypes DEF CbEnd, Types
  <2>3. pc' \in [Threads -> PcSet]
    BY <1>18, <2>1 DEF CbEnd, Goto, Types, PcSet, PollPc
  <2>4. klock' \in [Keys -> Threads \cup {None}] /\ kdepth' \in [Keys -> Int]
    BY <1>18, <2>1, LockTypes DEF CbEnd
  <2>5. QED
    BY <1>18, <2>2, <2>3, <2>4 DEF CbEnd, Types, lifeVars, kernVars, pollVars
<1>19. ASSUME NEW t \in Threads, UnregLock(t)
      PROVE  Types'
  <2>1. call[t].key \in Keys /\ call[t].ret \in {"idle", "cbend"}
    BY <1>19 DEF UnregLock, FrameInv, ApiPc, Types, CallRecord
  <2>2. call' \in [Threads -> CallRecord]
    BY <1>19, RecordTypes DEF UnregLock, Return, Types
  <2>3. pc' \in [Threads -> PcSet]
    BY <1>19, <2>1, GotoType DEF UnregLock, Return, PcSet, CbPc, ApiPc, UnregPc
  <2>4. klock' \in [Keys -> Threads \cup {None}] /\ kdepth' \in [Keys -> Int]
    BY <1>19, <2>1, LockTypes DEF UnregLock
  <2>5. QED
    BY <1>19, <2>2, <2>3, <2>4 DEF UnregLock, Types, lifeVars, kernVars, pollVars
<1>20. ASSUME NEW t \in Threads, UnregDelOk(t)
      PROVE  Types'
  BY <1>20 DEF UnregDelOk, Goto, lockVars, Types, FrameInv, PcSet, PollPc,
      CbPc, ApiPc, UnregPc, CbRecord, CallRecord, NoCb, NoCall, Lists,
      EventTypes, OpCalls, KeyCalls
<1>21. ASSUME NEW t \in Threads, UnregDelFail(t)
      PROVE  Types'
  BY <1>21 DEF UnregDelFail, Goto, Return, UnlockKey, keyVars, Types,
      FrameInv, PcSet, PollPc, CbPc, ApiPc, UnregPc, CbRecord, CallRecord,
      NoCb, NoCall, Lists, EventTypes, OpCalls, KeyCalls
<1>22. ASSUME NEW t \in Threads, UnregClose(t)
      PROVE  Types'
  BY <1>22 DEF UnregClose, Goto, lockVars, kernVars, pollVars, Types,
      FrameInv, PcSet, PollPc, CbPc, ApiPc, UnregPc, CbRecord, CallRecord,
      NoCb, NoCall, Lists, EventTypes, OpCalls, KeyCalls
<1>23. ASSUME NEW t \in Threads, UnregDecrement(t)
      PROVE  Types'
  <2>1. call[t].key \in Keys
    BY <1>23 DEF UnregDecrement, FrameInv, ApiPc, UnregPc
  <2>2. /\ ref_count' \in [Keys -> Int]
        /\ list' \in [Keys -> Lists] /\ free_due' \in [Keys -> BOOLEAN]
    BY <1>23, <2>1, DecrementTypes DEF UnregDecrement
  <2>3. pc' \in [Threads -> PcSet]
    BY <1>23 DEF UnregDecrement, Goto, Types, PcSet, ApiPc, UnregPc
  <2>4. QED
    BY <1>23, <2>2, <2>3
    DEF UnregDecrement, Decrement, Types, lockVars, kernVars, pollVars
<1>24. ASSUME NEW t \in Threads, UnregUnlock(t)
      PROVE  Types'
  BY <1>24 DEF UnregUnlock, Goto, Return, UnlockKey, lifeVars, kernVars,
      pollVars, Types, FrameInv, PcSet, PollPc, CbPc, ApiPc, UnregPc,
      CbRecord, CallRecord, NoCb, NoCall, Lists, EventTypes, OpCalls, KeyCalls
<1>25. ASSUME NEW t \in Threads, CallMove(t)
      PROVE  Types'
  <2>1. call[t].ret \in {"idle", "cbend"}
    BY DEF Types, CallRecord
  <2>2. call' \in [Threads -> CallRecord]
    BY <1>25, RecordTypes DEF CallMove, Return, Types
  <2>3. pc' \in [Threads -> PcSet]
    BY <1>25, <2>1 DEF CallMove, Goto, Return, Types, PcSet, CbPc, ApiPc
  <2>4. QED
    BY <1>25, <2>2, <2>3 DEF CallMove, Types, lockVars, keyVars
<1>26. ASSUME NEW t \in Threads, NEW r \in CbRecord, PostCb(t, r)
      PROVE  Types'
  BY <1>26 DEF PostCb, Goto, lockVars, keyVars, Types, FrameInv, PcSet,
      PollPc, CbPc, ApiPc, UnregPc, CbRecord, CallRecord, NoCb, NoCall, Lists,
      EventTypes, OpCalls, KeyCalls
<1>27. ASSUME NEW t \in Threads, NEW c \in KeyCalls, NEW k \in Keys,
              NEW o \in Ops \cup {None},
              Begin(t, c, k, o)
      PROVE  Types'
  BY <1>27 DEF Begin, Goto, lockVars, keyVars, Types, FrameInv, PcSet, PollPc,
      CbPc, ApiPc, UnregPc, CbRecord, CallRecord, NoCb, NoCall, Lists,
      EventTypes, OpCalls, KeyCalls
<1>28. ASSUME RegisterScan
      PROVE  Types'
  BY <1>28 DEF RegisterScan, Scanned, lockVars, Types, FrameInv, PcSet,
      PollPc, CbPc, ApiPc, UnregPc, CbRecord, CallRecord, NoCb, NoCall, Lists,
      EventTypes, OpCalls, KeyCalls
<1>29. ASSUME NEW k \in Keys, NEW n \in Nat, NEW added \in BOOLEAN,
              RegisterKey(k, n, added)
      PROVE  Types'
  BY <1>29 DEF RegisterKey, Scanned, lockVars, Types, FrameInv, PcSet, PollPc,
      CbPc, ApiPc, UnregPc, CbRecord, CallRecord, NoCb, NoCall, Lists,
      EventTypes, OpCalls, KeyCalls
<1>30. ASSUME NEW k \in Keys, FreeDelayPasses(k)
      PROVE  Types'
  BY <1>30 DEF FreeDelayPasses, lockVars, kernVars, pollVars, Types, FrameInv,
      PcSet, PollPc, CbPc, ApiPc, UnregPc, CbRecord, CallRecord, NoCb, NoCall,
      Lists, EventTypes, OpCalls, KeyCalls
<1>31. CASE UNCHANGED core
  BY <1>31 DEF core, lockVars, Types, FrameInv, PcSet, PollPc, CbPc, ApiPc,
      UnregPc, CbRecord, CallRecord, NoCb, NoCall, Lists, EventTypes, OpCalls,
      KeyCalls
<1>32. QED
  BY <1>1, <1>2, <1>3, <1>4, <1>5, <1>6, <1>7, <1>8, <1>9, <1>10, <1>11,
      <1>12, <1>13, <1>14, <1>15, <1>16, <1>17, <1>18, <1>19, <1>20, <1>21,
      <1>22, <1>23, <1>24, <1>25, <1>26, <1>27, <1>28, <1>29, <1>30, <1>31
  DEF CoreNext, CorePoll, CoreCall, CbStep

\* A thread has set up the records its program counter says.
LEMMA FrameStep ==
    Types /\ FrameInv /\ [CoreNext]_core => FrameInv'
<1> SUFFICES ASSUME Types, FrameInv, [CoreNext]_core
             PROVE  FrameInv'
  OBVIOUS
<1> USE NoneAssumption
<1>1. ASSUME NEW t \in Threads, WaitEvents(t)
      PROVE  FrameInv'
  BY <1>1 DEF WaitEvents, Goto, lockVars, keyVars, Types, FrameInv, NoCbPc,
      PcSet, PollPc, CbPc, ApiPc, UnregPc, CbRecord, CallRecord, NoCb, NoCall,
      OpCalls, KeyCalls
<1>2. ASSUME NEW t \in Threads, PollMove(t)
      PROVE  FrameInv'
  BY <1>2 DEF PollMove, Goto, lockVars, keyVars, Types, FrameInv, NoCbPc,
      PcSet, PollPc, CbPc, ApiPc, UnregPc, CbRecord, CallRecord, NoCb, NoCall,
      OpCalls, KeyCalls
<1>3. ASSUME NEW t \in Threads, PollLock(t)
      PROVE  FrameInv'
  BY <1>3 DEF PollLock, Goto, lifeVars, kernVars, pollVars, Types, FrameInv,
      NoCbPc, PcSet, PollPc, CbPc, ApiPc, UnregPc, CbRecord, CallRecord, NoCb,
      NoCall, OpCalls, KeyCalls
<1>4. ASSUME NEW t \in Threads, PollUnlock(t)
      PROVE  FrameInv'
  BY <1>4 DEF PollUnlock, Goto, lifeVars, kernVars, pollVars, Types, FrameInv,
      NoCbPc, PcSet, PollPc, CbPc, ApiPc, UnregPc, CbRecord, CallRecord, NoCb,
      NoCall, OpCalls, KeyCalls
<1>5. ASSUME NEW t \in Threads, PollDecrement(t)
      PROVE  FrameInv'
  BY <1>5 DEF PollDecrement, Goto, Decrement, lockVars, kernVars, Types,
      FrameInv, NoCbPc, PcSet, PollPc, CbPc, ApiPc, UnregPc, CbRecord,
      CallRecord, NoCb, NoCall, OpCalls, KeyCalls
<1>6. ASSUME NEW t \in Threads, PollReturn(t)
      PROVE  FrameInv'
  BY <1>6 DEF PollReturn, Goto, lockVars, lifeVars, kernVars, pollVars, Types,
      FrameInv, NoCbPc, PcSet, PollPc, CbPc, ApiPc, UnregPc, CbRecord,
      CallRecord, NoCb, NoCall, OpCalls, KeyCalls
<1>7. ASSUME NEW t \in Threads, PollScan(t)
      PROVE  FrameInv'
  BY <1>7 DEF PollScan, Goto, Scanned, lockVars, kernVars, pollVars, Types,
      FrameInv, NoCbPc, PcSet, PollPc, CbPc, ApiPc, UnregPc, CbRecord,
      CallRecord, NoCb, NoCall, OpCalls, KeyCalls
<1>8. ASSUME NEW t \in Threads, WalkBegin(t)
      PROVE  FrameInv'
  BY <1>8 DEF WalkBegin, Goto, keyVars, Types, FrameInv, NoCbPc, PcSet,
      PollPc, CbPc, ApiPc, UnregPc, CbRecord, CallRecord, NoCb, NoCall,
      OpCalls, KeyCalls
<1>9. ASSUME NEW t \in Threads, ConnectTimeoutEnd(t)
      PROVE  FrameInv'
  BY <1>9 DEF ConnectTimeoutEnd, Goto, lifeVars, kernVars, pollVars, Types,
      FrameInv, NoCbPc, PcSet, PollPc, CbPc, ApiPc, UnregPc, CbRecord,
      CallRecord, NoCb, NoCall, OpCalls, KeyCalls
<1>10. ASSUME NEW t \in Threads, NEW k \in Keys, Collect(t, k)
      PROVE  FrameInv'
  BY <1>10 DEF Collect, IncrementCounter, lockVars, kernVars, Types, FrameInv,
      NoCbPc, PcSet, PollPc, CbPc, ApiPc, UnregPc, CbRecord, CallRecord, NoCb,
      NoCall, OpCalls, KeyCalls
<1>11. ASSUME NEW t \in Threads, NEW k \in Keys, WalkSkip(t, k)
      PROVE  FrameInv'
  BY <1>11 DEF WalkSkip, lockVars, keyVars, Types, FrameInv, NoCbPc, PcSet,
      PollPc, CbPc, ApiPc, UnregPc, CbRecord, CallRecord, NoCb, NoCall,
      OpCalls, KeyCalls
<1>12. ASSUME NEW t \in Threads, NEW k \in Keys, DispatchNothing(t, k)
      PROVE  FrameInv'
  BY <1>12 DEF DispatchNothing, Goto, lockVars, lifeVars, kernVars, pollVars,
      Types, FrameInv, NoCbPc, PcSet, PollPc, CbPc, ApiPc, UnregPc, CbRecord,
      CallRecord, NoCb, NoCall, OpCalls, KeyCalls
<1>13. ASSUME NEW t \in Threads, NEW k \in Keys, NEW r \in CbRecord,
              WalkCb(t, k, r)
      PROVE  FrameInv'
  BY <1>13 DEF WalkCb, Deliver, Goto, LockKey, keyVars, Types, FrameInv,
      NoCbPc, PcSet, PollPc, CbPc, ApiPc, UnregPc, CbRecord, CallRecord, NoCb,
      NoCall, OpCalls, KeyCalls
<1>14. ASSUME NEW t \in Threads, NEW k \in Keys, NEW r \in CbRecord,
              DispatchCb(t, k, r)
      PROVE  FrameInv'
  BY <1>14 DEF DispatchCb, Deliver, Goto, LockKey, keyVars, Types, FrameInv,
      NoCbPc, PcSet, PollPc, CbPc, ApiPc, UnregPc, CbRecord, CallRecord, NoCb,
      NoCall, OpCalls, KeyCalls
<1>15. ASSUME NEW t \in Threads, CbCheck(t)
      PROVE  FrameInv'
  BY <1>15 DEF CbCheck, Goto, lockVars, lifeVars, kernVars, pollVars, Types,
      FrameInv, NoCbPc, PcSet, PollPc, CbPc, ApiPc, UnregPc, CbRecord,
      CallRecord, NoCb, NoCall, OpCalls, KeyCalls
<1>16. ASSUME NEW t \in Threads, CbEnter(t)
      PROVE  FrameInv'
  BY <1>16 DEF CbEnter, Goto, lockVars, lifeVars, kernVars, pollVars, Types,
      FrameInv, NoCbPc, PcSet, PollPc, CbPc, ApiPc, UnregPc, CbRecord,
      CallRecord, NoCb, NoCall, OpCalls, KeyCalls
<1>17. ASSUME NEW t \in Threads, CbReturn(t)
      PROVE  FrameInv'
  BY <1>17 DEF CbReturn, Goto, lockVars, lifeVars, kernVars, pollVars, Types,
      FrameInv, NoCbPc, PcSet, PollPc, CbPc, ApiPc, UnregPc, CbRecord,
      CallRecord, NoCb, NoCall, OpCalls, KeyCalls
<1>18. ASSUME NEW t \in Threads, CbEnd(t)
      PROVE  FrameInv'
  <2>1. cb[t].key \in Keys /\ cb[t].then \in {"idle", "dec", "ctloop"}
    BY <1>18 DEF CbEnd, FrameInv, CbPc, Types, CbRecord
  <2>2. /\ pc' = [pc EXCEPT ![t] = cb[t].then] /\ UNCHANGED call
        /\ cb' = [cb EXCEPT ![t] = IF cb[t].then = "dec"
                       THEN [NoCb EXCEPT !.key = cb[t].key] ELSE NoCb]
    BY <1>18 DEF CbEnd, Goto
  <2>3. QED
    BY <2>1, <2>2, ZenonT(40)
    DEF Types, FrameInv, NoCbPc, PcSet, PollPc, CbPc, ApiPc, UnregPc, CbRecord, NoCb
<1>19. ASSUME NEW t \in Threads, UnregLock(t)
      PROVE  FrameInv'
  BY <1>19, SMTT(30) DEF UnregLock, Goto, Return, LockKey, lifeVars, kernVars, pollVars,
      Types, FrameInv, NoCbPc, PcSet, PollPc, CbPc, ApiPc, UnregPc, CbRecord,
      CallRecord, NoCb, NoCall, OpCalls, KeyCalls
<1>20. ASSUME NEW t \in Threads, UnregDelOk(t)
      PROVE  FrameInv'
  BY <1>20 DEF UnregDelOk, Goto, lockVars, Types, FrameInv, NoCbPc, PcSet,
      PollPc, CbPc, ApiPc, UnregPc, CbRecord, CallRecord, NoCb, NoCall,
      OpCalls, KeyCalls
<1>21. ASSUME NEW t \in Threads, UnregDelFail(t)
      PROVE  FrameInv'
  BY <1>21 DEF UnregDelFail, Goto, Return, UnlockKey, keyVars, Types,
      FrameInv, NoCbPc, PcSet, PollPc, CbPc, ApiPc, UnregPc, CbRecord,
      CallRecord, NoCb, NoCall, OpCalls, KeyCalls
<1>22. ASSUME NEW t \in Threads, UnregClose(t)
      PROVE  FrameInv'
  BY <1>22 DEF UnregClose, Goto, lockVars, kernVars, pollVars, Types,
      FrameInv, NoCbPc, PcSet, PollPc, CbPc, ApiPc, UnregPc, CbRecord,
      CallRecord, NoCb, NoCall, OpCalls, KeyCalls
<1>23. ASSUME NEW t \in Threads, UnregDecrement(t)
      PROVE  FrameInv'
  BY <1>23 DEF UnregDecrement, Goto, Decrement, lockVars, kernVars, pollVars,
      Types, FrameInv, NoCbPc, PcSet, PollPc, CbPc, ApiPc, UnregPc, CbRecord,
      CallRecord, NoCb, NoCall, OpCalls, KeyCalls
<1>24. ASSUME NEW t \in Threads, UnregUnlock(t)
      PROVE  FrameInv'
  BY <1>24 DEF UnregUnlock, Goto, Return, UnlockKey, lifeVars, kernVars,
      pollVars, Types, FrameInv, NoCbPc, PcSet, PollPc, CbPc, ApiPc, UnregPc,
      CbRecord, CallRecord, NoCb, NoCall, OpCalls, KeyCalls
<1>25. ASSUME NEW t \in Threads, CallMove(t)
      PROVE  FrameInv'
  BY <1>25 DEF CallMove, Goto, Return, lockVars, keyVars, Types, FrameInv,
      NoCbPc, PcSet, PollPc, CbPc, ApiPc, UnregPc, CbRecord, CallRecord, NoCb,
      NoCall, OpCalls, KeyCalls
<1>26. ASSUME NEW t \in Threads, NEW r \in CbRecord, PostCb(t, r)
      PROVE  FrameInv'
  BY <1>26 DEF PostCb, Goto, lockVars, keyVars, Types, FrameInv, NoCbPc,
      PcSet, PollPc, CbPc, ApiPc, UnregPc, CbRecord, CallRecord, NoCb, NoCall,
      OpCalls, KeyCalls
<1>27. ASSUME NEW t \in Threads, NEW c \in KeyCalls, NEW k \in Keys,
              NEW o \in Ops \cup {None},
              Begin(t, c, k, o)
      PROVE  FrameInv'
  BY <1>27 DEF Begin, Goto, lockVars, keyVars, Types, FrameInv, NoCbPc, PcSet,
      PollPc, CbPc, ApiPc, UnregPc, CbRecord, CallRecord, NoCb, NoCall,
      OpCalls, KeyCalls
<1>28. ASSUME RegisterScan
      PROVE  FrameInv'
  BY <1>28 DEF RegisterScan, Scanned, lockVars, Types, FrameInv, NoCbPc,
      PcSet, PollPc, CbPc, ApiPc, UnregPc, CbRecord, CallRecord, NoCb, NoCall,
      OpCalls, KeyCalls
<1>29. ASSUME NEW k \in Keys, NEW n \in Nat, NEW added \in BOOLEAN,
              RegisterKey(k, n, added)
      PROVE  FrameInv'
  BY <1>29 DEF RegisterKey, Scanned, lockVars, Types, FrameInv, NoCbPc, PcSet,
      PollPc, CbPc, ApiPc, UnregPc, CbRecord, CallRecord, NoCb, NoCall,
      OpCalls, KeyCalls
<1>30. ASSUME NEW k \in Keys, FreeDelayPasses(k)
      PROVE  FrameInv'
  BY <1>30 DEF FreeDelayPasses, lockVars, kernVars, pollVars, Types, FrameInv,
      NoCbPc, PcSet, PollPc, CbPc, ApiPc, UnregPc, CbRecord, CallRecord, NoCb,
      NoCall, OpCalls, KeyCalls
<1>31. CASE UNCHANGED core
  BY <1>31 DEF core, lockVars, Types, FrameInv, NoCbPc, PcSet, PollPc, CbPc,
      ApiPc, UnregPc, CbRecord, CallRecord, NoCb, NoCall, OpCalls, KeyCalls
<1>32. QED
  BY <1>1, <1>2, <1>3, <1>4, <1>5, <1>6, <1>7, <1>8, <1>9, <1>10, <1>11,
      <1>12, <1>13, <1>14, <1>15, <1>16, <1>17, <1>18, <1>19, <1>20, <1>21,
      <1>22, <1>23, <1>24, <1>25, <1>26, <1>27, <1>28, <1>29, <1>30, <1>31
  DEF CoreNext, CorePoll, CoreCall, CbStep

\* A step that touches neither the locks nor what a thread has locked, one
\* that locks a key once more, and one that unlocks it once.
LEMMA LockSame ==
    ASSUME LockInv, UNCHANGED <<klock, kdepth>>,
           \A u \in Threads, j \in Keys : Depth(u, j)' = Depth(u, j)
    PROVE  LockInv'
  BY DEF LockInv

LEMMA LockOnce ==
    ASSUME Types, LockInv, NEW t \in Threads, NEW k \in Keys,
           KeyFree(t, k), LockKey(t, k), Depth(t, k)' = Depth(t, k) + 1,
           \A u \in Threads, j \in Keys :
               u # t \/ j # k => Depth(u, j)' = Depth(u, j)
    PROVE  LockInv'
<1>1. \A u \in Threads, j \in Keys : Depth(u, j) \in Nat
  BY DEF Depth
<1>2. kdepth[k] = Depth(t, k) /\ kdepth[k] >= 0
  BY <1>1, NoneAssumption DEF LockInv, KeyFree
<1>3. /\ klock' = [klock EXCEPT ![k] = t]
      /\ kdepth' = [kdepth EXCEPT ![k] = @ + 1]
  BY DEF LockKey
<1>4. \A u \in Threads : u # t => Depth(u, k) = 0
  BY NoneAssumption DEF LockInv, KeyFree
<1>5. klock'[k] = t /\ kdepth'[k] = kdepth[k] + 1
  BY <1>3 DEF Types
<1>6. \A j \in Keys : j # k => klock'[j] = klock[j] /\ kdepth'[j] = kdepth[j]
  BY <1>3 DEF Types
<1>7. QED
  BY <1>1, <1>2, <1>4, <1>5, <1>6, NoneAssumption DEF LockInv

LEMMA UnlockOnce ==
    ASSUME Types, LockInv, NEW t \in Threads, NEW k \in Keys,
           UnlockKey(k), Depth(t, k) >= 1, Depth(t, k)' = Depth(t, k) - 1,
           \A u \in Threads, j \in Keys :
               u # t \/ j # k => Depth(u, j)' = Depth(u, j)
    PROVE  LockInv'
<1>1. \A u \in Threads, j \in Keys : Depth(u, j) \in Nat
  BY DEF Depth
<1>2. klock[k] = t /\ kdepth[k] = Depth(t, k)
  BY <1>1 DEF LockInv
<1>3. /\ klock' = [klock EXCEPT ![k] = IF kdepth[k] = 1 THEN None ELSE @]
      /\ kdepth' = [kdepth EXCEPT ![k] = @ - 1]
  BY DEF UnlockKey
<1>4. \A u \in Threads : u # t => Depth(u, k) = 0
  BY <1>2 DEF LockInv
<1>5. /\ klock'[k] = IF kdepth[k] = 1 THEN None ELSE t
      /\ kdepth'[k] = kdepth[k] - 1
  BY <1>2, <1>3 DEF Types
<1>6. \A j \in Keys : j # k => klock'[j] = klock[j] /\ kdepth'[j] = kdepth[j]
  BY <1>3 DEF Types
<1>7. QED
  BY <1>1, <1>2, <1>4, <1>5, <1>6, NoneAssumption DEF LockInv

\* klock and kdepth say exactly who has locked a key, and how often.
LEMMA LockStep ==
    Types /\ FrameInv /\ LockInv /\ [CoreNext]_core => LockInv'
<1> SUFFICES ASSUME Types, FrameInv, LockInv, [CoreNext]_core
             PROVE  LockInv'
  OBVIOUS
<1> USE NoneAssumption
<1>1. ASSUME NEW t \in Threads, WaitEvents(t)
      PROVE  LockInv'
  BY <1>1 DEF WaitEvents, Goto, lockVars, keyVars, Types, FrameInv, LockInv,
      Depth, NoCbPc, PcSet, PollPc, CbPc, ApiPc, UnregPc, NoCb
<1>2. ASSUME NEW t \in Threads, PollMove(t)
      PROVE  LockInv'
  BY <1>2 DEF PollMove, Goto, lockVars, keyVars, Types, FrameInv, LockInv,
      Depth, NoCbPc, PcSet, PollPc, CbPc, ApiPc, UnregPc, NoCb
<1>3. ASSUME NEW t \in Threads, PollLock(t)
      PROVE  LockInv'
  BY <1>3 DEF PollLock, Goto, lifeVars, kernVars, pollVars, Types, FrameInv,
      LockInv, Depth, NoCbPc, PcSet, PollPc, CbPc, ApiPc, UnregPc, NoCb
<1>4. ASSUME NEW t \in Threads, PollUnlock(t)
      PROVE  LockInv'
  BY <1>4 DEF PollUnlock, Goto, lifeVars, kernVars, pollVars, Types, FrameInv,
      LockInv, Depth, NoCbPc, PcSet, PollPc, CbPc, ApiPc, UnregPc, NoCb
<1>5. ASSUME NEW t \in Threads, PollDecrement(t)
      PROVE  LockInv'
  <2>1. \A u \in Threads, j \in Keys : Depth(u, j)' = Depth(u, j)
    BY <1>5 DEF PollDecrement, Goto, FrameInv, NoCbPc, PollPc, CbPc, ApiPc,
        UnregPc, NoCb, Depth, Types
  <2>2. UNCHANGED <<klock, kdepth>>
    BY <1>5 DEF PollDecrement, lockVars
  <2>3. QED
    BY <2>1, <2>2, LockSame
<1>6. ASSUME NEW t \in Threads, PollReturn(t)
      PROVE  LockInv'
  BY <1>6 DEF PollReturn, Goto, lockVars, lifeVars, kernVars, pollVars, Types,
      FrameInv, LockInv, Depth, NoCbPc, PcSet, PollPc, CbPc, ApiPc, UnregPc,
      NoCb
<1>7. ASSUME NEW t \in Threads, PollScan(t)
      PROVE  LockInv'
  BY <1>7 DEF PollScan, Goto, Scanned, lockVars, kernVars, pollVars, Types,
      FrameInv, LockInv, Depth, NoCbPc, PcSet, PollPc, CbPc, ApiPc, UnregPc,
      NoCb
<1>8. ASSUME NEW t \in Threads, WalkBegin(t)
      PROVE  LockInv'
  BY <1>8 DEF WalkBegin, Goto, keyVars, Types, FrameInv, LockInv, Depth,
      NoCbPc, PcSet, PollPc, CbPc, ApiPc, UnregPc, NoCb
<1>9. ASSUME NEW t \in Threads, ConnectTimeoutEnd(t)
      PROVE  LockInv'
  <2>1. \A u \in Threads, j \in Keys : Depth(u, j)' = Depth(u, j)
    BY <1>9 DEF ConnectTimeoutEnd, Goto, FrameInv, NoCbPc, PollPc, CbPc,
        ApiPc, UnregPc, NoCb, Depth, Types
  <2>2. UNCHANGED <<klock, kdepth>>
    BY <1>9 DEF ConnectTimeoutEnd, lockVars
  <2>3. QED
    BY <2>1, <2>2, LockSame
<1>10. ASSUME NEW t \in Threads, NEW k \in Keys, Collect(t, k)
      PROVE  LockInv'
  BY <1>10 DEF Collect, IncrementCounter, lockVars, kernVars, Types, FrameInv,
      LockInv, Depth, NoCbPc, PcSet, PollPc, CbPc, ApiPc, UnregPc, NoCb
<1>11. ASSUME NEW t \in Threads, NEW k \in Keys, WalkSkip(t, k)
      PROVE  LockInv'
  BY <1>11 DEF WalkSkip, lockVars, keyVars, Types, FrameInv, LockInv, Depth,
      NoCbPc, PcSet, PollPc, CbPc, ApiPc, UnregPc, NoCb
<1>12. ASSUME NEW t \in Threads, NEW k \in Keys, DispatchNothing(t, k)
      PROVE  LockInv'
  BY <1>12 DEF DispatchNothing, Goto, lockVars, lifeVars, kernVars, pollVars,
      Types, FrameInv, LockInv, Depth, NoCbPc, PcSet, PollPc, CbPc, ApiPc,
      UnregPc, NoCb
<1>13. ASSUME NEW t \in Threads, NEW k \in Keys, NEW r \in CbRecord,
              WalkCb(t, k, r)
      PROVE  LockInv'
  <2>1. ~cb[t].has_lock /\ pc[t] \notin UnregPc
    BY <1>13 DEF WalkCb, FrameInv, NoCbPc, PollPc, NoCb, UnregPc
  <2>2. CASE r.has_lock
    <3>1. Depth(t, k)' = Depth(t, k) + 1
      BY <1>13, <2>1, <2>2 DEF WalkCb, Deliver, Goto, Depth, Types, UnregPc
    <3>2. \A u \in Threads, j \in Keys :
             u # t \/ j # k => Depth(u, j)' = Depth(u, j)
      BY <1>13, <2>1, <2>2 DEF WalkCb, Deliver, Goto, Depth, Types, UnregPc
    <3>3. QED
      BY <1>13, <2>2, <3>1, <3>2, LockOnce DEF WalkCb, Deliver
  <2>3. CASE ~r.has_lock
    <3>1. \A u \in Threads, j \in Keys : Depth(u, j)' = Depth(u, j)
      BY <1>13, <2>1, <2>3 DEF WalkCb, Deliver, Goto, Depth, Types, UnregPc
    <3>2. QED
      BY <1>13, <2>3, <3>1, LockSame DEF WalkCb, Deliver
  <2>4. QED
    BY <2>2, <2>3
<1>14. ASSUME NEW t \in Threads, NEW k \in Keys, NEW r \in CbRecord,
              DispatchCb(t, k, r)
      PROVE  LockInv'
  <2>1. ~cb[t].has_lock /\ pc[t] \notin UnregPc
    BY <1>14 DEF DispatchCb, FrameInv, NoCbPc, PollPc, NoCb, UnregPc
  <2>2. CASE r.has_lock
    <3>1. Depth(t, k)' = Depth(t, k) + 1
      BY <1>14, <2>1, <2>2 DEF DispatchCb, Deliver, Goto, Depth, Types, UnregPc
    <3>2. \A u \in Threads, j \in Keys :
             u # t \/ j # k => Depth(u, j)' = Depth(u, j)
      BY <1>14, <2>1, <2>2 DEF DispatchCb, Deliver, Goto, Depth, Types, UnregPc
    <3>3. QED
      BY <1>14, <2>2, <3>1, <3>2, LockOnce DEF DispatchCb, Deliver
  <2>3. CASE ~r.has_lock
    <3>1. \A u \in Threads, j \in Keys : Depth(u, j)' = Depth(u, j)
      BY <1>14, <2>1, <2>3 DEF DispatchCb, Deliver, Goto, Depth, Types, UnregPc
    <3>2. QED
      BY <1>14, <2>3, <3>1, LockSame DEF DispatchCb, Deliver
  <2>4. QED
    BY <2>2, <2>3
<1>15. ASSUME NEW t \in Threads, CbCheck(t)
      PROVE  LockInv'
  BY <1>15 DEF CbCheck, Goto, lockVars, lifeVars, kernVars, pollVars, Types,
      FrameInv, LockInv, Depth, NoCbPc, PcSet, PollPc, CbPc, ApiPc, UnregPc,
      NoCb
<1>16. ASSUME NEW t \in Threads, CbEnter(t)
      PROVE  LockInv'
  BY <1>16 DEF CbEnter, Goto, lockVars, lifeVars, kernVars, pollVars, Types,
      FrameInv, LockInv, Depth, NoCbPc, PcSet, PollPc, CbPc, ApiPc, UnregPc,
      NoCb
<1>17. ASSUME NEW t \in Threads, CbReturn(t)
      PROVE  LockInv'
  BY <1>17 DEF CbReturn, Goto, lockVars, lifeVars, kernVars, pollVars, Types,
      FrameInv, LockInv, Depth, NoCbPc, PcSet, PollPc, CbPc, ApiPc, UnregPc,
      NoCb
<1>18. ASSUME NEW t \in Threads, CbEnd(t)
      PROVE  LockInv'
  <2>0. cb[t].key \in Keys
    BY <1>18 DEF CbEnd, FrameInv, CbPc
  <2> PICK k \in Keys : k = cb[t].key
    BY <2>0
  <2>1. pc[t] \notin UnregPc /\ cb[t].then \notin UnregPc
    BY <1>18 DEF CbEnd, UnregPc, Types, CbRecord
  <2>2. /\ pc' = [pc EXCEPT ![t] = cb[t].then] /\ UNCHANGED call
        /\ cb' = [cb EXCEPT ![t] = IF cb[t].then = "dec"
                       THEN [NoCb EXCEPT !.key = cb[t].key] ELSE NoCb]
    BY <1>18 DEF CbEnd, Goto
  <2>3. ~cb'[t].has_lock
    BY <2>2 DEF Types, NoCb
  <2>4. CASE cb[t].has_lock
    <3>1. Depth(t, k) >= 1 /\ Depth(t, k)' = Depth(t, k) - 1
      BY <2>1, <2>2, <2>3, <2>4 DEF Depth, Types
    <3>2. \A u \in Threads, j \in Keys :
             u # t \/ j # k => Depth(u, j)' = Depth(u, j)
      BY <2>1, <2>2, <2>3 DEF Depth, Types
    <3>3. QED
      BY <1>18, <2>1, <2>4, <3>1, <3>2, UnlockOnce DEF CbEnd
  <2>5. CASE ~cb[t].has_lock
    <3>1. \A u \in Threads, j \in Keys : Depth(u, j)' = Depth(u, j)
      BY <2>1, <2>2, <2>3, <2>5 DEF Depth, Types
    <3>2. QED
      BY <1>18, <2>5, <3>1, LockSame DEF CbEnd
  <2>6. QED
    BY <2>4, <2>5
<1>19. ASSUME NEW t \in Threads, UnregLock(t)
      PROVE  LockInv'
  <2> DEFINE k == call[t].key
  <2>1. k \in Keys /\ pc[t] \notin UnregPc /\ call[t].ret \notin UnregPc
    BY <1>19 DEF UnregLock, FrameInv, ApiPc, UnregPc, Types, CallRecord
  <2>2. UNCHANGED cb
    BY <1>19 DEF UnregLock
  <2>3. CASE closing[k]
    <3>1. \A u \in Threads, j \in Keys : Depth(u, j)' = Depth(u, j)
      BY <1>19, <2>1, <2>2, <2>3, ZenonT(40) DEF UnregLock, Return, Goto, Depth, Types
    <3>2. QED
      BY <1>19, <2>3, <3>1, LockSame DEF UnregLock
  <2>4. CASE ~closing[k]
    <3>1. pc' = [pc EXCEPT ![t] = "unreg_del"] /\ UNCHANGED call
      BY <1>19, <2>4 DEF UnregLock, Goto
    <3>2. Depth(t, k)' = Depth(t, k) + 1
      BY <2>1, <2>2, <3>1 DEF Depth, Types, UnregPc
    <3>3. \A u \in Threads, j \in Keys :
             u # t \/ j # k => Depth(u, j)' = Depth(u, j)
      BY <2>1, <2>2, <3>1 DEF Depth, Types, UnregPc
    <3>4. QED
      BY <1>19, <2>1, <2>4, <3>2, <3>3, LockOnce DEF UnregLock
  <2>5. QED
    BY <2>3, <2>4
<1>20. ASSUME NEW t \in Threads, UnregDelOk(t)
      PROVE  LockInv'
  BY <1>20 DEF UnregDelOk, Goto, lockVars, Types, FrameInv, LockInv, Depth,
      NoCbPc, PcSet, PollPc, CbPc, ApiPc, UnregPc, NoCb
<1>21. ASSUME NEW t \in Threads, UnregDelFail(t)
      PROVE  LockInv'
  <2>0. call[t].key \in Keys
    BY <1>21 DEF UnregDelFail, FrameInv, ApiPc, UnregPc
  <2> PICK k \in Keys : k = call[t].key
    BY <2>0
  <2>1. pc[t] \in UnregPc /\ call[t].ret \notin UnregPc
    BY <1>21 DEF UnregDelFail, UnregPc, Types, CallRecord
  <2>2. pc' = [pc EXCEPT ![t] = call[t].ret] /\ UNCHANGED cb
    BY <1>21 DEF UnregDelFail, Return, Goto
  <2>3. call' = [call EXCEPT ![t] = NoCall]
    BY <1>21 DEF UnregDelFail, Return
  <2>4. Depth(t, k) >= 1 /\ Depth(t, k)' = Depth(t, k) - 1
    BY <2>1, <2>2 DEF Depth, Types
  <2>5. \A u \in Threads, j \in Keys :
           u # t \/ j # k => Depth(u, j)' = Depth(u, j)
    BY <2>1, <2>2, <2>3 DEF Depth, Types
  <2>6. QED
    BY <1>21, <2>1, <2>4, <2>5, UnlockOnce DEF UnregDelFail
<1>22. ASSUME NEW t \in Threads, UnregClose(t)
      PROVE  LockInv'
  <2>1. \A u \in Threads, j \in Keys : Depth(u, j)' = Depth(u, j)
    BY <1>22 DEF UnregClose, Goto, UnregPc, Depth, Types
  <2>2. UNCHANGED <<klock, kdepth>>
    BY <1>22 DEF UnregClose, lockVars
  <2>3. QED
    BY <2>1, <2>2, LockSame
<1>23. ASSUME NEW t \in Threads, UnregDecrement(t)
      PROVE  LockInv'
  BY <1>23 DEF UnregDecrement, Goto, Decrement, lockVars, kernVars, pollVars,
      Types, FrameInv, LockInv, Depth, NoCbPc, PcSet, PollPc, CbPc, ApiPc,
      UnregPc, NoCb
<1>24. ASSUME NEW t \in Threads, UnregUnlock(t)
      PROVE  LockInv'
  <2>0. call[t].key \in Keys
    BY <1>24 DEF UnregUnlock, FrameInv, ApiPc, UnregPc
  <2> PICK k \in Keys : k = call[t].key
    BY <2>0
  <2>1. pc[t] \in UnregPc /\ call[t].ret \notin UnregPc
    BY <1>24 DEF UnregUnlock, UnregPc, Types, CallRecord
  <2>2. pc' = [pc EXCEPT ![t] = call[t].ret] /\ UNCHANGED cb
    BY <1>24 DEF UnregUnlock, Return, Goto
  <2>3. call' = [call EXCEPT ![t] = NoCall]
    BY <1>24 DEF UnregUnlock, Return
  <2>4. Depth(t, k) >= 1 /\ Depth(t, k)' = Depth(t, k) - 1
    BY <2>1, <2>2 DEF Depth, Types
  <2>5. \A u \in Threads, j \in Keys :
           u # t \/ j # k => Depth(u, j)' = Depth(u, j)
    BY <2>1, <2>2, <2>3 DEF Depth, Types
  <2>6. QED
    BY <1>24, <2>1, <2>4, <2>5, UnlockOnce DEF UnregUnlock
<1>25. ASSUME NEW t \in Threads, CallMove(t)
      PROVE  LockInv'
  <2>1. pc[t] \notin UnregPc /\ UNCHANGED <<klock, kdepth, cb>>
    BY <1>25 DEF CallMove, UnregPc, lockVars
  <2>2. PICK x \in {"idle", "cbend", "queue_op", "connect_lock"} :
               pc' = [pc EXCEPT ![t] = x]
    BY <1>25 DEF CallMove, Return, Goto, Types, CallRecord
  <2>3. \A u \in Threads : u # t => call'[u] = call[u]
    BY <1>25 DEF CallMove, Return, Types
  <2>4. \A u \in Threads, j \in Keys : Depth(u, j)' = Depth(u, j)
    BY <2>1, <2>2, <2>3 DEF Depth, Types, UnregPc
  <2>5. QED
    BY <2>1, <2>4, LockSame
<1>26. ASSUME NEW t \in Threads, NEW r \in CbRecord, PostCb(t, r)
      PROVE  LockInv'
  BY <1>26 DEF PostCb, Goto, lockVars, keyVars, Types, FrameInv, LockInv,
      Depth, NoCbPc, PcSet, PollPc, CbPc, ApiPc, UnregPc, NoCb
<1>27. ASSUME NEW t \in Threads, NEW c \in KeyCalls, NEW k \in Keys,
              NEW o \in Ops \cup {None},
              Begin(t, c, k, o)
      PROVE  LockInv'
  <2>1. \A u \in Threads, j \in Keys : Depth(u, j)' = Depth(u, j)
    BY <1>27 DEF Begin, Goto, UnregPc, KeyCalls, OpCalls, Depth, Types
  <2>2. UNCHANGED <<klock, kdepth>>
    BY <1>27 DEF Begin, lockVars
  <2>3. QED
    BY <2>1, <2>2, LockSame
<1>28. ASSUME RegisterScan
      PROVE  LockInv'
  BY <1>28 DEF RegisterScan, Scanned, lockVars, Types, FrameInv, LockInv,
      Depth, NoCbPc, PcSet, PollPc, CbPc, ApiPc, UnregPc, NoCb
<1>29. ASSUME NEW k \in Keys, NEW n \in Nat, NEW added \in BOOLEAN,
              RegisterKey(k, n, added)
      PROVE  LockInv'
  BY <1>29 DEF RegisterKey, Scanned, lockVars, Types, FrameInv, LockInv,
      Depth, NoCbPc, PcSet, PollPc, CbPc, ApiPc, UnregPc, NoCb
<1>30. ASSUME NEW k \in Keys, FreeDelayPasses(k)
      PROVE  LockInv'
  BY <1>30 DEF FreeDelayPasses, lockVars, kernVars, pollVars, Types, FrameInv,
      LockInv, Depth, NoCbPc, PcSet, PollPc, CbPc, ApiPc, UnregPc, NoCb
<1>31. CASE UNCHANGED core
  BY <1>31 DEF core, lockVars, Types, FrameInv, LockInv, Depth, NoCbPc, PcSet,
      PollPc, CbPc, ApiPc, UnregPc, NoCb
<1>32. QED
  BY <1>1, <1>2, <1>3, <1>4, <1>5, <1>6, <1>7, <1>8, <1>9, <1>10, <1>11,
      <1>12, <1>13, <1>14, <1>15, <1>16, <1>17, <1>18, <1>19, <1>20, <1>21,
      <1>22, <1>23, <1>24, <1>25, <1>26, <1>27, <1>28, <1>29, <1>30, <1>31
  DEF CoreNext, CorePoll, CoreCall, CbStep

\* ioqueue->lock is kept over the collecting loop and over the walk.
LEMMA QueueLockStep ==
    Types /\ FrameInv /\ QueueLockInv /\ [CoreNext]_core => QueueLockInv'
<1> SUFFICES ASSUME Types, FrameInv, QueueLockInv, [CoreNext]_core
             PROVE  QueueLockInv'
  OBVIOUS
<1> USE NoneAssumption
<1>1. ASSUME NEW t \in Threads, WaitEvents(t)
      PROVE  QueueLockInv'
  BY <1>1 DEF WaitEvents, Goto, lockVars, keyVars, Types, FrameInv,
      QueueLockInv, NoCbPc, PollPc, CbPc, ApiPc, UnregPc, NoCb
<1>2. ASSUME NEW t \in Threads, PollMove(t)
      PROVE  QueueLockInv'
  BY <1>2 DEF PollMove, Goto, lockVars, keyVars, Types, FrameInv,
      QueueLockInv, NoCbPc, PollPc, CbPc, ApiPc, UnregPc, NoCb
<1>3. ASSUME NEW t \in Threads, PollLock(t)
      PROVE  QueueLockInv'
  BY <1>3 DEF PollLock, Goto, lifeVars, kernVars, pollVars, Types, FrameInv,
      QueueLockInv, NoCbPc, PollPc, CbPc, ApiPc, UnregPc, NoCb
<1>4. ASSUME NEW t \in Threads, PollUnlock(t)
      PROVE  QueueLockInv'
  BY <1>4 DEF PollUnlock, Goto, lifeVars, kernVars, pollVars, Types, FrameInv,
      QueueLockInv, NoCbPc, PollPc, CbPc, ApiPc, UnregPc, NoCb
<1>5. ASSUME NEW t \in Threads, PollDecrement(t)
      PROVE  QueueLockInv'
  BY <1>5 DEF PollDecrement, Goto, Decrement, lockVars, kernVars, Types,
      FrameInv, QueueLockInv, NoCbPc, PollPc, CbPc, ApiPc, UnregPc, NoCb
<1>6. ASSUME NEW t \in Threads, PollReturn(t)
      PROVE  QueueLockInv'
  BY <1>6 DEF PollReturn, Goto, lockVars, lifeVars, kernVars, pollVars, Types,
      FrameInv, QueueLockInv, NoCbPc, PollPc, CbPc, ApiPc, UnregPc, NoCb
<1>7. ASSUME NEW t \in Threads, PollScan(t)
      PROVE  QueueLockInv'
  BY <1>7 DEF PollScan, Goto, Scanned, lockVars, kernVars, pollVars, Types,
      FrameInv, QueueLockInv, NoCbPc, PollPc, CbPc, ApiPc, UnregPc, NoCb
<1>8. ASSUME NEW t \in Threads, WalkBegin(t)
      PROVE  QueueLockInv'
  BY <1>8 DEF WalkBegin, Goto, keyVars, Types, FrameInv, QueueLockInv, NoCbPc,
      PollPc, CbPc, ApiPc, UnregPc, NoCb
<1>9. ASSUME NEW t \in Threads, ConnectTimeoutEnd(t)
      PROVE  QueueLockInv'
  BY <1>9 DEF ConnectTimeoutEnd, Goto, lifeVars, kernVars, pollVars, Types,
      FrameInv, QueueLockInv, NoCbPc, PollPc, CbPc, ApiPc, UnregPc, NoCb
<1>10. ASSUME NEW t \in Threads, NEW k \in Keys, Collect(t, k)
      PROVE  QueueLockInv'
  BY <1>10 DEF Collect, IncrementCounter, lockVars, kernVars, Types, FrameInv,
      QueueLockInv, NoCbPc, PollPc, CbPc, ApiPc, UnregPc, NoCb
<1>11. ASSUME NEW t \in Threads, NEW k \in Keys, WalkSkip(t, k)
      PROVE  QueueLockInv'
  BY <1>11 DEF WalkSkip, lockVars, keyVars, Types, FrameInv, QueueLockInv,
      NoCbPc, PollPc, CbPc, ApiPc, UnregPc, NoCb
<1>12. ASSUME NEW t \in Threads, NEW k \in Keys, DispatchNothing(t, k)
      PROVE  QueueLockInv'
  BY <1>12 DEF DispatchNothing, Goto, lockVars, lifeVars, kernVars, pollVars,
      Types, FrameInv, QueueLockInv, NoCbPc, PollPc, CbPc, ApiPc, UnregPc,
      NoCb
<1>13. ASSUME NEW t \in Threads, NEW k \in Keys, NEW r \in CbRecord,
              WalkCb(t, k, r)
      PROVE  QueueLockInv'
  BY <1>13 DEF WalkCb, Deliver, Goto, LockKey, keyVars, KeyFree, Types,
      FrameInv, QueueLockInv, NoCbPc, PollPc, CbPc, ApiPc, UnregPc, NoCb
<1>14. ASSUME NEW t \in Threads, NEW k \in Keys, NEW r \in CbRecord,
              DispatchCb(t, k, r)
      PROVE  QueueLockInv'
  BY <1>14 DEF DispatchCb, Deliver, Goto, LockKey, keyVars, KeyFree, Types,
      FrameInv, QueueLockInv, NoCbPc, PollPc, CbPc, ApiPc, UnregPc, NoCb
<1>15. ASSUME NEW t \in Threads, CbCheck(t)
      PROVE  QueueLockInv'
  BY <1>15 DEF CbCheck, Goto, lockVars, lifeVars, kernVars, pollVars, Types,
      FrameInv, QueueLockInv, NoCbPc, PollPc, CbPc, ApiPc, UnregPc, NoCb
<1>16. ASSUME NEW t \in Threads, CbEnter(t)
      PROVE  QueueLockInv'
  BY <1>16 DEF CbEnter, Goto, lockVars, lifeVars, kernVars, pollVars, Types,
      FrameInv, QueueLockInv, NoCbPc, PollPc, CbPc, ApiPc, UnregPc, NoCb
<1>17. ASSUME NEW t \in Threads, CbReturn(t)
      PROVE  QueueLockInv'
  BY <1>17 DEF CbReturn, Goto, lockVars, lifeVars, kernVars, pollVars, Types,
      FrameInv, QueueLockInv, NoCbPc, PollPc, CbPc, ApiPc, UnregPc, NoCb
<1>18. ASSUME NEW t \in Threads, CbEnd(t)
      PROVE  QueueLockInv'
  BY <1>18 DEF CbEnd, Goto, UnlockKey, lifeVars, kernVars, pollVars, CbRecord,
      Types, FrameInv, QueueLockInv, NoCbPc, PollPc, CbPc, ApiPc, UnregPc,
      NoCb
<1>19. ASSUME NEW t \in Threads, UnregLock(t)
      PROVE  QueueLockInv'
  <2>1. pc[t] \in {"unregister"}
    BY <1>19 DEF UnregLock
  <2>2. UNCHANGED <<qlock, list, queue, evs, todo, cb>>
    BY <1>19 DEF UnregLock, lifeVars, pollVars
  <2>3. PICK x \in {"idle", "cbend", "unreg_del"} : pc' = [pc EXCEPT ![t] = x]
    BY <1>19 DEF UnregLock, Return, Goto, Types, CallRecord
  <2>4. QED
    BY <2>1, <2>2, <2>3 DEF Types, QueueLockInv
<1>20. ASSUME NEW t \in Threads, UnregDelOk(t)
      PROVE  QueueLockInv'
  BY <1>20 DEF UnregDelOk, Goto, lockVars, Types, FrameInv, QueueLockInv,
      NoCbPc, PollPc, CbPc, ApiPc, UnregPc, NoCb
<1>21. ASSUME NEW t \in Threads, UnregDelFail(t)
      PROVE  QueueLockInv'
  BY <1>21 DEF UnregDelFail, Goto, Return, UnlockKey, keyVars, CallRecord,
      Types, FrameInv, QueueLockInv, NoCbPc, PollPc, CbPc, ApiPc, UnregPc,
      NoCb
<1>22. ASSUME NEW t \in Threads, UnregClose(t)
      PROVE  QueueLockInv'
  BY <1>22 DEF UnregClose, Goto, lockVars, kernVars, pollVars, Types,
      FrameInv, QueueLockInv, NoCbPc, PollPc, CbPc, ApiPc, UnregPc, NoCb
<1>23. ASSUME NEW t \in Threads, UnregDecrement(t)
      PROVE  QueueLockInv'
  BY <1>23 DEF UnregDecrement, Goto, Decrement, lockVars, kernVars, pollVars,
      Types, FrameInv, QueueLockInv, NoCbPc, PollPc, CbPc, ApiPc, UnregPc,
      NoCb
<1>24. ASSUME NEW t \in Threads, UnregUnlock(t)
      PROVE  QueueLockInv'
  BY <1>24 DEF UnregUnlock, Goto, Return, UnlockKey, lifeVars, kernVars,
      pollVars, CallRecord, Types, FrameInv, QueueLockInv, NoCbPc, PollPc,
      CbPc, ApiPc, UnregPc, NoCb
<1>25. ASSUME NEW t \in Threads, CallMove(t)
      PROVE  QueueLockInv'
  BY <1>25 DEF CallMove, Goto, Return, lockVars, keyVars, CallRecord, Types,
      FrameInv, QueueLockInv, NoCbPc, PollPc, CbPc, ApiPc, UnregPc, NoCb
<1>26. ASSUME NEW t \in Threads, NEW r \in CbRecord, PostCb(t, r)
      PROVE  QueueLockInv'
  BY <1>26 DEF PostCb, Goto, lockVars, keyVars, Types, FrameInv, QueueLockInv,
      NoCbPc, PollPc, CbPc, ApiPc, UnregPc, NoCb
<1>27. ASSUME NEW t \in Threads, NEW c \in KeyCalls, NEW k \in Keys,
              NEW o \in Ops \cup {None},
              Begin(t, c, k, o)
      PROVE  QueueLockInv'
  BY <1>27 DEF Begin, Goto, lockVars, keyVars, OpCalls, KeyCalls, Types,
      FrameInv, QueueLockInv, NoCbPc, PollPc, CbPc, ApiPc, UnregPc, NoCb
<1>28. ASSUME RegisterScan
      PROVE  QueueLockInv'
  BY <1>28 DEF RegisterScan, Scanned, lockVars, Types, FrameInv, QueueLockInv,
      NoCbPc, PollPc, CbPc, ApiPc, UnregPc, NoCb
<1>29. ASSUME NEW k \in Keys, NEW n \in Nat, NEW added \in BOOLEAN,
              RegisterKey(k, n, added)
      PROVE  QueueLockInv'
  BY <1>29 DEF RegisterKey, Scanned, lockVars, Types, FrameInv, QueueLockInv,
      NoCbPc, PollPc, CbPc, ApiPc, UnregPc, NoCb
<1>30. ASSUME NEW k \in Keys, FreeDelayPasses(k)
      PROVE  QueueLockInv'
  BY <1>30 DEF FreeDelayPasses, lockVars, kernVars, pollVars, Types, FrameInv,
      QueueLockInv, NoCbPc, PollPc, CbPc, ApiPc, UnregPc, NoCb
<1>31. CASE UNCHANGED core
  BY <1>31 DEF core, lockVars, Types, FrameInv, QueueLockInv, NoCbPc, PollPc,
      CbPc, ApiPc, UnregPc, NoCb
<1>32. QED
  BY <1>1, <1>2, <1>3, <1>4, <1>5, <1>6, <1>7, <1>8, <1>9, <1>10, <1>11,
      <1>12, <1>13, <1>14, <1>15, <1>16, <1>17, <1>18, <1>19, <1>20, <1>21,
      <1>22, <1>23, <1>24, <1>25, <1>26, <1>27, <1>28, <1>29, <1>30, <1>31
  DEF CoreNext, CorePoll, CoreCall, CbStep

\* queue[] holds an entry from its collection to its decrement_counter.
LEMMA QueueStep ==
    Types /\ FrameInv /\ QueueInv /\ [CoreNext]_core => QueueInv'
<1> SUFFICES ASSUME Types, FrameInv, QueueInv, [CoreNext]_core
             PROVE  QueueInv'
  OBVIOUS
<1> USE NoneAssumption
<1>1. ASSUME NEW t \in Threads, WaitEvents(t)
      PROVE  QueueInv'
  BY <1>1 DEF WaitEvents, Goto, lockVars, keyVars, Types, FrameInv, QueueInv,
      NoCbPc, PollPc, CbPc, ApiPc, UnregPc, NoCb
<1>2. ASSUME NEW t \in Threads, PollMove(t)
      PROVE  QueueInv'
  BY <1>2, SMTT(30) DEF PollMove, Goto, lockVars, keyVars, Types, FrameInv, QueueInv,
      NoCbPc, PollPc, CbPc, ApiPc, UnregPc, NoCb
<1>3. ASSUME NEW t \in Threads, PollLock(t)
      PROVE  QueueInv'
  BY <1>3 DEF PollLock, Goto, lifeVars, kernVars, pollVars, Types, FrameInv,
      QueueInv, NoCbPc, PollPc, CbPc, ApiPc, UnregPc, NoCb
<1>4. ASSUME NEW t \in Threads, PollUnlock(t)
      PROVE  QueueInv'
  BY <1>4 DEF PollUnlock, Goto, lifeVars, kernVars, pollVars, Types, FrameInv,
      QueueInv, NoCbPc, PollPc, CbPc, ApiPc, UnregPc, NoCb
<1>5. ASSUME NEW t \in Threads, PollDecrement(t)
      PROVE  QueueInv'
  BY <1>5 DEF PollDecrement, Goto, Decrement, lockVars, kernVars, Types,
      FrameInv, QueueInv, NoCbPc, PollPc, CbPc, ApiPc, UnregPc, NoCb
<1>6. ASSUME NEW t \in Threads, PollReturn(t)
      PROVE  QueueInv'
  BY <1>6 DEF PollReturn, Goto, lockVars, lifeVars, kernVars, pollVars, Types,
      FrameInv, QueueInv, NoCbPc, PollPc, CbPc, ApiPc, UnregPc, NoCb
<1>7. ASSUME NEW t \in Threads, PollScan(t)
      PROVE  QueueInv'
  BY <1>7 DEF PollScan, Goto, Scanned, lockVars, kernVars, pollVars, Types,
      FrameInv, QueueInv, NoCbPc, PollPc, CbPc, ApiPc, UnregPc, NoCb
<1>8. ASSUME NEW t \in Threads, WalkBegin(t)
      PROVE  QueueInv'
  BY <1>8 DEF WalkBegin, Goto, keyVars, Types, FrameInv, QueueInv, NoCbPc,
      PollPc, CbPc, ApiPc, UnregPc, NoCb
<1>9. ASSUME NEW t \in Threads, ConnectTimeoutEnd(t)
      PROVE  QueueInv'
  BY <1>9 DEF ConnectTimeoutEnd, Goto, lifeVars, kernVars, pollVars, Types,
      FrameInv, QueueInv, NoCbPc, PollPc, CbPc, ApiPc, UnregPc, NoCb
<1>10. ASSUME NEW t \in Threads, NEW k \in Keys, Collect(t, k)
      PROVE  QueueInv'
  BY <1>10 DEF Collect, IncrementCounter, lockVars, kernVars, Types, FrameInv,
      QueueInv, NoCbPc, PollPc, CbPc, ApiPc, UnregPc, NoCb
<1>11. ASSUME NEW t \in Threads, NEW k \in Keys, WalkSkip(t, k)
      PROVE  QueueInv'
  BY <1>11 DEF WalkSkip, lockVars, keyVars, Types, FrameInv, QueueInv, NoCbPc,
      PollPc, CbPc, ApiPc, UnregPc, NoCb
<1>12. ASSUME NEW t \in Threads, NEW k \in Keys, DispatchNothing(t, k)
      PROVE  QueueInv'
  BY <1>12 DEF DispatchNothing, Goto, lockVars, lifeVars, kernVars, pollVars,
      Types, FrameInv, QueueInv, NoCbPc, PollPc, CbPc, ApiPc, UnregPc, NoCb
<1>13. ASSUME NEW t \in Threads, NEW k \in Keys, NEW r \in CbRecord,
              WalkCb(t, k, r)
      PROVE  QueueInv'
  BY <1>13 DEF WalkCb, Deliver, Goto, LockKey, keyVars, KeyFree, Types,
      FrameInv, QueueInv, NoCbPc, PollPc, CbPc, ApiPc, UnregPc, NoCb
<1>14. ASSUME NEW t \in Threads, NEW k \in Keys, NEW r \in CbRecord,
              DispatchCb(t, k, r)
      PROVE  QueueInv'
  BY <1>14 DEF DispatchCb, Deliver, Goto, LockKey, keyVars, KeyFree, Types,
      FrameInv, QueueInv, NoCbPc, PollPc, CbPc, ApiPc, UnregPc, NoCb
<1>15. ASSUME NEW t \in Threads, CbCheck(t)
      PROVE  QueueInv'
  <2>1. pc[t] \in {"cbcheck"}
    BY <1>15 DEF CbCheck
  <2>2. UNCHANGED <<qlock, list, queue, evs, todo, cb>>
    BY <1>15 DEF CbCheck, lifeVars, pollVars, lockVars
  <2>3. PICK x \in {"cbenter", "cbend"} : pc' = [pc EXCEPT ![t] = x]
    BY <1>15 DEF CbCheck, Return, Goto, Types, CallRecord
  <2>4. QED
    BY <2>1, <2>2, <2>3 DEF Types, QueueInv
<1>16. ASSUME NEW t \in Threads, CbEnter(t)
      PROVE  QueueInv'
  BY <1>16 DEF CbEnter, Goto, lockVars, lifeVars, kernVars, pollVars, Types,
      FrameInv, QueueInv, NoCbPc, PollPc, CbPc, ApiPc, UnregPc, NoCb
<1>17. ASSUME NEW t \in Threads, CbReturn(t)
      PROVE  QueueInv'
  BY <1>17 DEF CbReturn, Goto, lockVars, lifeVars, kernVars, pollVars, Types,
      FrameInv, QueueInv, NoCbPc, PollPc, CbPc, ApiPc, UnregPc, NoCb
<1>18. ASSUME NEW t \in Threads, CbEnd(t)
      PROVE  QueueInv'
  BY <1>18 DEF CbEnd, Goto, UnlockKey, lifeVars, kernVars, pollVars, CbRecord,
      Types, FrameInv, QueueInv, NoCbPc, PollPc, CbPc, ApiPc, UnregPc, NoCb
<1>19. ASSUME NEW t \in Threads, UnregLock(t)
      PROVE  QueueInv'
  <2>1. pc[t] \in {"unregister"}
    BY <1>19 DEF UnregLock
  <2>2. UNCHANGED <<qlock, list, queue, evs, todo, cb>>
    BY <1>19 DEF UnregLock, lifeVars, pollVars
  <2>3. PICK x \in {"idle", "cbend", "unreg_del"} : pc' = [pc EXCEPT ![t] = x]
    BY <1>19 DEF UnregLock, Return, Goto, Types, CallRecord
  <2>4. QED
    BY <2>1, <2>2, <2>3 DEF Types, QueueInv
<1>20. ASSUME NEW t \in Threads, UnregDelOk(t)
      PROVE  QueueInv'
  BY <1>20 DEF UnregDelOk, Goto, lockVars, Types, FrameInv, QueueInv, NoCbPc,
      PollPc, CbPc, ApiPc, UnregPc, NoCb
<1>21. ASSUME NEW t \in Threads, UnregDelFail(t)
      PROVE  QueueInv'
  BY <1>21 DEF UnregDelFail, Goto, Return, UnlockKey, keyVars, CallRecord,
      Types, FrameInv, QueueInv, NoCbPc, PollPc, CbPc, ApiPc, UnregPc, NoCb
<1>22. ASSUME NEW t \in Threads, UnregClose(t)
      PROVE  QueueInv'
  BY <1>22 DEF UnregClose, Goto, lockVars, kernVars, pollVars, Types,
      FrameInv, QueueInv, NoCbPc, PollPc, CbPc, ApiPc, UnregPc, NoCb
<1>23. ASSUME NEW t \in Threads, UnregDecrement(t)
      PROVE  QueueInv'
  BY <1>23 DEF UnregDecrement, Goto, Decrement, lockVars, kernVars, pollVars,
      Types, FrameInv, QueueInv, NoCbPc, PollPc, CbPc, ApiPc, UnregPc, NoCb
<1>24. ASSUME NEW t \in Threads, UnregUnlock(t)
      PROVE  QueueInv'
  <2>1. pc[t] \in {"unreg_unlock"}
    BY <1>24 DEF UnregUnlock
  <2>2. UNCHANGED <<qlock, list, queue, evs, todo, cb>>
    BY <1>24 DEF UnregUnlock, lifeVars, pollVars
  <2>3. PICK x \in {"idle", "cbend"} : pc' = [pc EXCEPT ![t] = x]
    BY <1>24 DEF UnregUnlock, Return, Goto, Types, CallRecord
  <2>4. QED
    BY <2>1, <2>2, <2>3 DEF Types, QueueInv
<1>25. ASSUME NEW t \in Threads, CallMove(t)
      PROVE  QueueInv'
  <2>1. pc[t] \in {"recv", "send", "accept", "queue_op",
                  "connect", "connect_lock", "post"}
    BY <1>25 DEF CallMove
  <2>2. UNCHANGED <<qlock, list, queue, evs, todo, cb>>
    BY <1>25 DEF CallMove, lockVars, keyVars
  <2>3. PICK x \in {"idle", "cbend", "queue_op", "connect_lock"} :
               pc' = [pc EXCEPT ![t] = x]
    BY <1>25 DEF CallMove, Return, Goto, Types, CallRecord
  <2>4. QED
    BY <2>1, <2>2, <2>3 DEF Types, QueueInv
<1>26. ASSUME NEW t \in Threads, NEW r \in CbRecord, PostCb(t, r)
      PROVE  QueueInv'
  BY <1>26 DEF PostCb, Goto, lockVars, keyVars, Types, FrameInv, QueueInv,
      NoCbPc, PollPc, CbPc, ApiPc, UnregPc, NoCb
<1>27. ASSUME NEW t \in Threads, NEW c \in KeyCalls, NEW k \in Keys,
              NEW o \in Ops \cup {None},
              Begin(t, c, k, o)
      PROVE  QueueInv'
  BY <1>27 DEF Begin, Goto, lockVars, keyVars, OpCalls, KeyCalls, Types,
      FrameInv, QueueInv, NoCbPc, PollPc, CbPc, ApiPc, UnregPc, NoCb
<1>28. ASSUME RegisterScan
      PROVE  QueueInv'
  BY <1>28 DEF RegisterScan, Scanned, lockVars, Types, FrameInv, QueueInv,
      NoCbPc, PollPc, CbPc, ApiPc, UnregPc, NoCb
<1>29. ASSUME NEW k \in Keys, NEW n \in Nat, NEW added \in BOOLEAN,
              RegisterKey(k, n, added)
      PROVE  QueueInv'
  BY <1>29 DEF RegisterKey, Scanned, lockVars, Types, FrameInv, QueueInv,
      NoCbPc, PollPc, CbPc, ApiPc, UnregPc, NoCb
<1>30. ASSUME NEW k \in Keys, FreeDelayPasses(k)
      PROVE  QueueInv'
  BY <1>30 DEF FreeDelayPasses, lockVars, kernVars, pollVars, Types, FrameInv,
      QueueInv, NoCbPc, PollPc, CbPc, ApiPc, UnregPc, NoCb
<1>31. CASE UNCHANGED core
  BY <1>31 DEF core, lockVars, Types, FrameInv, QueueInv, NoCbPc, PollPc,
      CbPc, ApiPc, UnregPc, NoCb
<1>32. QED
  BY <1>1, <1>2, <1>3, <1>4, <1>5, <1>6, <1>7, <1>8, <1>9, <1>10, <1>11,
      <1>12, <1>13, <1>14, <1>15, <1>16, <1>17, <1>18, <1>19, <1>20, <1>21,
      <1>22, <1>23, <1>24, <1>25, <1>26, <1>27, <1>28, <1>29, <1>30, <1>31
  DEF CoreNext, CorePoll, CoreCall, CbStep

\* The pollers that refer to a key are finitely many.
LEMMA RefsFinite ==
    \A k \in Keys : /\ IsFiniteSet(Refs(k))
                    /\ Cardinality(Refs(k)) \in Nat
                    /\ Refs(k) # {} => Cardinality(Refs(k)) >= 1
<1> SUFFICES ASSUME NEW k \in Keys
             PROVE  /\ IsFiniteSet(Refs(k))
                    /\ Cardinality(Refs(k)) \in Nat
                    /\ Refs(k) # {} => Cardinality(Refs(k)) >= 1
  OBVIOUS
<1>1. Refs(k) \subseteq Threads
  BY DEF Refs
<1>2. IsFiniteSet(Refs(k))
  BY <1>1, ThreadsAssumption, FS_Subset
<1>3. Cardinality(Refs(k)) \in Nat /\ (Cardinality(Refs(k)) = 0 <=> Refs(k) = {})
  BY <1>2, FS_CardinalityType, FS_EmptySet
<1>4. QED
  BY <1>2, <1>3

\* The poller that drops the last reference to a key finds it closing.
LEMMA LastPoller ==
    ASSUME ListInv, RefInv, NEW t \in Threads, NEW k \in Keys,
           queue[t][k] # "NO_EVENT", ref_count[k] = 1
    PROVE  /\ list[k] = "active" /\ closing[k] /\ ~Registered(k)
           /\ Refs(k) = {t}
<1>1. t \in Refs(k)
  BY DEF Refs
<1>2. Cardinality(Refs(k)) >= 1 /\ Cardinality(Refs(k)) \in Nat
  BY <1>1, RefsFinite
<1>3. ref_count[k] = Cardinality(Refs(k)) + (IF Registered(k) THEN 1 ELSE 0)
  BY DEF RefInv, RefCountExact
<1>4. ~Registered(k)
  BY <1>2, <1>3
<1>5. list[k] = "active"
  BY DEF ListInv
<1>6. closing[k]
  BY <1>4, <1>5 DEF Registered
<1>7. Cardinality(Refs(k)) = 1
  BY <1>2, <1>3, <1>4
<1>8. PICK u : Refs(k) = {u}
  BY <1>7, RefsFinite, FS_Singleton
<1>9. QED
  BY <1>1, <1>4, <1>5, <1>6, <1>8

\* When the registration's reference is the last one, no poller is left.
LEMMA LastRegistration ==
    ASSUME RefInv, NEW k \in Keys, Registered(k), ref_count[k] = 1
    PROVE  Refs(k) = {}
<1>1. ref_count[k] = Cardinality(Refs(k)) + 1
  BY DEF RefInv, RefCountExact
<1>2. Cardinality(Refs(k)) \in Nat /\ IsFiniteSet(Refs(k))
  BY RefsFinite
<1>3. Cardinality(Refs(k)) = 0
  BY <1>1, <1>2
<1>4. QED
  BY <1>2, <1>3, FS_EmptySet

\* At most one thread is past the lock of pj_ioqueue_unregister for a key.
LEMMA UnregAlone ==
    ASSUME LockInv, NEW t \in Threads, NEW u \in Threads,
           pc[t] \in UnregPc, pc[u] \in UnregPc, call[t].key \in Keys,
           call[u].key = call[t].key
    PROVE  u = t
<1> PICK k \in Keys : k = call[t].key
  OBVIOUS
<1>1. Depth(t, k) # 0 /\ Depth(u, k) # 0
  BY DEF Depth
<1>2. klock[k] = t /\ klock[k] = u
  BY <1>1 DEF LockInv
<1>3. QED
  BY <1>2

\* A step that leaves the lists and flags alone, and brings no thread to a
\* key that the application or the active list does not hold.
LEMMA ListSame ==
    ASSUME ListInv, UNCHANGED <<list, closing, polled, free_due>>,
           \A u \in Threads, j \in Keys : Busy(u, j)' => Busy(u, j) \/ Held(j),
           \A u \in Threads, j \in Keys :
               queue'[u][j] # "NO_EVENT" =>
                   queue[u][j] # "NO_EVENT" \/ list[j] = "active",
           \A u \in Threads :
               pc'[u] \in {"unreg_del", "unreg_close", "unreg_dec"} =>
                   pc'[u] = pc[u] /\ call'[u].key = call[u].key
    PROVE  ListInv'
  BY DEF ListInv, Held

\* The lists and the flags agree.
LEMMA ListStep ==
    Types /\ FrameInv /\ LockInv /\ QueueLockInv /\ QueueInv /\ ListInv
    /\ RefInv /\ [CoreNext]_core => ListInv'
<1> SUFFICES ASSUME Types, FrameInv, LockInv, QueueLockInv, QueueInv, ListInv,
                      RefInv, [CoreNext]_core
             PROVE  ListInv'
  OBVIOUS
<1> USE NoneAssumption
<1>1. ASSUME NEW t \in Threads, WaitEvents(t)
      PROVE  ListInv'
  <2>1. UNCHANGED <<list, closing, polled, free_due>>
    BY <1>1 DEF WaitEvents, Goto, lockVars, keyVars
  <2>2. \A u \in Threads, j \in Keys : Busy(u, j)' => Busy(u, j) \/ Held(j)
    BY <1>1 DEF WaitEvents, Goto, lockVars, keyVars, Busy, PollPc, CbPc,
        ApiPc, UnregPc, NoCb, NoCall, Types, ListInv, Held
  <2>3. \A u \in Threads, j \in Keys :
           queue'[u][j] # "NO_EVENT" =>
               queue[u][j] # "NO_EVENT" \/ list[j] = "active"
    BY <1>1 DEF WaitEvents, Goto, lockVars, keyVars
  <2>4. \A u \in Threads :
           pc'[u] \in {"unreg_del", "unreg_close", "unreg_dec"} =>
               pc'[u] = pc[u] /\ call'[u].key = call[u].key
    BY <1>1 DEF WaitEvents, Goto, lockVars, keyVars, Types
  <2>5. QED
    BY <2>1, <2>2, <2>3, <2>4, ListSame
<1>2. ASSUME NEW t \in Threads, PollMove(t)
      PROVE  ListInv'
  <2>1. UNCHANGED <<list, closing, polled, free_due>>
    BY <1>2 DEF PollMove, Goto, lockVars, keyVars
  <2>2. \A u \in Threads, j \in Keys : Busy(u, j)' => Busy(u, j) \/ Held(j)
    BY <1>2 DEF PollMove, Goto, lockVars, keyVars, Busy, PollPc, CbPc, ApiPc,
        UnregPc, NoCb, NoCall, Types
  <2>3. \A u \in Threads, j \in Keys :
           queue'[u][j] # "NO_EVENT" =>
               queue[u][j] # "NO_EVENT" \/ list[j] = "active"
    BY <1>2 DEF PollMove, Goto, lockVars, keyVars
  <2>4. \A u \in Threads :
           pc'[u] \in {"unreg_del", "unreg_close", "unreg_dec"} =>
               pc'[u] = pc[u] /\ call'[u].key = call[u].key
    BY <1>2 DEF PollMove, Goto, lockVars, keyVars, Types
  <2>5. QED
    BY <2>1, <2>2, <2>3, <2>4, ListSame
<1>3. ASSUME NEW t \in Threads, PollLock(t)
      PROVE  ListInv'
  <2>1. UNCHANGED <<list, closing, polled, free_due>>
    BY <1>3 DEF PollLock, Goto, lifeVars, kernVars, pollVars
  <2>2. \A u \in Threads, j \in Keys : Busy(u, j)' => Busy(u, j) \/ Held(j)
    BY <1>3 DEF PollLock, Goto, lifeVars, kernVars, pollVars, Busy, PollPc,
        CbPc, ApiPc, UnregPc, NoCb, NoCall, Types
  <2>3. \A u \in Threads, j \in Keys :
           queue'[u][j] # "NO_EVENT" =>
               queue[u][j] # "NO_EVENT" \/ list[j] = "active"
    BY <1>3 DEF PollLock, Goto, lifeVars, kernVars, pollVars
  <2>4. \A u \in Threads :
           pc'[u] \in {"unreg_del", "unreg_close", "unreg_dec"} =>
               pc'[u] = pc[u] /\ call'[u].key = call[u].key
    BY <1>3 DEF PollLock, Goto, lifeVars, kernVars, pollVars, Types
  <2>5. QED
    BY <2>1, <2>2, <2>3, <2>4, ListSame
<1>4. ASSUME NEW t \in Threads, PollUnlock(t)
      PROVE  ListInv'
  <2>1. UNCHANGED <<list, closing, polled, free_due>>
    BY <1>4 DEF PollUnlock, Goto, lifeVars, kernVars, pollVars
  <2>2. \A u \in Threads, j \in Keys : Busy(u, j)' => Busy(u, j) \/ Held(j)
    BY <1>4 DEF PollUnlock, Goto, lifeVars, kernVars, pollVars, Busy, PollPc,
        CbPc, ApiPc, UnregPc, NoCb, NoCall, Types
  <2>3. \A u \in Threads, j \in Keys :
           queue'[u][j] # "NO_EVENT" =>
               queue[u][j] # "NO_EVENT" \/ list[j] = "active"
    BY <1>4 DEF PollUnlock, Goto, lifeVars, kernVars, pollVars
  <2>4. \A u \in Threads :
           pc'[u] \in {"unreg_del", "unreg_close", "unreg_dec"} =>
               pc'[u] = pc[u] /\ call'[u].key = call[u].key
    BY <1>4 DEF PollUnlock, Goto, lifeVars, kernVars, pollVars, Types
  <2>5. QED
    BY <2>1, <2>2, <2>3, <2>4, ListSame
<1>5. ASSUME NEW t \in Threads, PollDecrement(t)
      PROVE  ListInv'
  <2>1. cb[t].key \in Keys /\ queue[t][cb[t].key] # "NO_EVENT"
    BY <1>5 DEF PollDecrement, QueueInv
  <2> PICK k \in Keys : k = cb[t].key
    BY <2>1
  <2>2. UNCHANGED <<closing, polled, call, evs>>
    BY <1>5 DEF PollDecrement, Decrement, kernVars
  <2>3. pc' = [pc EXCEPT ![t] = "dispatch"] /\ pc[t] = "dec"
    BY <1>5 DEF PollDecrement, Goto
  <2>4. \A u \in Threads : u # t => cb'[u] = cb[u]
    BY <1>5 DEF PollDecrement, Types
  <2>5. \A u \in Threads, j \in Keys : Busy(u, j)' => Busy(u, j)
    BY <2>2, <2>3, <2>4 DEF Busy, Types, CbPc, ApiPc, UnregPc
  <2>6. \A u \in Threads :
           pc'[u] \in {"unreg_del", "unreg_close", "unreg_dec"} => pc'[u] = pc[u]
    BY <2>3 DEF Types
  <2>7. \A u \in Threads, j \in Keys :
           queue'[u][j] # "NO_EVENT" => /\ queue[u][j] # "NO_EVENT"
                                        /\ u # t \/ j # k
    BY <1>5 DEF PollDecrement, Types
  <2>8. CASE ref_count[k] # 1
    <3>1. UNCHANGED <<list, free_due>>
      BY <1>5, <2>8 DEF PollDecrement, Decrement
    <3>2. QED
      BY <2>2, <2>5, <2>6, <2>7, <3>1, ListSame
  <2>9. CASE ref_count[k] = 1
    <3>1. closing[k] /\ ~Registered(k) /\ Refs(k) = {t}
      BY <2>1, <2>9, LastPoller
    <3>2. /\ list' = [list EXCEPT ![k] = "closing"]
          /\ free_due' = [free_due EXCEPT ![k] = FALSE]
      BY <1>5, <2>9 DEF PollDecrement, Decrement
    <3>3. \A u \in Threads : /\ queue'[u][k] = "NO_EVENT"
                             /\ pc[u] = "unreg_dec" => call[u].key # k
      BY <2>7, <3>1 DEF Refs, Registered
    <3>4. QED
      BY <2>2, <2>5, <2>6, <2>7, <3>1, <3>2, <3>3 DEF ListInv, Types
  <2>10. QED
    BY <2>8, <2>9
<1>6. ASSUME NEW t \in Threads, PollReturn(t)
      PROVE  ListInv'
  <2>1. UNCHANGED <<list, closing, polled, free_due>>
    BY <1>6 DEF PollReturn, Goto, lockVars, lifeVars, kernVars, pollVars
  <2>2. \A u \in Threads, j \in Keys : Busy(u, j)' => Busy(u, j) \/ Held(j)
    BY <1>6 DEF PollReturn, Goto, lockVars, lifeVars, kernVars, pollVars,
        Busy, PollPc, CbPc, ApiPc, UnregPc, NoCb, NoCall, Types
  <2>3. \A u \in Threads, j \in Keys :
           queue'[u][j] # "NO_EVENT" =>
               queue[u][j] # "NO_EVENT" \/ list[j] = "active"
    BY <1>6 DEF PollReturn, Goto, lockVars, lifeVars, kernVars, pollVars
  <2>4. \A u \in Threads :
           pc'[u] \in {"unreg_del", "unreg_close", "unreg_dec"} =>
               pc'[u] = pc[u] /\ call'[u].key = call[u].key
    BY <1>6 DEF PollReturn, Goto, lockVars, lifeVars, kernVars, pollVars,
        Types
  <2>5. QED
    BY <2>1, <2>2, <2>3, <2>4, ListSame
<1>7. ASSUME NEW t \in Threads, PollScan(t)
      PROVE  ListInv'
  BY <1>7 DEF PollScan, Goto, Scanned, lockVars, kernVars, pollVars, Types,
      FrameInv, ListInv, Busy, PollPc, CbPc, ApiPc, UnregPc, NoCb, NoCall
<1>8. ASSUME NEW t \in Threads, WalkBegin(t)
      PROVE  ListInv'
  <2>1. UNCHANGED <<list, closing, polled, free_due>>
    BY <1>8 DEF WalkBegin, Goto, keyVars
  <2>2. \A u \in Threads, j \in Keys : Busy(u, j)' => Busy(u, j) \/ Held(j)
    BY <1>8 DEF WalkBegin, Goto, keyVars, Busy, PollPc, CbPc, ApiPc, UnregPc,
        NoCb, NoCall, Types
  <2>3. \A u \in Threads, j \in Keys :
           queue'[u][j] # "NO_EVENT" =>
               queue[u][j] # "NO_EVENT" \/ list[j] = "active"
    BY <1>8 DEF WalkBegin, Goto, keyVars
  <2>4. \A u \in Threads :
           pc'[u] \in {"unreg_del", "unreg_close", "unreg_dec"} =>
               pc'[u] = pc[u] /\ call'[u].key = call[u].key
    BY <1>8 DEF WalkBegin, Goto, keyVars, Types
  <2>5. QED
    BY <2>1, <2>2, <2>3, <2>4, ListSame
<1>9. ASSUME NEW t \in Threads, ConnectTimeoutEnd(t)
      PROVE  ListInv'
  <2>1. UNCHANGED <<list, closing, polled, free_due>>
    BY <1>9 DEF ConnectTimeoutEnd, Goto, lifeVars, kernVars, pollVars
  <2>2. \A u \in Threads, j \in Keys : Busy(u, j)' => Busy(u, j) \/ Held(j)
    BY <1>9 DEF ConnectTimeoutEnd, Goto, lifeVars, kernVars, pollVars, Busy,
        PollPc, CbPc, ApiPc, UnregPc, NoCb, NoCall, Types
  <2>3. \A u \in Threads, j \in Keys :
           queue'[u][j] # "NO_EVENT" =>
               queue[u][j] # "NO_EVENT" \/ list[j] = "active"
    BY <1>9 DEF ConnectTimeoutEnd, Goto, lifeVars, kernVars, pollVars
  <2>4. \A u \in Threads :
           pc'[u] \in {"unreg_del", "unreg_close", "unreg_dec"} =>
               pc'[u] = pc[u] /\ call'[u].key = call[u].key
    BY <1>9 DEF ConnectTimeoutEnd, Goto, lifeVars, kernVars, pollVars, Types
  <2>5. QED
    BY <2>1, <2>2, <2>3, <2>4, ListSame
<1>10. ASSUME NEW t \in Threads, NEW k \in Keys, Collect(t, k)
      PROVE  ListInv'
  <2>1. UNCHANGED <<list, closing, polled, free_due>>
    BY <1>10 DEF Collect, IncrementCounter, lockVars, kernVars
  <2>2. \A u \in Threads, j \in Keys : Busy(u, j)' => Busy(u, j) \/ Held(j)
    BY <1>10 DEF Collect, IncrementCounter, lockVars, kernVars, Busy, PollPc,
        CbPc, ApiPc, UnregPc, NoCb, NoCall, Types
  <2>3. \A u \in Threads, j \in Keys :
           queue'[u][j] # "NO_EVENT" =>
               queue[u][j] # "NO_EVENT" \/ list[j] = "active"
    BY <1>10 DEF Collect, IncrementCounter, lockVars, kernVars, Types,
        EventType, ListInv, Busy
  <2>4. \A u \in Threads :
           pc'[u] \in {"unreg_del", "unreg_close", "unreg_dec"} =>
               pc'[u] = pc[u] /\ call'[u].key = call[u].key
    BY <1>10 DEF Collect, IncrementCounter, lockVars, kernVars, Types
  <2>5. QED
    BY <2>1, <2>2, <2>3, <2>4, ListSame
<1>11. ASSUME NEW t \in Threads, NEW k \in Keys, WalkSkip(t, k)
      PROVE  ListInv'
  <2>1. UNCHANGED <<list, closing, polled, free_due>>
    BY <1>11 DEF WalkSkip, lockVars, keyVars
  <2>2. \A u \in Threads, j \in Keys : Busy(u, j)' => Busy(u, j) \/ Held(j)
    BY <1>11 DEF WalkSkip, lockVars, keyVars, Busy, PollPc, CbPc, ApiPc,
        UnregPc, NoCb, NoCall, Types
  <2>3. \A u \in Threads, j \in Keys :
           queue'[u][j] # "NO_EVENT" =>
               queue[u][j] # "NO_EVENT" \/ list[j] = "active"
    BY <1>11 DEF WalkSkip, lockVars, keyVars
  <2>4. \A u \in Threads :
           pc'[u] \in {"unreg_del", "unreg_close", "unreg_dec"} =>
               pc'[u] = pc[u] /\ call'[u].key = call[u].key
    BY <1>11 DEF WalkSkip, lockVars, keyVars, Types
  <2>5. QED
    BY <2>1, <2>2, <2>3, <2>4, ListSame
<1>12. ASSUME NEW t \in Threads, NEW k \in Keys, DispatchNothing(t, k)
      PROVE  ListInv'
  <2>1. UNCHANGED <<list, closing, polled, free_due>>
    BY <1>12 DEF DispatchNothing, Goto, lockVars, lifeVars, kernVars, pollVars
  <2>2. \A u \in Threads, j \in Keys : Busy(u, j)' => Busy(u, j) \/ Held(j)
    BY <1>12 DEF DispatchNothing, Goto, lockVars, lifeVars, kernVars, pollVars,
        Busy, PollPc, CbPc, ApiPc, UnregPc, NoCb, NoCall, Types
  <2>3. \A u \in Threads, j \in Keys :
           queue'[u][j] # "NO_EVENT" =>
               queue[u][j] # "NO_EVENT" \/ list[j] = "active"
    BY <1>12 DEF DispatchNothing, Goto, lockVars, lifeVars, kernVars, pollVars
  <2>4. \A u \in Threads :
           pc'[u] \in {"unreg_del", "unreg_close", "unreg_dec"} =>
               pc'[u] = pc[u] /\ call'[u].key = call[u].key
    BY <1>12 DEF DispatchNothing, Goto, lockVars, lifeVars, kernVars, pollVars,
        Types
  <2>5. QED
    BY <2>1, <2>2, <2>3, <2>4, ListSame
<1>13. ASSUME NEW t \in Threads, NEW k \in Keys, NEW r \in CbRecord,
              WalkCb(t, k, r)
      PROVE  ListInv'
  <2>1. UNCHANGED <<list, closing, polled, free_due>>
    BY <1>13 DEF WalkCb, Deliver, Goto, keyVars
  <2>2. \A u \in Threads, j \in Keys : Busy(u, j)' => Busy(u, j) \/ Held(j)
    BY <1>13 DEF WalkCb, Deliver, Goto, keyVars, Busy, PollPc, CbPc, ApiPc,
        UnregPc, NoCb, NoCall, Types, QueueLockInv, Held
  <2>3. \A u \in Threads, j \in Keys :
           queue'[u][j] # "NO_EVENT" =>
               queue[u][j] # "NO_EVENT" \/ list[j] = "active"
    BY <1>13 DEF WalkCb, Deliver, Goto, keyVars
  <2>4. \A u \in Threads :
           pc'[u] \in {"unreg_del", "unreg_close", "unreg_dec"} =>
               pc'[u] = pc[u] /\ call'[u].key = call[u].key
    BY <1>13 DEF WalkCb, Deliver, Goto, keyVars, Types
  <2>5. QED
    BY <2>1, <2>2, <2>3, <2>4, ListSame
<1>14. ASSUME NEW t \in Threads, NEW k \in Keys, NEW r \in CbRecord,
              DispatchCb(t, k, r)
      PROVE  ListInv'
  <2>1. UNCHANGED <<list, closing, polled, free_due>>
    BY <1>14 DEF DispatchCb, Deliver, Goto, keyVars
  <2>2. \A u \in Threads, j \in Keys : Busy(u, j)' => Busy(u, j) \/ Held(j)
    BY <1>14 DEF DispatchCb, Deliver, Goto, keyVars, Busy, PollPc, CbPc, ApiPc,
        UnregPc, NoCb, NoCall, Types, ListInv, Held
  <2>3. \A u \in Threads, j \in Keys :
           queue'[u][j] # "NO_EVENT" =>
               queue[u][j] # "NO_EVENT" \/ list[j] = "active"
    BY <1>14 DEF DispatchCb, Deliver, Goto, keyVars
  <2>4. \A u \in Threads :
           pc'[u] \in {"unreg_del", "unreg_close", "unreg_dec"} =>
               pc'[u] = pc[u] /\ call'[u].key = call[u].key
    BY <1>14 DEF DispatchCb, Deliver, Goto, keyVars, Types
  <2>5. QED
    BY <2>1, <2>2, <2>3, <2>4, ListSame
<1>15. ASSUME NEW t \in Threads, CbCheck(t)
      PROVE  ListInv'
  <2>1. UNCHANGED <<list, closing, polled, free_due>>
    BY <1>15 DEF CbCheck, Goto, lockVars, lifeVars, kernVars, pollVars
  <2>2. \A u \in Threads, j \in Keys : Busy(u, j)' => Busy(u, j) \/ Held(j)
    BY <1>15 DEF CbCheck, Goto, lockVars, lifeVars, kernVars, pollVars, Busy,
        PollPc, CbPc, ApiPc, UnregPc, NoCb, NoCall, Types
  <2>3. \A u \in Threads, j \in Keys :
           queue'[u][j] # "NO_EVENT" =>
               queue[u][j] # "NO_EVENT" \/ list[j] = "active"
    BY <1>15 DEF CbCheck, Goto, lockVars, lifeVars, kernVars, pollVars
  <2>4. \A u \in Threads :
           pc'[u] \in {"unreg_del", "unreg_close", "unreg_dec"} =>
               pc'[u] = pc[u] /\ call'[u].key = call[u].key
    BY <1>15 DEF CbCheck, Goto, lockVars, lifeVars, kernVars, pollVars, Types
  <2>5. QED
    BY <2>1, <2>2, <2>3, <2>4, ListSame
<1>16. ASSUME NEW t \in Threads, CbEnter(t)
      PROVE  ListInv'
  <2>1. UNCHANGED <<list, closing, polled, free_due>>
    BY <1>16 DEF CbEnter, Goto, lockVars, lifeVars, kernVars, pollVars
  <2>2. \A u \in Threads, j \in Keys : Busy(u, j)' => Busy(u, j) \/ Held(j)
    BY <1>16 DEF CbEnter, Goto, lockVars, lifeVars, kernVars, pollVars, Busy,
        PollPc, CbPc, ApiPc, UnregPc, NoCb, NoCall, Types
  <2>3. \A u \in Threads, j \in Keys :
           queue'[u][j] # "NO_EVENT" =>
               queue[u][j] # "NO_EVENT" \/ list[j] = "active"
    BY <1>16 DEF CbEnter, Goto, lockVars, lifeVars, kernVars, pollVars
  <2>4. \A u \in Threads :
           pc'[u] \in {"unreg_del", "unreg_close", "unreg_dec"} =>
               pc'[u] = pc[u] /\ call'[u].key = call[u].key
    BY <1>16 DEF CbEnter, Goto, lockVars, lifeVars, kernVars, pollVars, Types
  <2>5. QED
    BY <2>1, <2>2, <2>3, <2>4, ListSame
<1>17. ASSUME NEW t \in Threads, CbReturn(t)
      PROVE  ListInv'
  <2>1. UNCHANGED <<list, closing, polled, free_due>>
    BY <1>17 DEF CbReturn, Goto, lockVars, lifeVars, kernVars, pollVars
  <2>2. \A u \in Threads, j \in Keys : Busy(u, j)' => Busy(u, j) \/ Held(j)
    BY <1>17 DEF CbReturn, Goto, lockVars, lifeVars, kernVars, pollVars, Busy,
        PollPc, CbPc, ApiPc, UnregPc, NoCb, NoCall, Types
  <2>3. \A u \in Threads, j \in Keys :
           queue'[u][j] # "NO_EVENT" =>
               queue[u][j] # "NO_EVENT" \/ list[j] = "active"
    BY <1>17 DEF CbReturn, Goto, lockVars, lifeVars, kernVars, pollVars
  <2>4. \A u \in Threads :
           pc'[u] \in {"unreg_del", "unreg_close", "unreg_dec"} =>
               pc'[u] = pc[u] /\ call'[u].key = call[u].key
    BY <1>17 DEF CbReturn, Goto, lockVars, lifeVars, kernVars, pollVars, Types
  <2>5. QED
    BY <2>1, <2>2, <2>3, <2>4, ListSame
<1>18. ASSUME NEW t \in Threads, CbEnd(t)
      PROVE  ListInv'
  <2>1. UNCHANGED <<list, closing, polled, free_due>>
    BY <1>18 DEF CbEnd, Goto, CbRecord, lifeVars, kernVars, pollVars
  <2>2. \A u \in Threads, j \in Keys : Busy(u, j)' => Busy(u, j) \/ Held(j)
    BY <1>18, ZenonT(40) DEF CbEnd, Goto, CbRecord, lifeVars, kernVars, pollVars, Busy,
        PollPc, CbPc, ApiPc, UnregPc, NoCb, NoCall, Types, FrameInv
  <2>3. \A u \in Threads, j \in Keys :
           queue'[u][j] # "NO_EVENT" =>
               queue[u][j] # "NO_EVENT" \/ list[j] = "active"
    BY <1>18 DEF CbEnd, Goto, CbRecord, lifeVars, kernVars, pollVars
  <2>4. \A u \in Threads :
           pc'[u] \in {"unreg_del", "unreg_close", "unreg_dec"} =>
               pc'[u] = pc[u] /\ call'[u].key = call[u].key
    BY <1>18 DEF CbEnd, Goto, CbRecord, lifeVars, kernVars, pollVars, Types
  <2>5. QED
    BY <2>1, <2>2, <2>3, <2>4, ListSame
<1>19. ASSUME NEW t \in Threads, UnregLock(t)
      PROVE  ListInv'
  BY <1>19 DEF UnregLock, Goto, Return, LockKey, lifeVars, kernVars, pollVars,
      KeyFree, CallRecord, Types, FrameInv, ListInv, Busy, PollPc, CbPc,
      ApiPc, UnregPc, NoCb, NoCall
<1>20. ASSUME NEW t \in Threads, UnregDelOk(t)
      PROVE  ListInv'
  BY <1>20 DEF UnregDelOk, Goto, lockVars, Types, FrameInv, ListInv, Busy,
      PollPc, CbPc, ApiPc, UnregPc, NoCb, NoCall
<1>21. ASSUME NEW t \in Threads, UnregDelFail(t)
      PROVE  ListInv'
  <2>1. UNCHANGED <<list, closing, polled, free_due>>
    BY <1>21 DEF UnregDelFail, Goto, Return, CallRecord, keyVars
  <2>2. \A u \in Threads, j \in Keys : Busy(u, j)' => Busy(u, j) \/ Held(j)
    BY <1>21 DEF UnregDelFail, Goto, Return, CallRecord, keyVars, Busy, PollPc,
        CbPc, ApiPc, UnregPc, NoCb, NoCall, Types, FrameInv
  <2>3. \A u \in Threads, j \in Keys :
           queue'[u][j] # "NO_EVENT" =>
               queue[u][j] # "NO_EVENT" \/ list[j] = "active"
    BY <1>21 DEF UnregDelFail, Goto, Return, CallRecord, keyVars
  <2>4. \A u \in Threads :
           pc'[u] \in {"unreg_del", "unreg_close", "unreg_dec"} =>
               pc'[u] = pc[u] /\ call'[u].key = call[u].key
    BY <1>21 DEF UnregDelFail, Goto, Return, CallRecord, keyVars, Types
  <2>5. QED
    BY <2>1, <2>2, <2>3, <2>4, ListSame
<1>22. ASSUME NEW t \in Threads, UnregClose(t)
      PROVE  ListInv'
  <2>0. call[t].key \in Keys /\ pc[t] \in UnregPc
    BY <1>22 DEF UnregClose, FrameInv, ApiPc, UnregPc
  <2> PICK k \in Keys : k = call[t].key
    BY <2>0
  <2>1. \A u \in Threads : u # t => pc[u] \notin UnregPc \/ call[u].key # k
    BY <2>0, UnregAlone
  <2>2. /\ UNCHANGED <<list, polled, free_due, queue, call, cb, evs>>
        /\ closing' = [closing EXCEPT ![k] = TRUE]
        /\ pc[t] = "unreg_close" /\ pc' = [pc EXCEPT ![t] = "unreg_dec"]
    BY <1>22 DEF UnregClose, Goto, kernVars, pollVars
  <2>3. \A u \in Threads, j \in Keys : Busy(u, j)' => Busy(u, j)
    BY <2>2 DEF Busy, Types, CbPc, ApiPc, UnregPc
  <2>4. list[k] = "active" /\ ~polled[k]
    BY <2>2 DEF ListInv
  <2>5. \A u \in Threads : u # t => pc'[u] = pc[u]
    BY <2>2 DEF Types
  <2>6. closing'[k] /\ \A j \in Keys : j # k => closing'[j] = closing[j]
    BY <2>2 DEF Types
  <2>7. pc'[t] = "unreg_dec"
    BY <2>2 DEF Types
  <2>8. QED
    BY <2>1, <2>2, <2>3, <2>4, <2>5, <2>6, <2>7 DEF ListInv, UnregPc
<1>23. ASSUME NEW t \in Threads, UnregDecrement(t)
      PROVE  ListInv'
  <2>0. call[t].key \in Keys /\ pc[t] \in UnregPc
    BY <1>23 DEF UnregDecrement, FrameInv, ApiPc, UnregPc
  <2> PICK k \in Keys : k = call[t].key
    BY <2>0
  <2>1. \A u \in Threads : u # t => pc[u] \notin UnregPc \/ call[u].key # k
    BY <2>0, UnregAlone
  <2>2. /\ UNCHANGED <<closing, polled, queue, call, cb, evs>>
        /\ pc[t] = "unreg_dec" /\ pc' = [pc EXCEPT ![t] = "unreg_unlock"]
    BY <1>23 DEF UnregDecrement, Decrement, Goto, kernVars, pollVars
  <2>3. \A u \in Threads, j \in Keys : Busy(u, j)' => Busy(u, j)
    BY <2>2 DEF Busy, Types, CbPc, ApiPc, UnregPc
  <2>4. list[k] = "active" /\ closing[k]
    BY <2>2 DEF ListInv
  <2>5. pc'[t] = "unreg_unlock" /\ \A u \in Threads : u # t => pc'[u] = pc[u]
    BY <2>2 DEF Types
  <2>6. CASE ref_count[k] # 1
    <3>1. UNCHANGED <<list, free_due>>
      BY <1>23, <2>6 DEF UnregDecrement, Decrement
    <3>2. QED
      BY <2>2, <2>3, <2>5, <3>1, ListSame
  <2>7. CASE ref_count[k] = 1
    <3>1. Registered(k)
      BY <2>2 DEF Registered
    <3>2. \A u \in Threads : queue[u][k] = "NO_EVENT"
      BY <2>7, <3>1, LastRegistration DEF Refs
    <3>3. /\ list' = [list EXCEPT ![k] = "closing"]
          /\ free_due' = [free_due EXCEPT ![k] = FALSE]
      BY <1>23, <2>7 DEF UnregDecrement, Decrement
    <3>4. /\ list'[k] = "closing" /\ ~free_due'[k]
          /\ \A j \in Keys : j # k => list'[j] = list[j] /\ free_due'[j] = free_due[j]
      BY <3>3 DEF Types
    <3>5. QED
      BY <2>1, <2>2, <2>3, <2>4, <2>5, <3>2, <3>4 DEF ListInv, UnregPc
  <2>8. QED
    BY <2>6, <2>7
<1>24. ASSUME NEW t \in Threads, UnregUnlock(t)
      PROVE  ListInv'
  <2>1. UNCHANGED <<list, closing, polled, free_due>>
    BY <1>24 DEF UnregUnlock, Goto, Return, CallRecord, lifeVars, kernVars,
        pollVars
  <2>2. \A u \in Threads, j \in Keys : Busy(u, j)' => Busy(u, j) \/ Held(j)
    BY <1>24 DEF UnregUnlock, Goto, Return, CallRecord, lifeVars, kernVars,
        pollVars, Busy, PollPc, CbPc, ApiPc, UnregPc, NoCb, NoCall, Types,
        FrameInv
  <2>3. \A u \in Threads, j \in Keys :
           queue'[u][j] # "NO_EVENT" =>
               queue[u][j] # "NO_EVENT" \/ list[j] = "active"
    BY <1>24 DEF UnregUnlock, Goto, Return, CallRecord, lifeVars, kernVars,
        pollVars
  <2>4. \A u \in Threads :
           pc'[u] \in {"unreg_del", "unreg_close", "unreg_dec"} =>
               pc'[u] = pc[u] /\ call'[u].key = call[u].key
    BY <1>24 DEF UnregUnlock, Goto, Return, CallRecord, lifeVars, kernVars,
        pollVars, Types
  <2>5. QED
    BY <2>1, <2>2, <2>3, <2>4, ListSame
<1>25. ASSUME NEW t \in Threads, CallMove(t)
      PROVE  ListInv'
  <2>1. UNCHANGED <<list, closing, polled, free_due>>
    BY <1>25 DEF CallMove, lockVars, keyVars
  <2>2. \A u \in Threads, j \in Keys : Busy(u, j)' => Busy(u, j) \/ Held(j)
    BY <1>25 DEF CallMove, Goto, Return, CallRecord, lockVars, keyVars, Busy,
        PollPc, CbPc, ApiPc, UnregPc, NoCb, NoCall, Types, FrameInv
  <2>3. UNCHANGED queue
    BY <1>25 DEF CallMove
  <2>4. /\ pc'[t] \in {"idle", "cbend", "queue_op", "connect_lock"}
        /\ \A u \in Threads : u # t => pc'[u] = pc[u] /\ call'[u] = call[u]
    <3>1. PICK x \in {"idle", "cbend", "queue_op", "connect_lock"} :
                 pc' = [pc EXCEPT ![t] = x]
      BY <1>25 DEF CallMove, Return, Goto, Types, CallRecord
    <3>2. \A u \in Threads : u # t => call'[u] = call[u]
      BY <1>25 DEF CallMove, Return, Types
    <3>3. QED
      BY <3>1, <3>2 DEF Types
  <2>5. QED
    BY <2>1, <2>2, <2>3, <2>4, ListSame
<1>26. ASSUME NEW t \in Threads, NEW r \in CbRecord, PostCb(t, r)
      PROVE  ListInv'
  <2>1. UNCHANGED <<list, closing, polled, free_due>>
    BY <1>26 DEF PostCb, Goto, lockVars, keyVars
  <2>2. \A u \in Threads, j \in Keys : Busy(u, j)' => Busy(u, j) \/ Held(j)
    BY <1>26 DEF PostCb, Goto, lockVars, keyVars, Busy, PollPc, CbPc, ApiPc,
        UnregPc, NoCb, NoCall, Types, FrameInv
  <2>3. \A u \in Threads, j \in Keys :
           queue'[u][j] # "NO_EVENT" =>
               queue[u][j] # "NO_EVENT" \/ list[j] = "active"
    BY <1>26 DEF PostCb, Goto, lockVars, keyVars
  <2>4. \A u \in Threads :
           pc'[u] \in {"unreg_del", "unreg_close", "unreg_dec"} =>
               pc'[u] = pc[u] /\ call'[u].key = call[u].key
    BY <1>26 DEF PostCb, Goto, lockVars, keyVars, Types
  <2>5. QED
    BY <2>1, <2>2, <2>3, <2>4, ListSame
<1>27. ASSUME NEW t \in Threads, NEW c \in KeyCalls, NEW k \in Keys,
              NEW o \in Ops \cup {None},
              Begin(t, c, k, o)
      PROVE  ListInv'
  <2>1. UNCHANGED <<list, closing, polled, free_due>>
    BY <1>27 DEF Begin, Goto, OpCalls, KeyCalls, lockVars, keyVars
  <2>2. \A u \in Threads, j \in Keys : Busy(u, j)' => Busy(u, j) \/ Held(j)
    <3>1. /\ UNCHANGED <<evs, cb>>
          /\ call' = [call EXCEPT ![t] = [key |-> k, op |-> o, kind |-> c,
                         ret |-> IF pc[t] = "idle" THEN "idle" ELSE "cbend"]]
      BY <1>27 DEF Begin
    <3>2. call'[t].key = k /\ \A u \in Threads : u # t => call'[u] = call[u]
      BY <3>1 DEF Types
    <3>3. \A u \in Threads : u # t => pc'[u] = pc[u]
      BY <1>27 DEF Begin, Goto, Types
    <3>4. \A u \in Threads, j \in Keys : u # t => Busy(u, j)' = Busy(u, j)
      BY <3>1, <3>2, <3>3 DEF Busy
    <3>5. CASE pc[t] = "idle"
      <4>1. Held(k) /\ cb[t].key = None
        BY <1>27, <3>5 DEF Begin, FrameInv, NoCbPc, NoCb
      <4>2. \A j \in Keys : Busy(t, j)' => Busy(t, j) \/ j = k
        BY <3>1, <3>2, <4>1 DEF Busy
      <4>3. QED
        BY <3>4, <4>1, <4>2
    <3>6. CASE pc[t] = "incb"
      <4>1. k = cb[t].key
        BY <1>27, <3>6 DEF Begin
      <4>2. \A j \in Keys : Busy(t, j)' => Busy(t, j)
        BY <3>1, <3>2, <3>6, <4>1 DEF Busy, CbPc
      <4>3. QED
        BY <3>4, <4>2
    <3>7. QED
      BY <1>27, <3>5, <3>6 DEF Begin
  <2>3. \A u \in Threads, j \in Keys :
           queue'[u][j] # "NO_EVENT" =>
               queue[u][j] # "NO_EVENT" \/ list[j] = "active"
    BY <1>27 DEF Begin, Goto, OpCalls, KeyCalls, lockVars, keyVars
  <2>4. \A u \in Threads :
           pc'[u] \in {"unreg_del", "unreg_close", "unreg_dec"} =>
               pc'[u] = pc[u] /\ call'[u].key = call[u].key
    BY <1>27 DEF Begin, Goto, OpCalls, KeyCalls, lockVars, keyVars, Types
  <2>5. QED
    BY <2>1, <2>2, <2>3, <2>4, ListSame
<1>28. ASSUME RegisterScan
      PROVE  ListInv'
  BY <1>28 DEF RegisterScan, Scanned, lockVars, Types, FrameInv, ListInv,
      Busy, PollPc, CbPc, ApiPc, UnregPc, NoCb, NoCall
<1>29. ASSUME NEW k \in Keys, NEW n \in Nat, NEW added \in BOOLEAN,
              RegisterKey(k, n, added)
      PROVE  ListInv'
  BY <1>29 DEF RegisterKey, Scanned, lockVars, Types, FrameInv, ListInv, Busy,
      PollPc, CbPc, ApiPc, UnregPc, NoCb, NoCall
<1>30. ASSUME NEW k \in Keys, FreeDelayPasses(k)
      PROVE  ListInv'
  BY <1>30 DEF FreeDelayPasses, lockVars, kernVars, pollVars, Types, FrameInv,
      ListInv, Busy, PollPc, CbPc, ApiPc, UnregPc, NoCb, NoCall
<1>31. CASE UNCHANGED core
  BY <1>31 DEF core, lockVars, Types, FrameInv, ListInv, Busy, PollPc, CbPc,
      ApiPc, UnregPc, NoCb, NoCall
<1>32. QED
  BY <1>1, <1>2, <1>3, <1>4, <1>5, <1>6, <1>7, <1>8, <1>9, <1>10, <1>11,
      <1>12, <1>13, <1>14, <1>15, <1>16, <1>17, <1>18, <1>19, <1>20, <1>21,
      <1>22, <1>23, <1>24, <1>25, <1>26, <1>27, <1>28, <1>29, <1>30, <1>31
  DEF CoreNext, CorePoll, CoreCall, CbStep

\* A step that neither counts nor moves a key, and starts or ends no
\* unregistration's decrement_counter.
LEMMA RefSame ==
    ASSUME RefInv, UNCHANGED <<ref_count, queue, list, closing>>,
           \A u \in Threads, j \in Keys :
               pc'[u] = "unreg_dec" /\ call'[u].key = j <=>
                   pc[u] = "unreg_dec" /\ call[u].key = j
    PROVE  RefInv'
<1>1. \A j \in Keys : Refs(j)' = Refs(j) /\ (Registered(j)' <=> Registered(j))
  BY DEF Refs, Registered
<1>2. QED
  BY <1>1 DEF RefInv, RefCountExact, ActiveIffReferenced

\* scan_closing_keys moves only keys that nobody refers to.
LEMMA RefScanned ==
    ASSUME Types, RefInv, list' = Scanned,
           UNCHANGED <<ref_count, queue, closing, call>>,
           \A u \in Threads : pc'[u] = "unreg_dec" <=> pc[u] = "unreg_dec"
    PROVE  RefInv'
<1>1. \A j \in Keys :
         list'[j] = list[j] \/ (list[j] = "closing" /\ list'[j] = "free")
  BY DEF Scanned, Types
<1>2. \A j \in Keys : Refs(j)' = Refs(j) /\ (Registered(j)' <=> Registered(j))
  BY <1>1 DEF Refs, Registered
<1>3. QED
  BY <1>1, <1>2 DEF RefInv, RefCountExact, ActiveIffReferenced

\* A step that concerns one key.
LEMMA RefOne ==
    ASSUME Types, RefInv, NEW k \in Keys,
           \A j \in Keys : j # k =>
               /\ ref_count'[j] = ref_count[j]
               /\ list'[j] \in {"active", "lost"} <=> list[j] \in {"active", "lost"}
               /\ Refs(j)' = Refs(j) /\ (Registered(j)' <=> Registered(j)),
           ref_count'[k] = Cardinality(Refs(k)') + (IF Registered(k)' THEN 1 ELSE 0),
           list'[k] \in {"active", "lost"} <=> Registered(k)' \/ Refs(k)' # {}
    PROVE  RefInv'
  BY DEF RefInv, RefCountExact, ActiveIffReferenced

\* The reference count stays exact.
LEMMA RefStep ==
    Types /\ FrameInv /\ LockInv /\ QueueLockInv /\ QueueInv /\ ListInv
    /\ RefInv /\ [CoreNext]_core => RefInv'
<1> SUFFICES ASSUME Types, FrameInv, LockInv, QueueLockInv, QueueInv, ListInv,
                      RefInv, [CoreNext]_core
             PROVE  RefInv'
  OBVIOUS
<1> USE NoneAssumption
<1>1. ASSUME NEW t \in Threads, WaitEvents(t)
      PROVE  RefInv'
  <2>1. UNCHANGED <<ref_count, queue, list, closing>>
    BY <1>1 DEF WaitEvents, Goto, lockVars, keyVars
  <2>2. \A u \in Threads, j \in Keys :
           pc'[u] = "unreg_dec" /\ call'[u].key = j <=>
               pc[u] = "unreg_dec" /\ call[u].key = j
    BY <1>1 DEF WaitEvents, Goto, lockVars, keyVars, Types
  <2>3. QED
    BY <2>1, <2>2, RefSame
<1>2. ASSUME NEW t \in Threads, PollMove(t)
      PROVE  RefInv'
  <2>1. UNCHANGED <<ref_count, queue, list, closing>>
    BY <1>2 DEF PollMove, Goto, lockVars, keyVars
  <2>2. \A u \in Threads, j \in Keys :
           pc'[u] = "unreg_dec" /\ call'[u].key = j <=>
               pc[u] = "unreg_dec" /\ call[u].key = j
    BY <1>2 DEF PollMove, Goto, lockVars, keyVars, Types
  <2>3. QED
    BY <2>1, <2>2, RefSame
<1>3. ASSUME NEW t \in Threads, PollLock(t)
      PROVE  RefInv'
  <2>1. UNCHANGED <<ref_count, queue, list, closing>>
    BY <1>3 DEF PollLock, Goto, lifeVars, kernVars, pollVars
  <2>2. \A u \in Threads, j \in Keys :
           pc'[u] = "unreg_dec" /\ call'[u].key = j <=>
               pc[u] = "unreg_dec" /\ call[u].key = j
    BY <1>3 DEF PollLock, Goto, lifeVars, kernVars, pollVars, Types
  <2>3. QED
    BY <2>1, <2>2, RefSame
<1>4. ASSUME NEW t \in Threads, PollUnlock(t)
      PROVE  RefInv'
  <2>1. UNCHANGED <<ref_count, queue, list, closing>>
    BY <1>4 DEF PollUnlock, Goto, lifeVars, kernVars, pollVars
  <2>2. \A u \in Threads, j \in Keys :
           pc'[u] = "unreg_dec" /\ call'[u].key = j <=>
               pc[u] = "unreg_dec" /\ call[u].key = j
    BY <1>4 DEF PollUnlock, Goto, lifeVars, kernVars, pollVars, Types
  <2>3. QED
    BY <2>1, <2>2, RefSame
<1>5. ASSUME NEW t \in Threads, PollDecrement(t)
      PROVE  RefInv'
  <2>1. cb[t].key \in Keys /\ queue[t][cb[t].key] # "NO_EVENT"
    BY <1>5 DEF PollDecrement, QueueInv
  <2> PICK k \in Keys : k = cb[t].key
    BY <2>1
  <2>2. /\ queue' = [queue EXCEPT ![t][k] = "NO_EVENT"]
        /\ ref_count' = [ref_count EXCEPT ![k] = @ - 1]
        /\ UNCHANGED <<closing, call>>
        /\ pc[t] = "dec" /\ pc' = [pc EXCEPT ![t] = "dispatch"]
        /\ IF ref_count[k] = 1 THEN list' = [list EXCEPT ![k] = "closing"]
                               ELSE UNCHANGED list
    BY <1>5 DEF PollDecrement, Decrement, Goto
  <2>3. t \in Refs(k) /\ Refs(k)' = Refs(k) \ {t}
    BY <2>1, <2>2 DEF Refs, Types
  <2>4. Cardinality(Refs(k)') = Cardinality(Refs(k)) - 1
    BY <2>3, RefsFinite, FS_RemoveElement, ZenonT(40)
  <2>5. list[k] = "active" /\ ref_count'[k] = ref_count[k] - 1
    BY <2>1, <2>2 DEF ListInv, Types
  <2>6. ref_count[k] = Cardinality(Refs(k)) + (IF Registered(k) THEN 1 ELSE 0)
    BY DEF RefInv, RefCountExact
  <2>7. \A u \in Threads : pc'[u] = "unreg_dec" <=> pc[u] = "unreg_dec"
    BY <2>2 DEF Types
  <2>8. \A j \in Keys : j # k =>
           /\ ref_count'[j] = ref_count[j] /\ list'[j] = list[j]
           /\ Refs(j)' = Refs(j)
    BY <2>2 DEF Refs, Types
  <2>9. \A j \in Keys : j # k => (Registered(j)' <=> Registered(j))
    BY <2>2, <2>7, <2>8 DEF Registered
  <2>10. CASE ref_count[k] = 1
    <3>1. closing[k] /\ ~Registered(k) /\ Refs(k) = {t}
      BY <2>1, <2>10, LastPoller
    <3>2. list'[k] = "closing" /\ Refs(k)' = {}
      BY <2>2, <2>3, <2>10, <3>1 DEF Types
    <3>3. ~Registered(k)'
      BY <2>2, <2>7, <3>1, <3>2 DEF Registered
    <3>4. ref_count[k] = Cardinality(Refs(k)) + 0
      BY <2>6, <3>1
    <3>5. ref_count'[k] = Cardinality(Refs(k)') + 0
      BY <2>4, <2>5, <3>4, RefsFinite
    <3>6. ref_count'[k] = Cardinality(Refs(k)') + (IF Registered(k)' THEN 1 ELSE 0)
      BY <3>3, <3>5
    <3>7. QED
      BY <2>8, <2>9, <3>2, <3>3, <3>6, RefOne
  <2>11. CASE ref_count[k] # 1
    <3>1. UNCHANGED list
      BY <2>2, <2>11
    <3>2. Registered(k)' <=> Registered(k)
      BY <2>2, <2>7, <3>1 DEF Registered
    <3>3. ref_count'[k] = Cardinality(Refs(k)') + (IF Registered(k)' THEN 1 ELSE 0)
      BY <2>4, <2>5, <2>6, <3>2, RefsFinite
    <3>4. Registered(k) \/ Cardinality(Refs(k)') # 0
      BY <2>4, <2>6, <2>11, RefsFinite
    <3>5. Registered(k) \/ Refs(k)' # {}
      BY <3>4, FS_EmptySet
    <3>6. QED
      BY <2>5, <2>8, <2>9, <3>1, <3>2, <3>3, <3>5, RefOne
  <2>12. QED
    BY <2>10, <2>11
<1>6. ASSUME NEW t \in Threads, PollReturn(t)
      PROVE  RefInv'
  <2>1. UNCHANGED <<ref_count, queue, list, closing>>
    BY <1>6 DEF PollReturn, Goto, lockVars, lifeVars, kernVars, pollVars
  <2>2. \A u \in Threads, j \in Keys :
           pc'[u] = "unreg_dec" /\ call'[u].key = j <=>
               pc[u] = "unreg_dec" /\ call[u].key = j
    BY <1>6 DEF PollReturn, Goto, lockVars, lifeVars, kernVars, pollVars,
        Types
  <2>3. QED
    BY <2>1, <2>2, RefSame
<1>7. ASSUME NEW t \in Threads, PollScan(t)
      PROVE  RefInv'
  <2>1. /\ list' = Scanned /\ UNCHANGED <<ref_count, queue, closing, call>>
        /\ pc' = [pc EXCEPT ![t] = "pollconnect"] /\ pc[t] = "polltimeout"
    BY <1>7 DEF PollScan, Goto, pollVars
  <2>2. QED
    BY <2>1, RefScanned DEF Types
<1>8. ASSUME NEW t \in Threads, WalkBegin(t)
      PROVE  RefInv'
  <2>1. UNCHANGED <<ref_count, queue, list, closing>>
    BY <1>8 DEF WalkBegin, Goto, keyVars
  <2>2. \A u \in Threads, j \in Keys :
           pc'[u] = "unreg_dec" /\ call'[u].key = j <=>
               pc[u] = "unreg_dec" /\ call[u].key = j
    BY <1>8 DEF WalkBegin, Goto, keyVars, Types
  <2>3. QED
    BY <2>1, <2>2, RefSame
<1>9. ASSUME NEW t \in Threads, ConnectTimeoutEnd(t)
      PROVE  RefInv'
  <2>1. UNCHANGED <<ref_count, queue, list, closing>>
    BY <1>9 DEF ConnectTimeoutEnd, Goto, lifeVars, kernVars, pollVars
  <2>2. \A u \in Threads, j \in Keys :
           pc'[u] = "unreg_dec" /\ call'[u].key = j <=>
               pc[u] = "unreg_dec" /\ call[u].key = j
    BY <1>9 DEF ConnectTimeoutEnd, Goto, lifeVars, kernVars, pollVars, Types
  <2>3. QED
    BY <2>1, <2>2, RefSame
<1>10. ASSUME NEW t \in Threads, NEW k \in Keys, Collect(t, k)
      PROVE  RefInv'
  <2> PICK type : type = EventType(k, evs[t][k])
    OBVIOUS
  <2>1. /\ queue' = [queue EXCEPT ![t][k] = type]
        /\ ref_count' = [ref_count EXCEPT ![k] = IF type = "NO_EVENT" THEN @ ELSE @ + 1]
        /\ UNCHANGED <<list, closing, pc, call>>
    BY <1>10 DEF Collect, IncrementCounter
  <2>2. queue[t][k] = "NO_EVENT" /\ evs[t][k] # {}
    BY <1>10 DEF Collect, QueueInv
  <2>3. type # "NO_EVENT" => ~closing[k]
    BY DEF EventType
  <2>4. \A j \in Keys : Registered(j)' <=> Registered(j)
    BY <2>1 DEF Registered
  <2>5. \A j \in Keys : j # k =>
           Refs(j)' = Refs(j) /\ ref_count'[j] = ref_count[j]
    BY <2>1 DEF Refs, Types
  <2>6. CASE type = "NO_EVENT"
    <3>1. Refs(k)' = Refs(k) /\ ref_count'[k] = ref_count[k]
      BY <2>1, <2>2, <2>6 DEF Refs, Types
    <3>2. QED
      BY <2>1, <2>4, <2>5, <3>1 DEF RefInv, RefCountExact, ActiveIffReferenced
  <2>7. CASE type # "NO_EVENT"
    <3>1. Refs(k)' = Refs(k) \cup {t} /\ t \notin Refs(k)
      BY <2>1, <2>2, <2>7 DEF Refs, Types
    <3>2. Cardinality(Refs(k)') = Cardinality(Refs(k)) + 1
      BY <3>1, RefsFinite, FS_AddElement
    <3>3. ref_count'[k] = ref_count[k] + 1
      BY <2>1, <2>7 DEF Types
    <3>4. list[k] = "active"
      BY <2>2, <2>3, <2>7 DEF ListInv, Busy
    <3>5. ref_count[k] = Cardinality(Refs(k)) + (IF Registered(k) THEN 1 ELSE 0)
      BY DEF RefInv, RefCountExact
    <3>6. ref_count'[k] = Cardinality(Refs(k)') + (IF Registered(k)' THEN 1 ELSE 0)
      BY <2>4, <3>2, <3>3, <3>5, RefsFinite
    <3>7. QED
      BY <2>1, <2>4, <2>5, <3>1, <3>4, <3>6, RefOne
  <2>8. QED
    BY <2>6, <2>7
<1>11. ASSUME NEW t \in Threads, NEW k \in Keys, WalkSkip(t, k)
      PROVE  RefInv'
  <2>1. UNCHANGED <<ref_count, queue, list, closing>>
    BY <1>11 DEF WalkSkip, lockVars, keyVars
  <2>2. \A u \in Threads, j \in Keys :
           pc'[u] = "unreg_dec" /\ call'[u].key = j <=>
               pc[u] = "unreg_dec" /\ call[u].key = j
    BY <1>11 DEF WalkSkip, lockVars, keyVars, Types
  <2>3. QED
    BY <2>1, <2>2, RefSame
<1>12. ASSUME NEW t \in Threads, NEW k \in Keys, DispatchNothing(t, k)
      PROVE  RefInv'
  <2>1. UNCHANGED <<ref_count, queue, list, closing>>
    BY <1>12 DEF DispatchNothing, Goto, lockVars, lifeVars, kernVars, pollVars
  <2>2. \A u \in Threads, j \in Keys :
           pc'[u] = "unreg_dec" /\ call'[u].key = j <=>
               pc[u] = "unreg_dec" /\ call[u].key = j
    BY <1>12 DEF DispatchNothing, Goto, lockVars, lifeVars, kernVars, pollVars,
        Types
  <2>3. QED
    BY <2>1, <2>2, RefSame
<1>13. ASSUME NEW t \in Threads, NEW k \in Keys, NEW r \in CbRecord,
              WalkCb(t, k, r)
      PROVE  RefInv'
  <2>1. UNCHANGED <<ref_count, queue, list, closing>>
    BY <1>13 DEF WalkCb, Deliver, Goto, keyVars
  <2>2. \A u \in Threads, j \in Keys :
           pc'[u] = "unreg_dec" /\ call'[u].key = j <=>
               pc[u] = "unreg_dec" /\ call[u].key = j
    BY <1>13 DEF WalkCb, Deliver, Goto, keyVars, Types
  <2>3. QED
    BY <2>1, <2>2, RefSame
<1>14. ASSUME NEW t \in Threads, NEW k \in Keys, NEW r \in CbRecord,
              DispatchCb(t, k, r)
      PROVE  RefInv'
  <2>1. UNCHANGED <<ref_count, queue, list, closing>>
    BY <1>14 DEF DispatchCb, Deliver, Goto, keyVars
  <2>2. \A u \in Threads, j \in Keys :
           pc'[u] = "unreg_dec" /\ call'[u].key = j <=>
               pc[u] = "unreg_dec" /\ call[u].key = j
    BY <1>14 DEF DispatchCb, Deliver, Goto, keyVars, Types
  <2>3. QED
    BY <2>1, <2>2, RefSame
<1>15. ASSUME NEW t \in Threads, CbCheck(t)
      PROVE  RefInv'
  <2>1. UNCHANGED <<ref_count, queue, list, closing>>
    BY <1>15 DEF CbCheck, Goto, lockVars, lifeVars, kernVars, pollVars
  <2>2. \A u \in Threads, j \in Keys :
           pc'[u] = "unreg_dec" /\ call'[u].key = j <=>
               pc[u] = "unreg_dec" /\ call[u].key = j
    BY <1>15 DEF CbCheck, Goto, lockVars, lifeVars, kernVars, pollVars, Types
  <2>3. QED
    BY <2>1, <2>2, RefSame
<1>16. ASSUME NEW t \in Threads, CbEnter(t)
      PROVE  RefInv'
  <2>1. UNCHANGED <<ref_count, queue, list, closing>>
    BY <1>16 DEF CbEnter, Goto, lockVars, lifeVars, kernVars, pollVars
  <2>2. \A u \in Threads, j \in Keys :
           pc'[u] = "unreg_dec" /\ call'[u].key = j <=>
               pc[u] = "unreg_dec" /\ call[u].key = j
    BY <1>16 DEF CbEnter, Goto, lockVars, lifeVars, kernVars, pollVars, Types
  <2>3. QED
    BY <2>1, <2>2, RefSame
<1>17. ASSUME NEW t \in Threads, CbReturn(t)
      PROVE  RefInv'
  <2>1. UNCHANGED <<ref_count, queue, list, closing>>
    BY <1>17 DEF CbReturn, Goto, lockVars, lifeVars, kernVars, pollVars
  <2>2. \A u \in Threads, j \in Keys :
           pc'[u] = "unreg_dec" /\ call'[u].key = j <=>
               pc[u] = "unreg_dec" /\ call[u].key = j
    BY <1>17 DEF CbReturn, Goto, lockVars, lifeVars, kernVars, pollVars, Types
  <2>3. QED
    BY <2>1, <2>2, RefSame
<1>18. ASSUME NEW t \in Threads, CbEnd(t)
      PROVE  RefInv'
  <2>1. UNCHANGED <<ref_count, queue, list, closing>>
    BY <1>18 DEF CbEnd, Goto, CbRecord, lifeVars, kernVars, pollVars
  <2>2. \A u \in Threads, j \in Keys :
           pc'[u] = "unreg_dec" /\ call'[u].key = j <=>
               pc[u] = "unreg_dec" /\ call[u].key = j
    BY <1>18 DEF CbEnd, Goto, CbRecord, lifeVars, kernVars, pollVars, Types
  <2>3. QED
    BY <2>1, <2>2, RefSame
<1>19. ASSUME NEW t \in Threads, UnregLock(t)
      PROVE  RefInv'
  <2>1. UNCHANGED <<ref_count, queue, list, closing>> /\ pc[t] = "unregister"
    BY <1>19 DEF UnregLock, lifeVars, pollVars
  <2>2. PICK x \in {"idle", "cbend", "unreg_del"} : pc' = [pc EXCEPT ![t] = x]
    BY <1>19 DEF UnregLock, Return, Goto, Types, CallRecord
  <2>3. \A u \in Threads : u # t => call'[u] = call[u]
    BY <1>19 DEF UnregLock, Return, Types
  <2>4. QED
    BY <2>1, <2>2, <2>3, RefSame DEF Types
<1>20. ASSUME NEW t \in Threads, UnregDelOk(t)
      PROVE  RefInv'
  <2>1. UNCHANGED <<ref_count, queue, list, closing>>
    BY <1>20 DEF UnregDelOk, Goto, lockVars
  <2>2. \A u \in Threads, j \in Keys :
           pc'[u] = "unreg_dec" /\ call'[u].key = j <=>
               pc[u] = "unreg_dec" /\ call[u].key = j
    BY <1>20 DEF UnregDelOk, Goto, lockVars, Types
  <2>3. QED
    BY <2>1, <2>2, RefSame
<1>21. ASSUME NEW t \in Threads, UnregDelFail(t)
      PROVE  RefInv'
  <2>1. UNCHANGED <<ref_count, queue, list, closing>>
    BY <1>21 DEF UnregDelFail, Goto, Return, CallRecord, keyVars
  <2>2. \A u \in Threads, j \in Keys :
           pc'[u] = "unreg_dec" /\ call'[u].key = j <=>
               pc[u] = "unreg_dec" /\ call[u].key = j
    BY <1>21 DEF UnregDelFail, Goto, Return, CallRecord, keyVars, Types
  <2>3. QED
    BY <2>1, <2>2, RefSame
<1>22. ASSUME NEW t \in Threads, UnregClose(t)
      PROVE  RefInv'
  <2>0. call[t].key \in Keys /\ pc[t] \in UnregPc
    BY <1>22 DEF UnregClose, FrameInv, ApiPc, UnregPc
  <2> PICK k \in Keys : k = call[t].key
    BY <2>0
  <2>1. \A u \in Threads : u # t => pc[u] \notin UnregPc \/ call[u].key # k
    BY <2>0, UnregAlone
  <2>2. /\ UNCHANGED <<list, ref_count, queue, call>>
        /\ closing' = [closing EXCEPT ![k] = TRUE]
        /\ pc[t] = "unreg_close" /\ pc' = [pc EXCEPT ![t] = "unreg_dec"]
    BY <1>22 DEF UnregClose, Goto, pollVars
  <2>3. list[k] = "active" /\ ~closing[k]
    BY <2>2 DEF ListInv
  <2>4. pc'[t] = "unreg_dec" /\ \A u \in Threads : u # t => pc'[u] = pc[u]
    BY <2>2 DEF Types
  <2>5. Registered(k) /\ Registered(k)'
    BY <2>2, <2>3, <2>4 DEF Registered
  <2>6. \A j \in Keys : j # k => (Registered(j)' <=> Registered(j))
    <3>1. \A j \in Keys : j # k => closing'[j] = closing[j]
      BY <2>2 DEF Types
    <3>2. QED
      BY <2>2, <2>4, <3>1 DEF Registered
  <2>7. \A j \in Keys : Refs(j)' = Refs(j)
    BY <2>2 DEF Refs
  <2>8. QED
    BY <2>2, <2>5, <2>6, <2>7 DEF RefInv, RefCountExact, ActiveIffReferenced
<1>23. ASSUME NEW t \in Threads, UnregDecrement(t)
      PROVE  RefInv'
  <2>0. call[t].key \in Keys /\ pc[t] \in UnregPc
    BY <1>23 DEF UnregDecrement, FrameInv, ApiPc, UnregPc
  <2> PICK k \in Keys : k = call[t].key
    BY <2>0
  <2>1. \A u \in Threads : u # t => pc[u] \notin UnregPc \/ call[u].key # k
    BY <2>0, UnregAlone
  <2>2. /\ UNCHANGED <<closing, queue, call>>
        /\ ref_count' = [ref_count EXCEPT ![k] = @ - 1]
        /\ pc[t] = "unreg_dec" /\ pc' = [pc EXCEPT ![t] = "unreg_unlock"]
        /\ IF ref_count[k] = 1 THEN list' = [list EXCEPT ![k] = "closing"]
                               ELSE UNCHANGED list
    BY <1>23 DEF UnregDecrement, Decrement, Goto, pollVars
  <2>3. list[k] = "active" /\ closing[k]
    BY <2>2 DEF ListInv
  <2>4. pc'[t] = "unreg_unlock" /\ \A u \in Threads : u # t => pc'[u] = pc[u]
    BY <2>2 DEF Types
  <2>5. list'[k] = IF ref_count[k] = 1 THEN "closing" ELSE "active"
    BY <2>2, <2>3 DEF Types
  <2>6. Registered(k) /\ ~Registered(k)'
    <3>1. \A u \in Threads : ~(pc'[u] = "unreg_dec" /\ call'[u].key = k)
      BY <2>1, <2>2, <2>4 DEF UnregPc
    <3>2. QED
      BY <2>2, <2>3, <2>5, <3>1 DEF Registered
  <2>7. \A j \in Keys : Refs(j)' = Refs(j)
    BY <2>2 DEF Refs
  <2>8. \A j \in Keys : j # k =>
           ref_count'[j] = ref_count[j] /\ list'[j] = list[j]
    BY <2>2 DEF Types
  <2>9. \A j \in Keys : j # k => (Registered(j)' <=> Registered(j))
    BY <2>2, <2>4, <2>8 DEF Registered
  <2>10. ref_count[k] = Cardinality(Refs(k)) + 1 /\ ref_count'[k] = ref_count[k] - 1
    BY <2>2, <2>6 DEF RefInv, RefCountExact, Types
  <2>11. ref_count'[k] = Cardinality(Refs(k)') + (IF Registered(k)' THEN 1 ELSE 0)
    BY <2>6, <2>7, <2>10, RefsFinite
  <2>12. ref_count[k] = 1 <=> Refs(k) = {}
    BY <2>10, RefsFinite, FS_EmptySet
  <2>13. list'[k] \in {"active", "lost"} <=> Registered(k)' \/ Refs(k)' # {}
    BY <2>5, <2>6, <2>7, <2>12
  <2>14. QED
    BY <2>7, <2>8, <2>9, <2>11, <2>13, RefOne
<1>24. ASSUME NEW t \in Threads, UnregUnlock(t)
      PROVE  RefInv'
  <2>1. UNCHANGED <<ref_count, queue, list, closing>>
    BY <1>24 DEF UnregUnlock, Goto, Return, CallRecord, lifeVars, kernVars,
        pollVars
  <2>2. \A u \in Threads, j \in Keys :
           pc'[u] = "unreg_dec" /\ call'[u].key = j <=>
               pc[u] = "unreg_dec" /\ call[u].key = j
    BY <1>24 DEF UnregUnlock, Goto, Return, CallRecord, lifeVars, kernVars,
        pollVars, Types
  <2>3. QED
    BY <2>1, <2>2, RefSame
<1>25. ASSUME NEW t \in Threads, CallMove(t)
      PROVE  RefInv'
  <2>1. UNCHANGED <<ref_count, queue, list, closing>> /\ pc[t] # "unreg_dec"
    BY <1>25 DEF CallMove, keyVars
  <2>2. PICK x \in {"idle", "cbend", "queue_op", "connect_lock"} :
               pc' = [pc EXCEPT ![t] = x]
    BY <1>25 DEF CallMove, Return, Goto, Types, CallRecord
  <2>3. \A u \in Threads : u # t => call'[u] = call[u]
    BY <1>25 DEF CallMove, Return, Types
  <2>4. QED
    BY <2>1, <2>2, <2>3, RefSame DEF Types
<1>26. ASSUME NEW t \in Threads, NEW r \in CbRecord, PostCb(t, r)
      PROVE  RefInv'
  <2>1. UNCHANGED <<ref_count, queue, list, closing>>
    BY <1>26 DEF PostCb, Goto, lockVars, keyVars
  <2>2. \A u \in Threads, j \in Keys :
           pc'[u] = "unreg_dec" /\ call'[u].key = j <=>
               pc[u] = "unreg_dec" /\ call[u].key = j
    BY <1>26 DEF PostCb, Goto, lockVars, keyVars, Types
  <2>3. QED
    BY <2>1, <2>2, RefSame
<1>27. ASSUME NEW t \in Threads, NEW c \in KeyCalls, NEW k \in Keys,
              NEW o \in Ops \cup {None},
              Begin(t, c, k, o)
      PROVE  RefInv'
  <2>1. UNCHANGED <<ref_count, queue, list, closing>>
    BY <1>27 DEF Begin, Goto, OpCalls, KeyCalls, lockVars, keyVars
  <2>2. \A u \in Threads, j \in Keys :
           pc'[u] = "unreg_dec" /\ call'[u].key = j <=>
               pc[u] = "unreg_dec" /\ call[u].key = j
    BY <1>27 DEF Begin, Goto, OpCalls, KeyCalls, lockVars, keyVars, Types
  <2>3. QED
    BY <2>1, <2>2, RefSame
<1>28. ASSUME RegisterScan
      PROVE  RefInv'
  BY <1>28, RefScanned DEF RegisterScan
<1>29. ASSUME NEW k \in Keys, NEW n \in Nat, NEW added \in BOOLEAN,
              RegisterKey(k, n, added)
      PROVE  RefInv'
  <2>1. /\ UNCHANGED <<queue, pc, call>>
        /\ ref_count' = [ref_count EXCEPT ![k] = @ + 1]
        /\ closing' = [closing EXCEPT ![k] = FALSE]
        /\ list' = [Scanned EXCEPT ![k] = IF added THEN "active" ELSE "lost"]
    BY <1>29 DEF RegisterKey
  <2>2. list[k] \in {"free", "closing"}
    BY <1>29 DEF RegisterKey, Scanned
  <2>3. ~Registered(k) /\ Refs(k) = {}
    BY <2>2 DEF RefInv, ActiveIffReferenced
  <2>4. Scanned \in [Keys -> Lists]
    BY DEF Scanned, Types, Lists
  <2>5. list'[k] \in {"active", "lost"} /\ ~closing'[k]
    BY <2>1, <2>4 DEF Types
  <2>6. Registered(k)' /\ Refs(k)' = Refs(k)
    BY <2>1, <2>5 DEF Registered, Refs
  <2>7. ref_count'[k] = ref_count[k] + 1
    BY <2>1 DEF Types
  <2>8. ref_count[k] = Cardinality(Refs(k)) + 0
    BY <2>3 DEF RefInv, RefCountExact
  <2>9. ref_count'[k] = Cardinality(Refs(k)') + (IF Registered(k)' THEN 1 ELSE 0)
    BY <2>6, <2>7, <2>8, RefsFinite
  <2>10. \A j \in Keys : j # k =>
            /\ ref_count'[j] = ref_count[j] /\ closing'[j] = closing[j]
            /\ list'[j] = list[j] \/ (list[j] = "closing" /\ list'[j] = "free")
            /\ Refs(j)' = Refs(j)
    <3>1. \A j \in Keys : Refs(j)' = Refs(j)
      BY <2>1 DEF Refs
    <3>2. \A j \in Keys : j # k => list'[j] = Scanned[j]
      BY <2>1, <2>4
    <3>3. \A j \in Keys :
           Scanned[j] = list[j] \/ (list[j] = "closing" /\ Scanned[j] = "free")
      BY DEF Scanned, Types
    <3>4. \A j \in Keys : j # k =>
           ref_count'[j] = ref_count[j] /\ closing'[j] = closing[j]
      BY <2>1 DEF Types
    <3>5. QED
      BY <3>1, <3>2, <3>3, <3>4
  <2>11. \A j \in Keys : j # k => (Registered(j)' <=> Registered(j))
    BY <2>1, <2>10 DEF Registered
  <2>12. QED
    BY <2>5, <2>6, <2>9, <2>10, <2>11, RefOne
<1>30. ASSUME NEW k \in Keys, FreeDelayPasses(k)
      PROVE  RefInv'
  <2>1. UNCHANGED <<ref_count, queue, list, closing>>
    BY <1>30 DEF FreeDelayPasses, lockVars, kernVars, pollVars
  <2>2. \A u \in Threads, j \in Keys :
           pc'[u] = "unreg_dec" /\ call'[u].key = j <=>
               pc[u] = "unreg_dec" /\ call[u].key = j
    BY <1>30 DEF FreeDelayPasses, lockVars, kernVars, pollVars, Types
  <2>3. QED
    BY <2>1, <2>2, RefSame
<1>31. CASE UNCHANGED core
  BY <1>31, RefSame DEF core, lockVars
<1>32. QED
  BY <1>1, <1>2, <1>3, <1>4, <1>5, <1>6, <1>7, <1>8, <1>9, <1>10, <1>11,
      <1>12, <1>13, <1>14, <1>15, <1>16, <1>17, <1>18, <1>19, <1>20, <1>21,
      <1>22, <1>23, <1>24, <1>25, <1>26, <1>27, <1>28, <1>29, <1>30, <1>31
  DEF CoreNext, CorePoll, CoreCall, CbStep

\* A thread that is about to run a callback under the lock of its key keeps
\* every other thread out of the part of pj_ioqueue_unregister that closes it.
LEMMA NoLateStep ==
    Types /\ FrameInv /\ LockInv /\ NoLateLockedCallback /\ [CoreNext]_core
    => NoLateLockedCallback'
<1> SUFFICES ASSUME Types, FrameInv, LockInv, NoLateLockedCallback,
                      [CoreNext]_core
             PROVE  NoLateLockedCallback'
  OBVIOUS
<1> USE NoneAssumption
<1>1. ASSUME NEW t \in Threads, WaitEvents(t)
      PROVE  NoLateLockedCallback'
  BY <1>1 DEF WaitEvents, Goto, lockVars, keyVars, NoLateLockedCallback,
      Types, FrameInv, CbPc, ApiPc, UnregPc, NoCb, CbRecord
<1>2. ASSUME NEW t \in Threads, PollMove(t)
      PROVE  NoLateLockedCallback'
  BY <1>2 DEF PollMove, Goto, lockVars, keyVars, NoLateLockedCallback, Types,
      FrameInv, CbPc, ApiPc, UnregPc, NoCb, CbRecord
<1>3. ASSUME NEW t \in Threads, PollLock(t)
      PROVE  NoLateLockedCallback'
  BY <1>3 DEF PollLock, Goto, lifeVars, kernVars, pollVars,
      NoLateLockedCallback, Types, FrameInv, CbPc, ApiPc, UnregPc, NoCb,
      CbRecord
<1>4. ASSUME NEW t \in Threads, PollUnlock(t)
      PROVE  NoLateLockedCallback'
  BY <1>4 DEF PollUnlock, Goto, lifeVars, kernVars, pollVars,
      NoLateLockedCallback, Types, FrameInv, CbPc, ApiPc, UnregPc, NoCb,
      CbRecord
<1>5. ASSUME NEW t \in Threads, PollDecrement(t)
      PROVE  NoLateLockedCallback'
  BY <1>5 DEF PollDecrement, Goto, Decrement, lockVars, kernVars,
      NoLateLockedCallback, Types, FrameInv, CbPc, ApiPc, UnregPc, NoCb,
      CbRecord
<1>6. ASSUME NEW t \in Threads, PollReturn(t)
      PROVE  NoLateLockedCallback'
  BY <1>6 DEF PollReturn, Goto, lockVars, lifeVars, kernVars, pollVars,
      NoLateLockedCallback, Types, FrameInv, CbPc, ApiPc, UnregPc, NoCb,
      CbRecord
<1>7. ASSUME NEW t \in Threads, PollScan(t)
      PROVE  NoLateLockedCallback'
  BY <1>7 DEF PollScan, Goto, Scanned, lockVars, kernVars, pollVars,
      NoLateLockedCallback, Types, FrameInv, CbPc, ApiPc, UnregPc, NoCb,
      CbRecord
<1>8. ASSUME NEW t \in Threads, WalkBegin(t)
      PROVE  NoLateLockedCallback'
  BY <1>8 DEF WalkBegin, Goto, keyVars, NoLateLockedCallback, Types, FrameInv,
      CbPc, ApiPc, UnregPc, NoCb, CbRecord
<1>9. ASSUME NEW t \in Threads, ConnectTimeoutEnd(t)
      PROVE  NoLateLockedCallback'
  BY <1>9 DEF ConnectTimeoutEnd, Goto, lifeVars, kernVars, pollVars,
      NoLateLockedCallback, Types, FrameInv, CbPc, ApiPc, UnregPc, NoCb,
      CbRecord
<1>10. ASSUME NEW t \in Threads, NEW k \in Keys, Collect(t, k)
      PROVE  NoLateLockedCallback'
  BY <1>10 DEF Collect, IncrementCounter, lockVars, kernVars,
      NoLateLockedCallback, Types, FrameInv, CbPc, ApiPc, UnregPc, NoCb,
      CbRecord
<1>11. ASSUME NEW t \in Threads, NEW k \in Keys, WalkSkip(t, k)
      PROVE  NoLateLockedCallback'
  BY <1>11 DEF WalkSkip, lockVars, keyVars, NoLateLockedCallback, Types,
      FrameInv, CbPc, ApiPc, UnregPc, NoCb, CbRecord
<1>12. ASSUME NEW t \in Threads, NEW k \in Keys, DispatchNothing(t, k)
      PROVE  NoLateLockedCallback'
  BY <1>12 DEF DispatchNothing, Goto, lockVars, lifeVars, kernVars, pollVars,
      NoLateLockedCallback, Types, FrameInv, CbPc, ApiPc, UnregPc, NoCb,
      CbRecord
<1>13. ASSUME NEW t \in Threads, NEW k \in Keys, NEW r \in CbRecord,
              WalkCb(t, k, r)
      PROVE  NoLateLockedCallback'
  BY <1>13 DEF WalkCb, Deliver, Goto, LockKey, keyVars, KeyFree,
      NoLateLockedCallback, Types, FrameInv, CbPc, ApiPc, UnregPc, NoCb,
      CbRecord
<1>14. ASSUME NEW t \in Threads, NEW k \in Keys, NEW r \in CbRecord,
              DispatchCb(t, k, r)
      PROVE  NoLateLockedCallback'
  BY <1>14 DEF DispatchCb, Deliver, Goto, LockKey, keyVars, KeyFree,
      NoLateLockedCallback, Types, FrameInv, CbPc, ApiPc, UnregPc, NoCb,
      CbRecord
<1>15. ASSUME NEW t \in Threads, CbCheck(t)
      PROVE  NoLateLockedCallback'
  BY <1>15 DEF CbCheck, Goto, lockVars, lifeVars, kernVars, pollVars,
      NoLateLockedCallback, Types, FrameInv, CbPc, ApiPc, UnregPc, NoCb,
      CbRecord
<1>16. ASSUME NEW t \in Threads, CbEnter(t)
      PROVE  NoLateLockedCallback'
  BY <1>16 DEF CbEnter, Goto, lockVars, lifeVars, kernVars, pollVars,
      NoLateLockedCallback, Types, FrameInv, CbPc, ApiPc, UnregPc, NoCb,
      CbRecord
<1>17. ASSUME NEW t \in Threads, CbReturn(t)
      PROVE  NoLateLockedCallback'
  BY <1>17 DEF CbReturn, Goto, lockVars, lifeVars, kernVars, pollVars,
      NoLateLockedCallback, Types, FrameInv, CbPc, ApiPc, UnregPc, NoCb,
      CbRecord
<1>18. ASSUME NEW t \in Threads, CbEnd(t)
      PROVE  NoLateLockedCallback'
  BY <1>18 DEF CbEnd, Goto, UnlockKey, lifeVars, kernVars, pollVars, CbRecord,
      NoLateLockedCallback, Types, FrameInv, CbPc, ApiPc, UnregPc, NoCb
<1>19. ASSUME NEW t \in Threads, UnregLock(t)
      PROVE  NoLateLockedCallback'
  BY <1>19 DEF UnregLock, Goto, Return, LockKey, lifeVars, kernVars, pollVars,
      KeyFree, CallRecord, NoLateLockedCallback, Types, FrameInv, CbPc, ApiPc,
      UnregPc, NoCb, CbRecord
<1>20. ASSUME NEW t \in Threads, UnregDelOk(t)
      PROVE  NoLateLockedCallback'
  BY <1>20 DEF UnregDelOk, Goto, lockVars, NoLateLockedCallback, Types,
      FrameInv, CbPc, ApiPc, UnregPc, NoCb, CbRecord
<1>21. ASSUME NEW t \in Threads, UnregDelFail(t)
      PROVE  NoLateLockedCallback'
  BY <1>21 DEF UnregDelFail, Goto, Return, UnlockKey, keyVars, CallRecord,
      NoLateLockedCallback, Types, FrameInv, CbPc, ApiPc, UnregPc, NoCb,
      CbRecord
<1>22. ASSUME NEW t \in Threads, UnregClose(t)
      PROVE  NoLateLockedCallback'
  <2>0. call[t].key \in Keys /\ pc[t] \in UnregPc
    BY <1>22 DEF UnregClose, FrameInv, ApiPc, UnregPc
  <2> PICK k \in Keys : k = call[t].key
    BY <2>0
  <2>1. Depth(t, k) # 0
    BY <2>0 DEF Depth
  <2>2. \A u \in Threads : u # t => Depth(u, k) = 0
    BY <2>1 DEF LockInv
  <2>3. \A u \in Threads : u # t => ~cb[u].has_lock \/ cb[u].key # k
    BY <2>2 DEF Depth
  <2>4. /\ UNCHANGED cb /\ closing' = [closing EXCEPT ![k] = TRUE]
        /\ pc' = [pc EXCEPT ![t] = "unreg_dec"]
    BY <1>22 DEF UnregClose, Goto
  <2>5. \A j \in Keys : j # k => closing'[j] = closing[j]
    BY <2>4 DEF Types
  <2>6. \A u \in Threads : pc[u] = "cbenter" => cb[u].key \in Keys
    BY DEF FrameInv, CbPc
  <2>7. QED
    BY <2>3, <2>4, <2>5, <2>6 DEF NoLateLockedCallback, Types
<1>23. ASSUME NEW t \in Threads, UnregDecrement(t)
      PROVE  NoLateLockedCallback'
  BY <1>23 DEF UnregDecrement, Goto, Decrement, lockVars, kernVars, pollVars,
      NoLateLockedCallback, Types, FrameInv, CbPc, ApiPc, UnregPc, NoCb,
      CbRecord
<1>24. ASSUME NEW t \in Threads, UnregUnlock(t)
      PROVE  NoLateLockedCallback'
  BY <1>24 DEF UnregUnlock, Goto, Return, UnlockKey, lifeVars, kernVars,
      pollVars, CallRecord, NoLateLockedCallback, Types, FrameInv, CbPc,
      ApiPc, UnregPc, NoCb, CbRecord
<1>25. ASSUME NEW t \in Threads, CallMove(t)
      PROVE  NoLateLockedCallback'
  BY <1>25 DEF CallMove, Goto, Return, lockVars, keyVars, CallRecord,
      NoLateLockedCallback, Types, FrameInv, CbPc, ApiPc, UnregPc, NoCb,
      CbRecord
<1>26. ASSUME NEW t \in Threads, NEW r \in CbRecord, PostCb(t, r)
      PROVE  NoLateLockedCallback'
  BY <1>26 DEF PostCb, Goto, lockVars, keyVars, NoLateLockedCallback, Types,
      FrameInv, CbPc, ApiPc, UnregPc, NoCb, CbRecord
<1>27. ASSUME NEW t \in Threads, NEW c \in KeyCalls, NEW k \in Keys,
              NEW o \in Ops \cup {None},
              Begin(t, c, k, o)
      PROVE  NoLateLockedCallback'
  BY <1>27 DEF Begin, Goto, lockVars, keyVars, OpCalls, KeyCalls,
      NoLateLockedCallback, Types, FrameInv, CbPc, ApiPc, UnregPc, NoCb,
      CbRecord
<1>28. ASSUME RegisterScan
      PROVE  NoLateLockedCallback'
  BY <1>28 DEF RegisterScan, Scanned, lockVars, NoLateLockedCallback, Types,
      FrameInv, CbPc, ApiPc, UnregPc, NoCb, CbRecord
<1>29. ASSUME NEW k \in Keys, NEW n \in Nat, NEW added \in BOOLEAN,
              RegisterKey(k, n, added)
      PROVE  NoLateLockedCallback'
  BY <1>29 DEF RegisterKey, Scanned, lockVars, NoLateLockedCallback, Types,
      FrameInv, CbPc, ApiPc, UnregPc, NoCb, CbRecord
<1>30. ASSUME NEW k \in Keys, FreeDelayPasses(k)
      PROVE  NoLateLockedCallback'
  BY <1>30 DEF FreeDelayPasses, lockVars, kernVars, pollVars,
      NoLateLockedCallback, Types, FrameInv, CbPc, ApiPc, UnregPc, NoCb,
      CbRecord
<1>31. CASE UNCHANGED core
  BY <1>31 DEF core, lockVars, NoLateLockedCallback, Types, FrameInv, CbPc,
      ApiPc, UnregPc, NoCb, CbRecord
<1>32. QED
  BY <1>1, <1>2, <1>3, <1>4, <1>5, <1>6, <1>7, <1>8, <1>9, <1>10, <1>11,
      <1>12, <1>13, <1>14, <1>15, <1>16, <1>17, <1>18, <1>19, <1>20, <1>21,
      <1>22, <1>23, <1>24, <1>25, <1>26, <1>27, <1>28, <1>29, <1>30, <1>31
  DEF CoreNext, CorePoll, CoreCall, CbStep

\* The assertions of the life cycle hold in every step.
LEMMA AssertStep ==
    Types /\ QueueInv /\ ListInv /\ RefInv /\ FrameInv /\ LifecycleAsserts
    /\ [Next]_vars => LifecycleAsserts'
<1> SUFFICES ASSUME Types, QueueInv, ListInv, RefInv, FrameInv,
        LifecycleAsserts, [Next]_vars
             PROVE  LifecycleAsserts'
  OBVIOUS
<1>1. ASSUME NEW t \in Threads, PollWait(t)
      PROVE  LifecycleAsserts'
  BY <1>1
  DEF PollWait, Goto, LifecycleAsserts, histVars
<1>2. ASSUME NEW t \in Threads, PollLock(t)
      PROVE  LifecycleAsserts'
  BY <1>2
  DEF PollLock, Goto, LifecycleAsserts, histVars
<1>3. ASSUME NEW t \in Threads, PollUnlock(t)
      PROVE  LifecycleAsserts'
  BY <1>3
  DEF PollUnlock, Goto, LifecycleAsserts, histVars
<1>4. ASSUME NEW t \in Threads, PollDecrement(t)
      PROVE  LifecycleAsserts'
  <2>1. cb[t].key \in Keys /\ queue[t][cb[t].key] # "NO_EVENT"
    BY <1>4 DEF PollDecrement, QueueInv
  <2>2. ref_count[cb[t].key] = 1 => closing[cb[t].key]
    BY <2>1, LastPoller
  <2>3. broken' = broken
    BY <1>4, <2>2 DEF PollDecrement, Decrement
  <2>4. QED
    BY <2>3 DEF LifecycleAsserts
<1>5. ASSUME NEW t \in Threads, PollReturn(t)
      PROVE  LifecycleAsserts'
  BY <1>5
  DEF PollReturn, Goto, LifecycleAsserts, histVars
<1>6. ASSUME NEW t \in Threads, PollScan(t)
      PROVE  LifecycleAsserts'
  <2>1. ScanFails = {}
    BY DEF ScanFails, ListInv
  <2>2. broken' = broken
    BY <1>6, <2>1 DEF PollScan
  <2>3. QED
    BY <2>2 DEF LifecycleAsserts
<1>7. ASSUME NEW t \in Threads, ConnectTimeoutBegin(t)
      PROVE  LifecycleAsserts'
  BY <1>7
  DEF ConnectTimeoutBegin, Goto, LifecycleAsserts, histVars
<1>8. ASSUME NEW t \in Threads, ConnectTimeoutEnd(t)
      PROVE  LifecycleAsserts'
  BY <1>8
  DEF ConnectTimeoutEnd, Goto, LifecycleAsserts, histVars
<1>9. ASSUME NEW t \in Threads, NEW k \in Keys, Collect(t, k)
      PROVE  LifecycleAsserts'
  BY <1>9
  DEF Collect, IncrementCounter, LifecycleAsserts, histVars
<1>10. ASSUME NEW t \in Threads, NEW k \in Keys, DispatchNothing(t, k)
      PROVE  LifecycleAsserts'
  BY <1>10
  DEF DispatchNothing, Goto, LifecycleAsserts, histVars
<1>11. ASSUME NEW t \in Threads, NEW k \in Keys, DispatchRead(t, k)
      PROVE  LifecycleAsserts'
  BY <1>11
  DEF DispatchRead, Goto, KeepOrReleaseKey, LockKey, Completion,
      LifecycleAsserts, histVars
<1>12. ASSUME NEW t \in Threads, NEW k \in Keys, DispatchWrite(t, k)
      PROVE  LifecycleAsserts'
  BY <1>12
  DEF DispatchWrite, Goto, KeepOrReleaseKey, LockKey, Completion,
      LifecycleAsserts, histVars
<1>13. ASSUME NEW t \in Threads, NEW k \in Keys, DispatchConnect(t, k)
      PROVE  LifecycleAsserts'
  BY <1>13
  DEF DispatchConnect, Goto, KeepOrReleaseKey, LockKey, Completion,
      LifecycleAsserts, histVars
<1>14. ASSUME NEW t \in Threads, NEW k \in Keys, ConnectTimeoutKey(t, k)
      PROVE  LifecycleAsserts'
  BY <1>14
  DEF ConnectTimeoutKey, Goto, KeepOrReleaseKey, LockKey, Completion,
      LifecycleAsserts, histVars
<1>15. ASSUME NEW t \in Threads, CbCheck(t)
      PROVE  LifecycleAsserts'
  BY <1>15
  DEF CbCheck, Goto, LifecycleAsserts, histVars
<1>16. ASSUME NEW t \in Threads, CbEnter(t)
      PROVE  LifecycleAsserts'
  BY <1>16
  DEF CbEnter, Goto, LifecycleAsserts, histVars
<1>17. ASSUME NEW t \in Threads, CbReturn(t)
      PROVE  LifecycleAsserts'
  BY <1>17
  DEF CbReturn, Goto, LifecycleAsserts, histVars
<1>18. ASSUME NEW t \in Threads, CbEnd(t)
      PROVE  LifecycleAsserts'
  BY <1>18
  DEF CbEnd, Goto, UnlockKey, LifecycleAsserts, histVars
<1>19. ASSUME NEW t \in Threads, UnregLock(t)
      PROVE  LifecycleAsserts'
  BY <1>19
  DEF UnregLock, Goto, Return, LockKey, LifecycleAsserts, histVars
<1>20. ASSUME NEW t \in Threads, UnregDel(t)
      PROVE  LifecycleAsserts'
  BY <1>20
  DEF UnregDel, Goto, Return, UnlockKey, LifecycleAsserts, histVars
<1>21. ASSUME NEW t \in Threads, UnregClose(t)
      PROVE  LifecycleAsserts'
  BY <1>21
  DEF UnregClose, Goto, LifecycleAsserts, histVars
<1>22. ASSUME NEW t \in Threads, UnregDecrement(t)
      PROVE  LifecycleAsserts'
  <2>1. call[t].key \in Keys /\ pc[t] = "unreg_dec"
    BY <1>22 DEF UnregDecrement, FrameInv, ApiPc, UnregPc
  <2>2. closing[call[t].key]
    BY <2>1 DEF ListInv
  <2>3. broken' = broken
    BY <1>22, <2>2 DEF UnregDecrement, Decrement
  <2>4. QED
    BY <2>3 DEF LifecycleAsserts
<1>23. ASSUME NEW t \in Threads, UnregUnlock(t)
      PROVE  LifecycleAsserts'
  BY <1>23
  DEF UnregUnlock, Goto, Return, UnlockKey, LifecycleAsserts, histVars
<1>24. ASSUME NEW t \in Threads, RecvTry(t)
      PROVE  LifecycleAsserts'
  BY <1>24
  DEF RecvTry, Goto, Return, LifecycleAsserts, histVars
<1>25. ASSUME NEW t \in Threads, SendTry(t)
      PROVE  LifecycleAsserts'
  BY <1>25
  DEF SendTry, Goto, Return, LifecycleAsserts, histVars
<1>26. ASSUME NEW t \in Threads, AcceptTry(t)
      PROVE  LifecycleAsserts'
  BY <1>26
  DEF AcceptTry, Goto, Return, LifecycleAsserts, histVars
<1>27. ASSUME NEW t \in Threads, QueueOp(t)
      PROVE  LifecycleAsserts'
  BY <1>27
  DEF QueueOp, Goto, Return, LifecycleAsserts, histVars
<1>28. ASSUME NEW t \in Threads, ConnectTry(t)
      PROVE  LifecycleAsserts'
  BY <1>28
  DEF ConnectTry, Goto, Return, LifecycleAsserts, histVars
<1>29. ASSUME NEW t \in Threads, ConnectQueue(t)
      PROVE  LifecycleAsserts'
  BY <1>29
  DEF ConnectQueue, Goto, Return, LifecycleAsserts, histVars
<1>30. ASSUME NEW t \in Threads, PostCompletion(t)
      PROVE  LifecycleAsserts'
  BY <1>30
  DEF PostCompletion, Goto, Return, LifecycleAsserts, histVars
<1>31. ASSUME NEW t \in Threads, Register(t)
      PROVE  LifecycleAsserts'
  <2>1. ScanFails = {}
    BY DEF ScanFails, ListInv
  <2>2. \A k \in Keys : Scanned[k] = "free" => ref_count[k] = 0
    <3>1. ASSUME NEW k \in Keys, Scanned[k] = "free"
          PROVE  ref_count[k] = 0
      <4>1. list[k] \notin {"active", "lost"}
        BY <3>1 DEF Scanned
      <4>2. ~Registered(k) /\ Refs(k) = {}
        BY <4>1 DEF RefInv, ActiveIffReferenced
      <4>3. Cardinality(Refs(k)) = 0
        BY <4>2, FS_EmptySet
      <4>4. QED
        BY <4>2, <4>3 DEF RefInv, RefCountExact
    <3>2. QED
      BY <3>1
  <2>3. broken' \subseteq broken \cup {"free_list"}
    BY <1>31, <2>1, <2>2 DEF Register, InitKey
  <2>4. QED
    BY <2>3 DEF LifecycleAsserts
<1>32. ASSUME NEW t \in Threads, NEW k \in Keys, SetConcurrency(t, k)
      PROVE  LifecycleAsserts'
  BY <1>32
  DEF SetConcurrency, LifecycleAsserts, histVars
<1>33. ASSUME NEW t \in Threads, NEW c \in KeyCalls, NEW k \in Keys,
              NEW o \in Ops \cup {None},
              BeginCall(t, c, k, o)
      PROVE  LifecycleAsserts'
  BY <1>33
  DEF BeginCall, Goto, LifecycleAsserts, histVars
<1>34. ASSUME NEW k \in Keys, Arrive(k)
      PROVE  LifecycleAsserts'
  BY <1>34
  DEF Arrive, LifecycleAsserts, histVars
<1>35. ASSUME NEW k \in Keys, ConnectResolves(k)
      PROVE  LifecycleAsserts'
  BY <1>35
  DEF ConnectResolves, LifecycleAsserts, histVars
<1>36. ASSUME NEW k \in Keys, FreeDelayPasses(k)
      PROVE  LifecycleAsserts'
  BY <1>36
  DEF FreeDelayPasses, LifecycleAsserts, histVars
<1>37. ASSUME NEW k \in Keys, ConnectDelayPasses(k)
      PROVE  LifecycleAsserts'
  BY <1>37
  DEF ConnectDelayPasses, LifecycleAsserts, histVars
<1>38. CASE UNCHANGED vars
  BY <1>38 DEF vars, LifecycleAsserts, histVars
<1>39. QED
  BY <1>1, <1>2, <1>3, <1>4, <1>5, <1>6, <1>7, <1>8, <1>9, <1>10, <1>11,
      <1>12, <1>13, <1>14, <1>15, <1>16, <1>17, <1>18, <1>19, <1>20, <1>21,
      <1>22, <1>23, <1>24, <1>25, <1>26, <1>27, <1>28, <1>29, <1>30, <1>31,
      <1>32, <1>33, <1>34, <1>35, <1>36, <1>37, <1>38
  DEF Next, PollStep, CbStep, CallStep, NewCall, Environment

\* Unlinking an operation from a list leaves a list of operations.
LEMMA WithoutType ==
    ASSUME NEW s \in Seq(Ops), NEW o, On(s, o)
    PROVE  Without(s, o) \in Seq(Ops)
<1> DEFINE i == CHOOSE i \in DOMAIN s : s[i] = o
<1>1. i \in 1..Len(s)
  BY DEF On
<1> HIDE DEF i
<1>2. SubSeq(s, 1, i - 1) \in Seq(Ops) /\ SubSeq(s, i + 1, Len(s)) \in Seq(Ops)
  BY <1>1, SubSeqProperties
<1>3. SubSeq(s, 1, i - 1) \o SubSeq(s, i + 1, Len(s)) \in Seq(Ops)
  BY <1>2, ConcatProperties
<1>4. QED
  BY <1>3 DEF Without, i

\* The data keep their types.
LEMMA DataStep ==
    Types /\ DataTypes /\ FrameInv /\ [Next]_vars => DataTypes'
<1> SUFFICES ASSUME Types, DataTypes, FrameInv, [Next]_vars
             PROVE  DataTypes'
  OBVIOUS
<1> USE SettingsAssumption, BoundsAssumption
<1>1. ASSUME NEW t \in Threads, PollWait(t)
      PROVE  DataTypes'
  BY <1>1
  DEF PollWait, Goto, DataTypes, lockVars, lifeVars, pendVars, kernVars,
      pollVars, histVars
<1>2. ASSUME NEW t \in Threads, PollLock(t)
      PROVE  DataTypes'
  BY <1>2
  DEF PollLock, Goto, DataTypes, lockVars, lifeVars, pendVars, kernVars,
      pollVars, histVars
<1>3. ASSUME NEW t \in Threads, PollUnlock(t)
      PROVE  DataTypes'
  BY <1>3
  DEF PollUnlock, Goto, DataTypes, lockVars, lifeVars, pendVars, kernVars,
      pollVars, histVars
<1>4. ASSUME NEW t \in Threads, PollDecrement(t)
      PROVE  DataTypes'
  BY <1>4
  DEF PollDecrement, Goto, Decrement, DataTypes, lockVars, lifeVars, pendVars,
      kernVars, pollVars, histVars
<1>5. ASSUME NEW t \in Threads, PollReturn(t)
      PROVE  DataTypes'
  BY <1>5
  DEF PollReturn, Goto, DataTypes, lockVars, lifeVars, pendVars, kernVars,
      pollVars, histVars
<1>6. ASSUME NEW t \in Threads, PollScan(t)
      PROVE  DataTypes'
  BY <1>6
  DEF PollScan, Goto, Scanned, ScanFails, DataTypes, lockVars, lifeVars,
      pendVars, kernVars, pollVars, histVars
<1>7. ASSUME NEW t \in Threads, ConnectTimeoutBegin(t)
      PROVE  DataTypes'
  BY <1>7
  DEF ConnectTimeoutBegin, Goto, DataTypes, lockVars, lifeVars, pendVars,
      kernVars, pollVars, histVars
<1>8. ASSUME NEW t \in Threads, ConnectTimeoutEnd(t)
      PROVE  DataTypes'
  BY <1>8
  DEF ConnectTimeoutEnd, Goto, DataTypes, lockVars, lifeVars, pendVars,
      kernVars, pollVars, histVars
<1>9. ASSUME NEW t \in Threads, NEW k \in Keys, Collect(t, k)
      PROVE  DataTypes'
  BY <1>9
  DEF Collect, IncrementCounter, DataTypes, lockVars, lifeVars, pendVars,
      kernVars, pollVars, histVars
<1>10. ASSUME NEW t \in Threads, NEW k \in Keys, DispatchNothing(t, k)
      PROVE  DataTypes'
  BY <1>10
  DEF DispatchNothing, Goto, DataTypes, lockVars, lifeVars, pendVars,
      kernVars, pollVars, histVars
<1>11. ASSUME NEW t \in Threads, NEW k \in Keys, DispatchRead(t, k)
      PROVE  DataTypes'
  BY <1>11, SMTT(30)
  DEF DispatchRead, Goto, KeepOrReleaseKey, LockKey, Completion, DataTypes,
      lockVars, lifeVars, pendVars, kernVars, pollVars, histVars, OpCalls
<1>12. ASSUME NEW t \in Threads, NEW k \in Keys, DispatchWrite(t, k)
      PROVE  DataTypes'
  <2>1. pending' \in [Keys -> [OpCalls -> Seq(Ops)]]
    <3>1. pending[k]["send"] \in Seq(Ops) /\ pending[k]["send"] # <<>>
      BY <1>12 DEF DispatchWrite, DataTypes, OpCalls
    <3>2. Tail(pending[k]["send"]) \in Seq(Ops)
      BY <3>1, HeadTailProperties
    <3>3. pending' = [pending EXCEPT ![k]["send"] = Tail(pending[k]["send"])]
      BY <1>12 DEF DispatchWrite
    <3>4. QED
      BY <3>2, <3>3 DEF DataTypes
  <2>2. op' \in [Ops -> OpCalls \cup {"none"}]
    BY <1>12 DEF DispatchWrite, DataTypes, OpCalls
  <2>3. want_out' \in [Keys -> BOOLEAN]
    BY <1>12 DEF DispatchWrite, DataTypes, OutKept, Types
  <2>4. broken' \subseteq {"free_list", "ref_count", "closing", "count", "send_rc"}
    BY <1>12 DEF DispatchWrite, DataTypes
  <2>5. QED
    BY <1>12, <2>1, <2>2, <2>3, <2>4
    DEF DispatchWrite, DataTypes, lockVars, lifeVars, pendVars, kernVars,
        pollVars, histVars
<1>13. ASSUME NEW t \in Threads, NEW k \in Keys, DispatchConnect(t, k)
      PROVE  DataTypes'
  BY <1>13
  DEF DispatchConnect, Goto, KeepOrReleaseKey, LockKey, Completion, DataTypes,
      lockVars, lifeVars, pendVars, kernVars, pollVars, histVars
<1>14. ASSUME NEW t \in Threads, NEW k \in Keys, ConnectTimeoutKey(t, k)
      PROVE  DataTypes'
  BY <1>14
  DEF ConnectTimeoutKey, Goto, KeepOrReleaseKey, LockKey, Completion,
      DataTypes, lockVars, lifeVars, pendVars, kernVars, pollVars, histVars
<1>15. ASSUME NEW t \in Threads, CbCheck(t)
      PROVE  DataTypes'
  BY <1>15
  DEF CbCheck, Goto, DataTypes, lockVars, lifeVars, pendVars, kernVars,
      pollVars, histVars
<1>16. ASSUME NEW t \in Threads, CbEnter(t)
      PROVE  DataTypes'
  BY <1>16
  DEF CbEnter, Goto, DataTypes, lockVars, lifeVars, pendVars, kernVars,
      pollVars, histVars
<1>17. ASSUME NEW t \in Threads, CbReturn(t)
      PROVE  DataTypes'
  BY <1>17
  DEF CbReturn, Goto, DataTypes, lockVars, lifeVars, pendVars, kernVars,
      pollVars, histVars
<1>18. ASSUME NEW t \in Threads, CbEnd(t)
      PROVE  DataTypes'
  BY <1>18
  DEF CbEnd, Goto, UnlockKey, DataTypes, lockVars, lifeVars, pendVars,
      kernVars, pollVars, histVars
<1>19. ASSUME NEW t \in Threads, UnregLock(t)
      PROVE  DataTypes'
  BY <1>19
  DEF UnregLock, Goto, Return, LockKey, DataTypes, lockVars, lifeVars,
      pendVars, kernVars, pollVars, histVars
<1>20. ASSUME NEW t \in Threads, UnregDel(t)
      PROVE  DataTypes'
  <2>1. count' \in Nat
    BY <1>20 DEF UnregDel, DataTypes, CountAfterDel
  <2>2. broken' \subseteq {"free_list", "ref_count", "closing", "count", "send_rc"}
    BY <1>20 DEF UnregDel, DataTypes
  <2>3. want_out' \in [Keys -> BOOLEAN]
    BY <1>20 DEF UnregDel, DataTypes, kernVars
  <2>4. rx' \in [Keys -> Nat]
    <3>1. UNCHANGED rx \/ \E k \in Keys : rx' = [rx EXCEPT ![k] = 0]
      BY <1>20 DEF UnregDel, kernVars, FrameInv, ApiPc, UnregPc
    <3>2. QED
      BY <3>1 DEF DataTypes
  <2>5. conn' \in [Keys -> {"none", "pending", "done", "failed"}]
    BY <1>20 DEF UnregDel, DataTypes, kernVars
  <2>6. QED
    BY <1>20, <2>1, <2>2, <2>3, <2>4, <2>5
    DEF UnregDel, DataTypes, lockVars, lifeVars, pendVars, kernVars, pollVars,
        histVars
<1>21. ASSUME NEW t \in Threads, UnregClose(t)
      PROVE  DataTypes'
  BY <1>21
  DEF UnregClose, Goto, DataTypes, lockVars, lifeVars, pendVars, kernVars,
      pollVars, histVars
<1>22. ASSUME NEW t \in Threads, UnregDecrement(t)
      PROVE  DataTypes'
  BY <1>22
  DEF UnregDecrement, Goto, Decrement, DataTypes, lockVars, lifeVars,
      pendVars, kernVars, pollVars, histVars
<1>23. ASSUME NEW t \in Threads, UnregUnlock(t)
      PROVE  DataTypes'
  BY <1>23
  DEF UnregUnlock, Goto, Return, UnlockKey, DataTypes, lockVars, lifeVars,
      pendVars, kernVars, pollVars, histVars
<1>24. ASSUME NEW t \in Threads, RecvTry(t)
      PROVE  DataTypes'
  <2>1. op' \in [Ops -> OpCalls \cup {"none"}]
    BY <1>24 DEF RecvTry, DataTypes, OpCalls
  <2>2. rx' \in [Keys -> Nat]
    BY <1>24 DEF RecvTry, DataTypes
  <2>3. eagain' \in [Threads -> BOOLEAN]
    BY <1>24 DEF RecvTry, DataTypes
  <2>4. outst' \subseteq Ops
    BY <1>24 DEF RecvTry, DataTypes
  <2>5. dropped' \in BOOLEAN
    BY <1>24 DEF RecvTry, DataTypes
  <2>6. QED
    BY <1>24, <2>1, <2>2, <2>3, <2>4, <2>5
    DEF RecvTry, Return, Goto, DataTypes, lockVars, lifeVars, pendVars,
        kernVars, pollVars, histVars
<1>25. ASSUME NEW t \in Threads, SendTry(t)
      PROVE  DataTypes'
  BY <1>25
  DEF SendTry, Goto, Return, DataTypes, lockVars, lifeVars, pendVars,
      kernVars, pollVars, histVars, OpCalls
<1>26. ASSUME NEW t \in Threads, AcceptTry(t)
      PROVE  DataTypes'
  <2>1. op' \in [Ops -> OpCalls \cup {"none"}]
    <3>1. \E x \in {op[call[t].op], "none", "accept"} :
             op' = [op EXCEPT ![call[t].op] = x]
      BY <1>26 DEF AcceptTry
    <3>2. call[t].op \in Ops
      BY <1>26 DEF AcceptTry, FrameInv
    <3>3. QED
      BY <3>1, <3>2 DEF DataTypes, OpCalls
  <2>2. rx' \in [Keys -> Nat]
    BY <1>26 DEF AcceptTry, DataTypes
  <2>3. eagain' \in [Threads -> BOOLEAN]
    BY <1>26 DEF AcceptTry, DataTypes
  <2>4. outst' \subseteq Ops
    BY <1>26 DEF AcceptTry, DataTypes
  <2>5. QED
    BY <1>26, <2>1, <2>2, <2>3, <2>4
    DEF AcceptTry, DataTypes, lockVars, lifeVars, pendVars, kernVars,
        pollVars, histVars
<1>27. ASSUME NEW t \in Threads, QueueOp(t)
      PROVE  DataTypes'
  <2>1. pending' \in [Keys -> [OpCalls -> Seq(Ops)]]
    <3>1. /\ call[t].key \in Keys /\ call[t].op \in Ops
          /\ call[t].kind \in OpCalls
      BY <1>27 DEF QueueOp, FrameInv, ApiPc
    <3>2. pending[call[t].key][call[t].kind] \in Seq(Ops)
      BY <3>1 DEF DataTypes
    <3>3. Append(pending[call[t].key][call[t].kind], call[t].op) \in Seq(Ops)
      BY <3>1, <3>2, AppendProperties
    <3>4. \/ UNCHANGED pending
          \/ pending' = [pending EXCEPT ![call[t].key][call[t].kind] =
                            Append(pending[call[t].key][call[t].kind], call[t].op)]
      BY <1>27 DEF QueueOp
    <3>5. ASSUME NEW l \in OpCalls, NEW k \in Keys, NEW s \in Seq(Ops),
                 pending' = [pending EXCEPT ![k][l] = s]
          PROVE  pending' \in [Keys -> [OpCalls -> Seq(Ops)]]
      BY <3>5 DEF DataTypes
    <3>6. CASE UNCHANGED pending
      BY <3>6 DEF DataTypes
    <3>7. QED
      BY <3>1, <3>3, <3>4, <3>5, <3>6
  <2>2. want_out' \in [Keys -> BOOLEAN]
    BY <1>27, ZenonT(40) DEF QueueOp, DataTypes, Types
  <2>3. outst' \subseteq Ops
    BY <1>27 DEF QueueOp, DataTypes
  <2>4. QED
    BY <1>27, <2>1, <2>2, <2>3
    DEF QueueOp, DataTypes, lockVars, lifeVars, pendVars, kernVars, pollVars,
        histVars
<1>28. ASSUME NEW t \in Threads, ConnectTry(t)
      PROVE  DataTypes'
  BY <1>28, ZenonT(40)
  DEF ConnectTry, Goto, Return, DataTypes, lockVars, lifeVars, pendVars,
      kernVars, pollVars, histVars
<1>29. ASSUME NEW t \in Threads, ConnectQueue(t)
      PROVE  DataTypes'
  <2>1. connecting' \in [Keys -> BOOLEAN]
    BY <1>29 DEF ConnectQueue, DataTypes
  <2>2. connect_due' \in [Keys -> BOOLEAN]
    BY <1>29 DEF ConnectQueue, DataTypes
  <2>3. want_out' \in [Keys -> BOOLEAN]
    <3>1. call[t].key \in Keys
      BY <1>29 DEF ConnectQueue, FrameInv, ApiPc
    <3>2. polled[call[t].key] \in BOOLEAN
      BY <3>1 DEF Types
    <3>3. \/ UNCHANGED want_out
          \/ want_out' = [want_out EXCEPT ![call[t].key] = polled[call[t].key]]
      BY <1>29 DEF ConnectQueue
    <3>4. QED
      BY <3>1, <3>2, <3>3 DEF DataTypes
  <2>4. QED
    BY <1>29, <2>1, <2>2, <2>3
    DEF ConnectQueue, DataTypes, lockVars, lifeVars, pendVars, kernVars,
        pollVars, histVars
<1>30. ASSUME NEW t \in Threads, PostCompletion(t)
      PROVE  DataTypes'
  <2> PICK k \in Keys : k = call[t].key
    BY <1>30 DEF PostCompletion, FrameInv, ApiPc
  <2>1. pending' \in [Keys -> [OpCalls -> Seq(Ops)]]
    <3>1. CASE UNCHANGED pending
      BY <3>1 DEF DataTypes
    <3>2. CASE pending' # pending
      <4>1. PICK l \in OpCalls :
                   /\ On(pending[k][l], call[t].op)
                   /\ pending' = [pending EXCEPT ![k][l] = Without(@, call[t].op)]
        BY <1>30, <3>2 DEF PostCompletion
      <4>2. Without(pending[k][l], call[t].op) \in Seq(Ops)
        BY <4>1, WithoutType DEF DataTypes
      <4>3. QED
        BY <4>1, <4>2 DEF DataTypes
    <3>3. QED
      BY <3>1, <3>2
  <2>2. op' \in [Ops -> OpCalls \cup {"none"}]
    BY <1>30 DEF PostCompletion, DataTypes
  <2>3. QED
    BY <1>30, <2>1, <2>2 DEF PostCompletion, DataTypes, lifeVars, kernVars, histVars
<1>31. ASSUME NEW t \in Threads, Register(t)
      PROVE  DataTypes'
  <2>1. count' \in Nat
    <3>1. count' = count \/ count' = count + 1
      BY <1>31 DEF Register, CountAfterAdd
    <3>2. QED
      BY <3>1 DEF DataTypes
  <2>2. allow_concurrent' \in [Keys -> BOOLEAN]
    BY <1>31 DEF Register, DataTypes, InitKey
  <2>3. pending' \in [Keys -> [OpCalls -> Seq(Ops)]]
    <3>1. \/ UNCHANGED pending
          \/ \E k \in Keys : pending' = [pending EXCEPT ![k] = [l \in OpCalls |-> <<>>]]
      BY <1>31 DEF Register, InitKey, pendVars
    <3>2. [l \in OpCalls |-> <<>>] \in [OpCalls -> Seq(Ops)]
      BY EmptySeq
    <3>3. QED
      BY <3>1, <3>2 DEF DataTypes
  <2>4. connecting' \in [Keys -> BOOLEAN]
    BY <1>31 DEF Register, DataTypes, InitKey, pendVars
  <2>5. rx' \in [Keys -> Nat]
    <3>1. UNCHANGED rx \/ \E k \in Keys : rx' = [rx EXCEPT ![k] = 0]
      BY <1>31 DEF Register, kernVars
    <3>2. QED
      BY <3>1 DEF DataTypes
  <2>6. broken' \subseteq {"free_list", "ref_count", "closing", "count", "send_rc"}
    BY <1>31 DEF Register, DataTypes, InitKey, ScanFails
  <2>7. UNCHANGED <<connect_due, op, want_out, conn, eagain, outst, dropped>>
    BY <1>31 DEF Register, pendVars, kernVars
  <2>8. QED
    BY <2>1, <2>2, <2>3, <2>4, <2>5, <2>6, <2>7 DEF DataTypes
<1>32. ASSUME NEW t \in Threads, NEW k \in Keys, SetConcurrency(t, k)
      PROVE  DataTypes'
  BY <1>32
  DEF SetConcurrency, DataTypes, lockVars, lifeVars, pendVars, kernVars,
      pollVars, histVars
<1>33. ASSUME NEW t \in Threads, NEW c \in KeyCalls, NEW k \in Keys,
              NEW o \in Ops \cup {None},
              BeginCall(t, c, k, o)
      PROVE  DataTypes'
  <2>1. outst' \subseteq Ops
    BY <1>33 DEF BeginCall, DataTypes, OpCalls
  <2>2. QED
    BY <1>33, <2>1
    DEF BeginCall, DataTypes, lockVars, lifeVars, pendVars, kernVars,
        pollVars, histVars
<1>34. ASSUME NEW k \in Keys, Arrive(k)
      PROVE  DataTypes'
  BY <1>34
  DEF Arrive, DataTypes, lockVars, lifeVars, pendVars, kernVars, pollVars,
      histVars
<1>35. ASSUME NEW k \in Keys, ConnectResolves(k)
      PROVE  DataTypes'
  BY <1>35
  DEF ConnectResolves, DataTypes, lockVars, lifeVars, pendVars, kernVars,
      pollVars, histVars
<1>36. ASSUME NEW k \in Keys, FreeDelayPasses(k)
      PROVE  DataTypes'
  BY <1>36
  DEF FreeDelayPasses, DataTypes, lockVars, lifeVars, pendVars, kernVars,
      pollVars, histVars
<1>37. ASSUME NEW k \in Keys, ConnectDelayPasses(k)
      PROVE  DataTypes'
  BY <1>37
  DEF ConnectDelayPasses, DataTypes, lockVars, lifeVars, pendVars, kernVars,
      pollVars, histVars
<1>38. CASE UNCHANGED vars
  BY <1>38 DEF vars, DataTypes, lockVars, lifeVars, pendVars, kernVars,
      pollVars, histVars
<1>39. QED
  BY <1>1, <1>2, <1>3, <1>4, <1>5, <1>6, <1>7, <1>8, <1>9, <1>10, <1>11,
      <1>12, <1>13, <1>14, <1>15, <1>16, <1>17, <1>18, <1>19, <1>20, <1>21,
      <1>22, <1>23, <1>24, <1>25, <1>26, <1>27, <1>28, <1>29, <1>30, <1>31,
      <1>32, <1>33, <1>34, <1>35, <1>36, <1>37, <1>38
  DEF Next, PollStep, CbStep, CallStep, NewCall, Environment

\* The initial state: nothing registered, nothing locked, every thread idle.
LEMMA InitIInv ==
    Init => IInv
<1> SUFFICES ASSUME Init
             PROVE  IInv
  OBVIOUS
<1> USE NoneAssumption DEF Init
<1>1. Types
  BY DEF Types, NoCb, NoCall, CbRecord, CallRecord, PcSet, Lists, EventTypes
<1>2. DataTypes
  <2>1. pending \in [Keys -> [OpCalls -> Seq(Ops)]]
    BY EmptySeq
  <2>2. QED
    BY <2>1, SettingsAssumption DEF DataTypes
<1>3. \A t \in Threads : pc[t] = "idle" /\ cb[t] = NoCb
  OBVIOUS
<1>4. FrameInv
  BY <1>3 DEF FrameInv, NoCbPc, CbPc, ApiPc, UnregPc
<1>5. LockInv
  <2>1. \A t \in Threads, k \in Keys : Depth(t, k) = 0
    BY <1>3 DEF Depth, NoCb, UnregPc
  <2>2. QED
    BY <2>1 DEF LockInv
<1>6. QueueLockInv
  BY <1>3 DEF QueueLockInv, NoCb
<1>7. QueueInv
  BY <1>3 DEF QueueInv, NoCb
<1>8. ListInv
  <2>1. \A t \in Threads, k \in Keys : ~Busy(t, k)
    BY <1>3 DEF Busy, CbPc, ApiPc, UnregPc
  <2>2. QED
    BY <1>3, <2>1 DEF ListInv
<1>9. RefInv
  <2>1. \A k \in Keys : Refs(k) = {} /\ ~Registered(k)
    BY <1>3 DEF Refs, Registered
  <2>2. \A k \in Keys : Cardinality(Refs(k)) = 0
    BY <2>1, FS_EmptySet
  <2>3. QED
    BY <2>1, <2>2 DEF RefInv, RefCountExact, ActiveIffReferenced
<1>10. LifecycleAsserts /\ NoLateLockedCallback
  BY <1>3 DEF LifecycleAsserts, NoLateLockedCallback
<1>11. QED
  BY <1>1, <1>2, <1>4, <1>5, <1>6, <1>7, <1>8, <1>9, <1>10 DEF IInv

\* IInv is inductive.
LEMMA StepIInv ==
    IInv /\ [Next]_vars => IInv'
<1> SUFFICES ASSUME IInv, [Next]_vars
             PROVE  IInv'
  OBVIOUS
<1>1. /\ Types /\ DataTypes /\ FrameInv /\ LockInv /\ QueueLockInv /\ QueueInv
      /\ ListInv /\ RefInv /\ LifecycleAsserts /\ NoLateLockedCallback
  BY DEF IInv
<1>2. [CoreNext]_core
  BY <1>1, CoreStep
<1>3. Types' /\ FrameInv' /\ DataTypes'
  BY <1>1, <1>2, TypesStep, FrameStep, DataStep
<1>4. LockInv' /\ QueueLockInv' /\ QueueInv'
  BY <1>1, <1>2, LockStep, QueueLockStep, QueueStep
<1>5. ListInv' /\ RefInv'
  BY <1>1, <1>2, ListStep, RefStep
<1>6. LifecycleAsserts' /\ NoLateLockedCallback'
  BY <1>1, <1>2, AssertStep, NoLateStep
<1>7. QED
  BY <1>3, <1>4, <1>5, <1>6 DEF IInv

\* IInv holds in every reachable state.
THEOREM Invariance ==
    Spec => []IInv
<1>1. Init => IInv
  BY InitIInv
<1>2. IInv /\ [Next]_vars => IInv'
  BY StepIInv
<1>3. QED
  BY <1>1, <1>2, PTL DEF Spec

----------------------------------------------------------------------------
\* Every variable keeps its type; in particular no interleaving takes
\* ref_count or the recursion depth of a lock below zero.
THEOREM TypeCorrect ==
    Spec => []TypeOK
<1>1. IInv => TypeOK
  <2> SUFFICES ASSUME IInv
               PROVE  TypeOK
    OBVIOUS
  <2>1. Types /\ DataTypes /\ LockInv /\ RefInv
    BY DEF IInv
  <2>2. kdepth \in [Keys -> Nat]
    <3>1. \A k \in Keys : kdepth[k] = 0 \/ kdepth[k] > 0
      BY <2>1 DEF LockInv
    <3>2. QED
      BY <2>1, <3>1 DEF Types
  <2>3. ref_count \in [Keys -> Nat]
    <3>1. \A k \in Keys : ref_count[k] \in Nat
      BY <2>1, RefsFinite DEF RefInv, RefCountExact
    <3>2. QED
      BY <2>1, <3>1 DEF Types
  <2>4. QED
    BY <2>1, <2>2, <2>3 DEF TypeOK, Types, DataTypes
<1>2. QED
  BY <1>1, Invariance, PTL

\* increment_counter and decrement_counter keep ref_count equal to the
\* number of parties that refer to the key.
THEOREM RefCountIsExact ==
    Spec => []RefCountExact
<1>1. IInv => RefCountExact
  BY DEF IInv, RefInv
<1>2. QED
  BY <1>1, Invariance, PTL

\* A key leaves the active list when, and only when, nobody refers to it.
THEOREM NoEarlyRecycling ==
    Spec => []ActiveIffReferenced
<1>1. IInv => ActiveIffReferenced
  BY DEF IInv, RefInv
<1>2. QED
  BY <1>1, Invariance, PTL

\* The assertions of decrement_counter, scan_closing_keys and
\* ioqueue_init_key never fail.
THEOREM AssertionsHold ==
    Spec => []LifecycleAsserts
<1>1. IInv => LifecycleAsserts
  BY DEF IInv
<1>2. QED
  BY <1>1, Invariance, PTL

\* With callbacks under the key's lock, none starts on a closed key.
THEOREM LockedCallbacksInTime ==
    Spec => []NoLateLockedCallback
<1>1. IInv => NoLateLockedCallback
  BY DEF IInv
<1>2. QED
  BY <1>1, Invariance, PTL

\* pj_ioqueue_register_sock2 never gives a new socket to a key that a poller
\* has collected and not yet dispatched.
THEOREM SocketsAreStable ==
    Spec => HeldKeyKeepsSocket
<1> DEFINE Stable == \A k \in Keys : Refs(k) # {} => fd'[k] = fd[k]
<1>1. IInv /\ [Next]_vars => [Stable]_vars
  <2> SUFFICES ASSUME IInv, [Next]_vars
               PROVE  Stable
    OBVIOUS
  <2>1. Types /\ RefInv /\ [CoreNext]_core
    BY CoreStep DEF IInv
  <2>2. ASSUME NEW t \in Threads, CorePoll(t)
        PROVE  UNCHANGED fd
    BY <2>2 DEF CorePoll, WaitEvents, PollMove, PollLock, PollUnlock, PollDecrement,
        Decrement, PollReturn, PollScan, WalkBegin, ConnectTimeoutEnd, Collect,
        WalkSkip, DispatchNothing, WalkCb, DispatchCb, Deliver, lifeVars, keyVars
  <2>3. ASSUME NEW t \in Threads, CbStep(t) \/ CoreCall(t)
        PROVE  UNCHANGED fd
    BY <2>3 DEF CbStep, CbCheck, CbEnter, CbReturn, CbEnd, CoreCall, UnregLock,
        UnregDelOk, UnregDelFail, UnregClose, UnregDecrement, Decrement,
        UnregUnlock, CallMove, PostCb, Begin, lifeVars, keyVars
  <2>4. ASSUME NEW k \in Keys, NEW n \in Nat, NEW added \in BOOLEAN,
               RegisterKey(k, n, added)
        PROVE  Stable
    <3>1. list[k] \notin {"active", "lost"}
      BY <2>4 DEF RegisterKey, Scanned
    <3>2. Refs(k) = {}
      BY <2>1, <3>1 DEF RefInv, ActiveIffReferenced
    <3>3. QED
      BY <2>1, <2>4, <3>2 DEF RegisterKey, Types
  <2>5. CASE RegisterScan \/ UNCHANGED core \/ \E k \in Keys :
           FreeDelayPasses(k)
    BY <2>5 DEF RegisterScan, core, FreeDelayPasses
  <2>6. QED
    BY <2>1, <2>2, <2>3, <2>4, <2>5 DEF CoreNext
<1>2. QED
  BY <1>1, Invariance, PTL DEF Spec, HeldKeyKeepsSocket
=============================================================================
