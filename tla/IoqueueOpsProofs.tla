-------------------------- MODULE IoqueueOpsProofs --------------------------
(***************************************************************************)
(* Proofs about Ioqueue that build on IoqueueProofs!IInv: the number of    *)
(* sockets in the epoll set, the interest in EPOLLOUT, the absence of      *)
(* deadlock and the custody of the submitted operations.  Each holds under *)
(* a condition on how the application uses the queue, which its theorem    *)
(* states as a hypothesis.                                                 *)
(***************************************************************************)
EXTENDS IoqueueProofs

----------------------------------------------------------------------------
(***************************************************************************)
(* ioqueue->count.                                                         *)
(***************************************************************************)
Polled == {k \in Keys : polled[k]}

\* A registered key is in the epoll set until its unregistration took it out.
PolledInv ==
    \A k \in Keys :
        list[k] = "active" /\ ~closing[k] =>
            polled[k] \/ \E t \in Threads : pc[t] = "unreg_close" /\ call[t].key = k

\* The assertion of pj_ioqueue_unregister, too: count > 0.
CountInv == PolledInv /\ CountExact /\ "count" \notin broken

\* Only these two actions touch the epoll set and its size.
LEMMA CountFrame ==
    [Next]_vars => \/ \E t \in Threads : Register(t) \/ UnregDel(t)
                   \/ UNCHANGED <<count, polled>>
<1> SUFFICES ASSUME [Next]_vars, ~(\E t \in Threads : Register(t) \/ UnregDel(t))
             PROVE  UNCHANGED <<count, polled>>
  OBVIOUS
<1> USE DEF lifeVars, kernVars
<1>1. ASSUME NEW t \in Threads, PollStep(t)
      PROVE  UNCHANGED <<count, polled>>
  BY <1>1 DEF PollStep, PollWait, PollLock, PollUnlock, PollDecrement, PollReturn,
     PollScan, ConnectTimeoutBegin, ConnectTimeoutEnd, Collect, DispatchNothing,
     DispatchRead, DispatchWrite, DispatchConnect, ConnectTimeoutKey, Decrement
<1>2. ASSUME NEW t \in Threads, CbStep(t)
      PROVE  UNCHANGED <<count, polled>>
  BY <1>2 DEF CbStep, CbCheck, CbEnter, CbReturn, CbEnd
<1>3. ASSUME NEW t \in Threads, CallStep(t)
      PROVE  UNCHANGED <<count, polled>>
  BY <1>3 DEF CallStep, UnregLock, UnregClose, UnregDecrement, UnregUnlock,
     RecvTry, SendTry, AcceptTry, QueueOp, ConnectTry, ConnectQueue,
     PostCompletion, Decrement
<1>4. ASSUME NEW t \in Threads, NewCall(t)
      PROVE  UNCHANGED <<count, polled>>
  BY <1>4 DEF NewCall, SetConcurrency, BeginCall
<1>5. CASE Environment
  BY <1>5 DEF Environment, Arrive, ConnectResolves, FreeDelayPasses, ConnectDelayPasses
<1>6. CASE UNCHANGED vars
  BY <1>6 DEF vars
<1>7. QED
  BY <1>1, <1>2, <1>3, <1>4, <1>5, <1>6 DEF Next

\* The other actions do not touch the assertion about the count.
LEMMA CountAssertFrame ==
    [Next]_vars /\ "count" \notin broken /\ ~(\E t \in Threads : UnregDel(t))
        => "count" \notin broken'
<1> SUFFICES ASSUME [Next]_vars, ~(\E t \in Threads : UnregDel(t)),
                    "count" \notin broken
             PROVE  "count" \notin broken'
  OBVIOUS
<1> USE DEF histVars
<1>1. ASSUME NEW t \in Threads, PollStep(t)
      PROVE  "count" \notin broken'
  <2>1. CASE \/ PollWait(t) \/ PollLock(t) \/ PollUnlock(t) \/ PollDecrement(t)
             \/ PollReturn(t) \/ PollScan(t)
             \/ ConnectTimeoutBegin(t) \/ ConnectTimeoutEnd(t)
    BY <2>1 DEF PollWait, PollLock, PollUnlock, PollDecrement, PollReturn,
       PollScan, ScanFails, ConnectTimeoutBegin, ConnectTimeoutEnd, Decrement
  <2>2. ASSUME NEW k \in Keys,
               \/ Collect(t, k) \/ DispatchNothing(t, k) \/ DispatchRead(t, k)
               \/ DispatchWrite(t, k) \/ DispatchConnect(t, k) \/ ConnectTimeoutKey(t, k)
        PROVE  "count" \notin broken'
    BY <2>2 DEF Collect, DispatchNothing, DispatchRead, DispatchWrite,
       DispatchConnect, ConnectTimeoutKey
  <2>3. QED
    BY <1>1, <2>1, <2>2 DEF PollStep
<1>2. ASSUME NEW t \in Threads, CbStep(t)
      PROVE  "count" \notin broken'
  BY <1>2 DEF CbStep, CbCheck, CbEnter, CbReturn, CbEnd
<1>3. ASSUME NEW t \in Threads, CallStep(t)
      PROVE  "count" \notin broken'
  <2>1. CASE UnregDecrement(t)
    BY <2>1 DEF UnregDecrement, Decrement
  <2>2. CASE RecvTry(t) \/ SendTry(t) \/ AcceptTry(t) \/ QueueOp(t)
    BY <2>2 DEF RecvTry, SendTry, AcceptTry, QueueOp
  <2>3. QED
    BY <1>3, <2>1, <2>2 DEF CallStep, UnregLock, UnregClose, UnregUnlock,
       ConnectTry, ConnectQueue, PostCompletion
<1>4. ASSUME NEW t \in Threads, NewCall(t)
      PROVE  "count" \notin broken'
  <2>1. CASE Register(t)
    <3>1. "count" \notin ScanFails
      BY DEF ScanFails
    <3>2. \/ broken' = broken \cup ScanFails \cup {"free_list"}
          \/ \E k \in Keys : broken' = broken \cup ScanFails
                \cup (IF ref_count[k] = 0 THEN {} ELSE {"ref_count"})
      BY <2>1 DEF Register, InitKey
    <3>3. QED
      BY <3>1, <3>2
  <2>2. QED
    BY <1>4, <2>1 DEF NewCall, SetConcurrency, BeginCall
<1>5. CASE Environment
  BY <1>5 DEF Environment, Arrive, ConnectResolves, FreeDelayPasses, ConnectDelayPasses
<1>6. CASE UNCHANGED vars
  BY <1>6 DEF vars
<1>7. QED
  BY <1>1, <1>2, <1>3, <1>4, <1>5, <1>6 DEF Next

LEMMA PolledStep ==
    IInv /\ PolledInv /\ [Next]_vars => PolledInv'
<1> SUFFICES ASSUME IInv, PolledInv, [Next]_vars, NEW k \in Keys,
                    list'[k] = "active", ~closing'[k]
             PROVE  \/ polled'[k]
                    \/ \E t \in Threads : pc'[t] = "unreg_close" /\ call'[t].key = k
  BY DEF PolledInv
<1>1. /\ Types /\ FrameInv /\ ListInv /\ [CoreNext]_core
  BY CoreStep DEF IInv
<1> USE DEF Types
<1>2. ASSUME UNCHANGED <<polled, closing>>, list'[k] = "active" => list[k] = "active",
             \A t \in Threads : pc[t] = "unreg_close" =>
                 pc'[t] = pc[t] /\ call'[t] = call[t]
      PROVE  \/ polled'[k]
             \/ \E t \in Threads : pc'[t] = "unreg_close" /\ call'[t].key = k
  BY <1>2 DEF PolledInv
<1>3. ASSUME NEW t \in Threads, CorePoll(t)
      PROVE  /\ UNCHANGED <<polled, closing>>
             /\ list'[k] = "active" => list[k] = "active"
             /\ \A u \in Threads : pc[u] = "unreg_close" =>
                    pc'[u] = pc[u] /\ call'[u] = call[u]
  BY <1>1, <1>3 DEF CorePoll, WaitEvents, PollMove, PollLock, PollUnlock,
     PollDecrement, Decrement, PollReturn, PollScan, Scanned, WalkBegin,
     ConnectTimeoutEnd, Collect, WalkSkip, DispatchNothing, WalkCb, DispatchCb,
     Deliver, lifeVars, keyVars, kernVars, Goto
<1>4. ASSUME NEW t \in Threads, CbStep(t)
      PROVE  /\ UNCHANGED <<polled, closing, list>>
             /\ \A u \in Threads : pc[u] = "unreg_close" =>
                    pc'[u] = pc[u] /\ call'[u] = call[u]
  BY <1>1, <1>4 DEF CbStep, CbCheck, CbEnter, CbReturn, CbEnd, lifeVars, kernVars, Goto
<1>5. ASSUME NEW t \in Threads, CoreCall(t), ~UnregDelOk(t), ~UnregClose(t)
      PROVE  /\ UNCHANGED <<polled, closing>>
             /\ list'[k] = "active" => list[k] = "active"
             /\ \A u \in Threads : pc[u] = "unreg_close" =>
                    pc'[u] = pc[u] /\ call'[u] = call[u]
  BY <1>1, <1>5 DEF CoreCall, UnregLock, UnregDelFail, UnregDecrement, Decrement,
     UnregUnlock, CallMove, PostCb, Begin, lifeVars, keyVars, kernVars, Goto, Return
<1>6. ASSUME NEW t \in Threads, UnregDelOk(t)
      PROVE  \/ polled'[k]
             \/ \E u \in Threads : pc'[u] = "unreg_close" /\ call'[u].key = k
  BY <1>1, <1>6 DEF UnregDelOk, Goto, PolledInv, FrameInv
<1>7. ASSUME NEW t \in Threads, UnregClose(t)
      PROVE  \/ polled'[k]
             \/ \E u \in Threads : pc'[u] = "unreg_close" /\ call'[u].key = k
  BY <1>1, <1>7 DEF UnregClose, Goto, PolledInv, kernVars
<1>8. CASE RegisterScan \/ UNCHANGED core \/ \E j \in Keys : FreeDelayPasses(j)
  <2>1. UNCHANGED <<polled, closing, pc, call>> /\ (list'[k] = "active" => list[k] = "active")
    BY <1>1, <1>8 DEF RegisterScan, Scanned, core, FreeDelayPasses, kernVars
  <2>2. QED
    BY <2>1 DEF PolledInv
<1>9. ASSUME NEW j \in Keys, NEW n \in Nat, NEW added \in BOOLEAN,
             RegisterKey(j, n, added)
      PROVE  \/ polled'[k]
             \/ \E u \in Threads : pc'[u] = "unreg_close" /\ call'[u].key = k
  BY <1>1, <1>9 DEF RegisterKey, Scanned, PolledInv
<1>10. ASSUME NEW t \in Threads, CorePoll(t) \/ CbStep(t) \/ CoreCall(t)
       PROVE  \/ polled'[k]
              \/ \E u \in Threads : pc'[u] = "unreg_close" /\ call'[u].key = k
  <2>1. CASE CorePoll(t)
    BY <1>2, <1>3, <2>1
  <2>2. CASE CbStep(t)
    BY <1>2, <1>4, <2>2
  <2>3. CASE CoreCall(t) /\ ~UnregDelOk(t) /\ ~UnregClose(t)
    BY <1>2, <1>5, <2>3
  <2>4. QED
    BY <1>6, <1>7, <1>10, <2>1, <2>2, <2>3
<1>11. QED
  BY <1>1, <1>8, <1>9, <1>10 DEF CoreNext

\* One step keeps the count exact, when EPOLL_CTL_DEL does not fail.
LEMMA CountStep ==
    ASSUME "del" \notin Faults
    PROVE  IInv /\ CountInv /\ [Next]_vars => CountInv'
<1> SUFFICES ASSUME IInv, CountInv, [Next]_vars
             PROVE  CountInv'
  OBVIOUS
<1>1. /\ Types /\ DataTypes /\ FrameInv /\ LockInv /\ ListInv
      /\ PolledInv /\ "count" \notin broken /\ count = Cardinality(Polled)
  BY DEF IInv, CountInv, CountExact, Polled
<1>2. PolledInv'
  BY PolledStep DEF CountInv
<1>3. IsFiniteSet(Polled) /\ Cardinality(Polled) \in Nat
  BY KeysAssumption, FS_Subset, FS_CardinalityType DEF Polled
<1>4. ASSUME NEW t \in Threads, Register(t)
      PROVE  count' = Cardinality(Polled')
  <2>1. CASE UNCHANGED <<count, polled>>
    BY <1>1, <2>1 DEF Polled
  <2>2. ASSUME NEW k \in Keys, Scanned[k] = "free", NEW added \in BOOLEAN,
               count' = CountAfterAdd(added), polled' = [polled EXCEPT ![k] = added]
        PROVE  count' = Cardinality(Polled')
    <3>1. k \notin Polled
      BY <1>1, <2>2 DEF Scanned, Polled, ListInv, Types
    <3>2. Polled' = IF added THEN Polled \cup {k} ELSE Polled
      BY <1>1, <2>2, <3>1 DEF Polled, Types
    <3>3. QED
      BY <1>1, <1>3, <2>2, <3>1, <3>2, FS_AddElement DEF CountAfterAdd
  <2>3. QED
    BY <1>4, <2>1, <2>2 DEF Register, kernVars
<1>5. ASSUME NEW t \in Threads, UnregDel(t)
      PROVE  count' = Cardinality(Polled') /\ "count" \notin broken'
  <2> DEFINE k == call[t].key
  <2>1. pc[t] = "unreg_del" /\ k \in Keys
    BY <1>1, <1>5 DEF UnregDel, FrameInv, ApiPc, UnregPc
  <2>2. list[k] = "active" /\ ~closing[k]
    BY <1>1, <2>1 DEF ListInv
  <2>3. k \in Polled
    <3>1. ASSUME NEW u \in Threads, pc[u] = "unreg_close", call[u].key = k
          PROVE  FALSE
      <4>1. pc[t] \in UnregPc /\ pc[u] \in UnregPc
        BY <2>1, <3>1 DEF UnregPc
      <4>2. u = t
        BY <1>1, <2>1, <3>1, <4>1, UnregAlone
      <4>3. QED
        BY <2>1, <3>1, <4>2
    <3>2. QED
      BY <1>1, <2>1, <2>2, <3>1 DEF PolledInv, Polled
  <2>4. Polled' = Polled \ {k}
    BY <1>1, <1>5, <2>1 DEF UnregDel, Polled, Types
  <2>5. Cardinality(Polled \ {k}) = Cardinality(Polled) - 1
    BY <1>3, <2>3, FS_RemoveElement
  <2>6. Cardinality(Polled) > 0
    BY <1>3, <2>3, FS_EmptySet
  <2>7. QED
    BY <1>1, <1>3, <1>5, <2>4, <2>5, <2>6 DEF UnregDel, CountAfterDel
<1>6. count' = Cardinality(Polled')
  <2>1. CASE UNCHANGED <<count, polled>>
    BY <1>1, <2>1 DEF Polled
  <2>2. QED
    BY <1>4, <1>5, <2>1, CountFrame
<1>7. "count" \notin broken'
  BY <1>1, <1>5, CountAssertFrame
<1>8. QED
  BY <1>2, <1>6, <1>7 DEF CountInv, CountExact, Polled

\* ioqueue->count is the number of sockets in the epoll set, and the assertion
\* count > 0 of pj_ioqueue_unregister holds, when EPOLL_CTL_DEL never fails on
\* a socket that is in the set.
THEOREM CountIsExact ==
    ASSUME "del" \notin Faults
    PROVE  Spec => [](CountExact /\ "count" \notin broken)
<1>1. Init => CountInv
  <2> SUFFICES ASSUME Init PROVE CountInv
    OBVIOUS
  <2>1. Polled = {} /\ count = 0 /\ broken = {}
    BY DEF Init, Polled
  <2>2. PolledInv
    BY DEF Init, PolledInv
  <2>3. QED
    BY <2>1, <2>2, FS_EmptySet DEF CountInv, CountExact, Polled
<1>2. IInv /\ CountInv /\ [Next]_vars => CountInv'
  BY CountStep
<1>3. CountInv => CountExact /\ "count" \notin broken
  BY DEF CountInv
<1>4. QED
  BY <1>1, <1>2, <1>3, Invariance, PTL DEF Spec

----------------------------------------------------------------------------
(***************************************************************************)
(* EPOLLOUT.  A connect that ends takes EPOLLOUT out of the interest set   *)
(* whether or not a write is pending, so the claim is about applications   *)
(* that do not connect.                                                    *)
(***************************************************************************)
NoConnects ==
    "connect" \notin CbCalls /\ \A t \in Threads : "connect" \notin Calls[t]

ConnectPc == {"connect", "connect_lock"}
NeverConnecting == /\ \A k \in Keys : ~connecting[k]
                   /\ \A t \in Threads : pc[t] \notin ConnectPc

LEMMA NeverConnectingStep ==
    ASSUME NoConnects
    PROVE  IInv /\ NeverConnecting /\ [Next]_vars => NeverConnecting'
<1> SUFFICES ASSUME IInv, NeverConnecting, [Next]_vars
             PROVE  NeverConnecting'
  OBVIOUS
<1>1. /\ pc \in [Threads -> PcSet] /\ call \in [Threads -> CallRecord]
      /\ cb \in [Threads -> CbRecord] /\ connecting \in [Keys -> BOOLEAN]
  BY DEF IInv, Types, DataTypes
<1> USE DEF pendVars
<1>2. ASSUME NEW t \in Threads, PollStep(t)
      PROVE  NeverConnecting'
  <2>1. UNCHANGED connecting \/ \E k \in Keys : connecting' = [connecting EXCEPT ![k] = FALSE]
    BY <1>2 DEF PollStep, PollWait, PollLock, PollUnlock, PollDecrement, PollReturn,
       PollScan, ConnectTimeoutBegin, ConnectTimeoutEnd, Collect, DispatchNothing,
       DispatchRead, DispatchWrite, DispatchConnect, ConnectTimeoutKey
  <2>2. \/ UNCHANGED pc
        \/ \E c \in {"idle", "pollevents", "collect", "dispatch", "dec", "polltimeout",
                     "pollconnect", "ctloop", "cbcheck"} : Goto(t, c)
    BY <1>2 DEF PollStep, PollWait, PollLock, PollUnlock, PollDecrement, PollReturn,
       PollScan, ConnectTimeoutBegin, ConnectTimeoutEnd, Collect, DispatchNothing,
       DispatchRead, DispatchWrite, DispatchConnect, ConnectTimeoutKey
  <2>3. QED
    BY <1>1, <2>1, <2>2 DEF NeverConnecting, ConnectPc, Goto
<1>3. ASSUME NEW t \in Threads, CbStep(t)
      PROVE  NeverConnecting'
  <2>1. cb[t].then \in {"idle", "dec", "ctloop"}
    BY <1>1 DEF CbRecord
  <2>2. QED
    BY <1>1, <1>3, <2>1 DEF CbStep, CbCheck, CbEnter, CbReturn, CbEnd, Goto,
       NeverConnecting, ConnectPc
<1>4. ASSUME NEW t \in Threads, CallStep(t)
      PROVE  NeverConnecting'
  <2>1. call[t].ret \in {"idle", "cbend"}
    BY <1>1 DEF CallRecord
  <2>2. UNCHANGED connecting
    BY <1>4 DEF CallStep, UnregLock, UnregDel, UnregClose, UnregDecrement,
       UnregUnlock, RecvTry, SendTry, AcceptTry, QueueOp, ConnectTry, ConnectQueue,
       PostCompletion, NeverConnecting, ConnectPc
  <2>3. \E c \in {"idle", "cbend", "queue_op", "cbenter"} \cup UnregPc : Goto(t, c)
    <3>1. CASE \/ UnregLock(t) \/ UnregDel(t) \/ UnregClose(t) \/ UnregDecrement(t)
               \/ UnregUnlock(t) \/ QueueOp(t) \/ PostCompletion(t)
      BY <2>1, <3>1 DEF UnregLock, UnregDel, UnregClose, UnregDecrement, UnregUnlock,
         QueueOp, PostCompletion, Return, UnregPc
    <3>2. CASE RecvTry(t) \/ SendTry(t) \/ AcceptTry(t)
      BY <2>1, <3>2 DEF RecvTry, SendTry, AcceptTry, Return
    <3>3. QED
      BY <1>4, <3>1, <3>2 DEF CallStep, ConnectTry, ConnectQueue, NeverConnecting, ConnectPc
  <2>4. QED
    BY <1>1, <2>2, <2>3 DEF NeverConnecting, ConnectPc, UnregPc, Goto
<1>5. ASSUME NEW t \in Threads, NewCall(t)
      PROVE  NeverConnecting'
  <2>1. CASE Register(t)
    <3>1. UNCHANGED connecting \/ \E k \in Keys : connecting' = [connecting EXCEPT ![k] = FALSE]
      BY <2>1 DEF Register, InitKey
    <3>2. UNCHANGED pc
      BY <2>1 DEF Register
    <3>3. QED
      BY <1>1, <3>1, <3>2 DEF NeverConnecting, ConnectPc
  <2>2. ASSUME NEW c \in KeyCalls, NEW k \in Keys, NEW o \in Ops \cup {None},
               BeginCall(t, c, k, o)
        PROVE  NeverConnecting'
    <3>1. c \notin ConnectPc /\ Goto(t, c) /\ UNCHANGED connecting
      BY <2>2 DEF BeginCall, NoConnects, KeyCalls, OpCalls, ConnectPc
    <3>2. QED
      BY <1>1, <3>1 DEF Goto, NeverConnecting
  <2>3. QED
    BY <1>5, <2>1, <2>2 DEF NewCall, SetConcurrency, NeverConnecting
<1>6. CASE Environment
  BY <1>6 DEF Environment, Arrive, ConnectResolves, FreeDelayPasses,
     ConnectDelayPasses, NeverConnecting
<1>7. CASE UNCHANGED vars
  BY <1>7 DEF vars, NeverConnecting
<1>8. QED
  BY <1>2, <1>3, <1>4, <1>5, <1>6, <1>7 DEF Next

\* Which steps touch what PendingWriteIsPolled is about.
writeVars == <<polled, pending, want_out>>

LEMMA WriteFrame ==
    ASSUME NeverConnecting, [Next]_vars
    PROVE  \/ UNCHANGED writeVars
           \/ \E t \in Threads :
                 \/ Register(t) \/ UnregDel(t) \/ QueueOp(t) \/ PostCompletion(t)
                 \/ \E k \in Keys : DispatchRead(t, k) \/ DispatchWrite(t, k)
<1> USE DEF pendVars, kernVars, writeVars
<1>1. ASSUME NEW t \in Threads, PollStep(t),
             ~(\E k \in Keys : DispatchRead(t, k) \/ DispatchWrite(t, k))
      PROVE  UNCHANGED writeVars
  BY <1>1 DEF PollStep, PollWait, PollLock, PollUnlock, PollDecrement, PollReturn,
     PollScan, ConnectTimeoutBegin, ConnectTimeoutEnd, Collect, DispatchNothing,
     DispatchConnect, ConnectTimeoutKey, NeverConnecting
<1>2. ASSUME NEW t \in Threads, CbStep(t)
      PROVE  UNCHANGED writeVars
  BY <1>2 DEF CbStep, CbCheck, CbEnter, CbReturn, CbEnd
<1>3. ASSUME NEW t \in Threads, CallStep(t), ~UnregDel(t), ~QueueOp(t),
             ~PostCompletion(t)
      PROVE  UNCHANGED writeVars
  BY <1>3 DEF CallStep, UnregLock, UnregClose, UnregDecrement, UnregUnlock,
     RecvTry, SendTry, AcceptTry, ConnectTry, ConnectQueue, NeverConnecting,
     ConnectPc
<1>4. ASSUME NEW t \in Threads, NewCall(t), ~Register(t)
      PROVE  UNCHANGED writeVars
  BY <1>4 DEF NewCall, SetConcurrency, BeginCall
<1>5. CASE Environment
  BY <1>5 DEF Environment, Arrive, ConnectResolves, FreeDelayPasses, ConnectDelayPasses
<1>6. CASE UNCHANGED vars
  BY <1>6 DEF vars
<1>7. QED
  BY <1>1, <1>2, <1>3, <1>4, <1>5, <1>6 DEF Next

LEMMA WriteStep ==
    ASSUME IInv, NeverConnecting, PendingWriteIsPolled, [Next]_vars
    PROVE  PendingWriteIsPolled'
<1>1. /\ polled \in [Keys -> BOOLEAN] /\ want_out \in [Keys -> BOOLEAN]
      /\ pending \in [Keys -> [OpCalls -> Seq(Ops)]] /\ Types /\ FrameInv
  BY DEF IInv, Types, DataTypes
<1>2. ASSUME NEW t \in Threads, Register(t)
      PROVE  PendingWriteIsPolled'
  <2>1. CASE UNCHANGED writeVars
    BY <2>1 DEF PendingWriteIsPolled, writeVars
  <2>2. ASSUME NEW k \in Keys, InitKey(k), UNCHANGED want_out,
               NEW added, polled' = [polled EXCEPT ![k] = added]
        PROVE  PendingWriteIsPolled'
    BY <1>1, <2>2 DEF InitKey, PendingWriteIsPolled, OpCalls
  <2>3. QED
    BY <1>2, <2>1, <2>2 DEF Register, pendVars, kernVars, writeVars
<1>3. ASSUME NEW t \in Threads, UnregDel(t)
      PROVE  PendingWriteIsPolled'
  BY <1>1, <1>3 DEF UnregDel, PendingWriteIsPolled, pendVars, kernVars
<1>4. ASSUME NEW t \in Threads, QueueOp(t)
      PROVE  PendingWriteIsPolled'
  <2> DEFINE k == call[t].key
             o == call[t].op
             l == call[t].kind
  <2>1. k \in Keys /\ l \in OpCalls
    BY <1>1, <1>4 DEF QueueOp, FrameInv, ApiPc
  <2>2. CASE UNCHANGED <<pending, want_out>>
    BY <1>4, <2>2 DEF QueueOp, PendingWriteIsPolled
  <2>3. CASE /\ pending' = [pending EXCEPT ![k][l] = Append(@, o)]
             /\ want_out' = [want_out EXCEPT ![k] = @ \/ (l = "send" /\ polled[k])]
    <3>1. UNCHANGED polled
      BY <1>4 DEF QueueOp
    <3>2. QED
      BY <1>1, <2>1, <2>3, <3>1 DEF PendingWriteIsPolled, OpCalls
  <2>4. QED
    BY <1>4, <2>2, <2>3 DEF QueueOp
<1>5. ASSUME NEW t \in Threads, PostCompletion(t)
      PROVE  PendingWriteIsPolled'
  <2>1. UNCHANGED <<polled, want_out>>
    BY <1>5 DEF PostCompletion, kernVars
  <2>2. ASSUME NEW k \in Keys, pending'[k]["send"] # <<>>
        PROVE  pending[k]["send"] # <<>>
    <3>1. CASE UNCHANGED pending
      BY <2>2, <3>1
    <3>2. ASSUME NEW l \in OpCalls, On(pending[call[t].key][l], call[t].op),
                 pending' = [pending EXCEPT ![call[t].key][l] =
                                Without(@, call[t].op)]
          PROVE  pending[k]["send"] # <<>>
      <4>1. call[t].key \in Keys
        BY <1>1, <1>5 DEF PostCompletion, FrameInv, ApiPc
      <4>2. pending[call[t].key][l] # <<>>
        BY <3>2 DEF On
      <4>3. CASE k # call[t].key \/ l # "send"
        BY <1>1, <2>2, <3>2, <4>1, <4>3 DEF OpCalls
      <4>4. QED
        BY <4>2, <4>3
    <3>3. QED
      BY <1>5, <3>1, <3>2 DEF PostCompletion
  <2>3. QED
    BY <2>1, <2>2 DEF PendingWriteIsPolled
<1>6. ASSUME NEW t \in Threads, NEW k \in Keys, DispatchRead(t, k)
      PROVE  PendingWriteIsPolled'
  <2>1. PICK l \in {"accept", "recv"} :
            pending' = [pending EXCEPT ![k][l] = Tail(@)]
    BY <1>6 DEF DispatchRead
  <2>2. \A j \in Keys : pending'[j]["send"] = pending[j]["send"]
    BY <1>1, <2>1 DEF OpCalls
  <2>3. QED
    BY <1>6, <2>2 DEF DispatchRead, PendingWriteIsPolled
<1>7. ASSUME NEW t \in Threads, NEW k \in Keys, DispatchWrite(t, k)
      PROVE  PendingWriteIsPolled'
  <2> DEFINE rest == Tail(pending[k]["send"])
  <2>1. /\ pending' = [pending EXCEPT ![k]["send"] = rest] /\ UNCHANGED polled
        /\ want_out' = [want_out EXCEPT ![k] = want_out[k] /\ rest # <<>>]
        /\ pending[k]["send"] # <<>>
    BY <1>7 DEF DispatchWrite, OutKept
  <2>2. QED
    BY <1>1, <2>1 DEF PendingWriteIsPolled, OpCalls
<1>8. CASE UNCHANGED writeVars
  BY <1>8 DEF writeVars, PendingWriteIsPolled
<1>9. QED
  BY <1>2, <1>3, <1>4, <1>5, <1>6, <1>7, <1>8, WriteFrame

\* A socket with a pending write has EPOLLOUT in its interest set, whatever
\* sends, dispatches and unregistrations interleave, in an application that
\* makes no connect.
THEOREM PendingWritesArePolled ==
    ASSUME NoConnects
    PROVE  Spec => []PendingWriteIsPolled
<1>1. Init => NeverConnecting /\ PendingWriteIsPolled
  BY DEF Init, NeverConnecting, ConnectPc, PendingWriteIsPolled
<1>2. IInv /\ NeverConnecting /\ PendingWriteIsPolled /\ [Next]_vars
        => NeverConnecting' /\ PendingWriteIsPolled'
  BY NeverConnectingStep, WriteStep
<1>3. QED
  BY <1>1, <1>2, Invariance, PTL DEF Spec

----------------------------------------------------------------------------
(***************************************************************************)
(* Deadlock.  ioqueue_connect_timeout runs callbacks under ioqueue->lock,  *)
(* which is not recursive: a callback that unregisters its key, or that    *)
(* waits for a key's lock it does not hold itself, can block for ever.     *)
(* Callbacks are harmless if they call nothing, or if they do not          *)
(* unregister and always run under their key's lock.                       *)
(***************************************************************************)
LockedCallbacks ==
    /\ "unregister" \notin CbCalls
    /\ ~Concurrent
    /\ \A t \in Threads : "set_concurrency" \notin Calls[t]

HarmlessCallbacks == CbCalls = {} \/ LockedCallbacks

\* Who holds ioqueue->lock.
HolderInv ==
    \A t \in Threads :
        qlock = t => pc[t] \in {"collect", "ctloop"} \/ cb[t].then = "ctloop"

\* A call made by a callback is about the callback's key.
NestedInv ==
    \A t \in Threads :
        pc[t] \in ApiPc /\ call[t].ret = "cbend" =>
            /\ call[t].key = cb[t].key
            /\ CbCalls # {}
            /\ pc[t] \notin UnregPc \cup {"unregister"}

\* Callbacks that make calls hold their key's lock.
CbLockInv ==
    CbCalls # {} =>
        /\ \A k \in Keys : ~allow_concurrent[k]
        /\ \A t \in Threads : cb[t].then # "idle" => cb[t].has_lock

WaitInv == HolderInv /\ NestedInv /\ CbLockInv

LEMMA HolderStep ==
    ASSUME Types, FrameInv, HolderInv, [CoreNext]_core
    PROVE  HolderInv'
<1> USE DEF Types
<1>1. ASSUME NEW t \in Threads,
             /\ \A u \in Threads \ {t} : pc'[u] = pc[u] /\ cb'[u] = cb[u]
             /\ qlock' = qlock \/ qlock' = None
             /\ qlock' = t => pc'[t] \in {"collect", "ctloop"} \/ cb'[t].then = "ctloop"
      PROVE  HolderInv'
  BY <1>1, NoneAssumption DEF HolderInv
<1>2. ASSUME NEW t \in Threads, PollLock(t) \/ WalkBegin(t)
      PROVE  HolderInv'
  BY <1>2, NoneAssumption DEF PollLock, WalkBegin, Goto, HolderInv
<1>3. ASSUME NEW t \in Threads, CorePoll(t), ~PollLock(t), ~WalkBegin(t)
      PROVE  HolderInv'
  <2>1. CASE WaitEvents(t) \/ PollMove(t) \/ PollDecrement(t) \/ PollReturn(t) \/ PollScan(t)
    <3>1. pc[t] \notin {"collect", "ctloop"} /\ cb[t].then # "ctloop"
      BY <2>1 DEF WaitEvents, PollMove, PollDecrement, PollReturn, PollScan,
         FrameInv, NoCbPc, PollPc, NoCb
    <3>2. /\ UNCHANGED qlock
          /\ \A u \in Threads \ {t} : pc'[u] = pc[u] /\ cb'[u] = cb[u]
      BY <2>1 DEF WaitEvents, PollMove, PollDecrement, PollReturn, PollScan, Goto,
         lockVars
    <3>3. QED
      BY <1>1, <3>1, <3>2 DEF HolderInv
  <2>2. CASE PollUnlock(t) \/ ConnectTimeoutEnd(t)
    BY <1>1, <2>2, NoneAssumption DEF PollUnlock, ConnectTimeoutEnd, Goto
  <2>3. ASSUME NEW k \in Keys, Collect(t, k) \/ WalkSkip(t, k)
        PROVE  HolderInv'
    BY <2>3 DEF Collect, WalkSkip, HolderInv, lockVars
  <2>4. ASSUME NEW k \in Keys, NEW r \in CbRecord, WalkCb(t, k, r)
        PROVE  HolderInv'
    BY <1>1, <2>4 DEF WalkCb, Deliver, Goto
  <2>5. ASSUME NEW k \in Keys,
               DispatchNothing(t, k) \/ \E r \in CbRecord : DispatchCb(t, k, r)
        PROVE  HolderInv'
    <3>0. pc[t] = "dispatch"
      BY <2>5 DEF DispatchNothing, DispatchCb
    <3>1. cb[t].then # "ctloop"
      <4>1. pc[t] \in NoCbPc
        BY <3>0 DEF NoCbPc, PollPc
      <4>2. cb[t] = NoCb
        BY <4>1 DEF FrameInv
      <4>3. QED
        BY <4>2 DEF NoCb
    <3>2. /\ UNCHANGED qlock
          /\ \A u \in Threads \ {t} : pc'[u] = pc[u] /\ cb'[u] = cb[u]
      BY <2>5 DEF DispatchNothing, DispatchCb, Deliver, Goto, lockVars
    <3>3. QED
      BY <1>1, <3>0, <3>1, <3>2 DEF HolderInv
  <2>6. QED
    BY <1>3, <2>1, <2>2, <2>3, <2>4, <2>5 DEF CorePoll
<1>4. ASSUME NEW t \in Threads, CbStep(t)
      PROVE  HolderInv'
  <2>1. pc[t] \in CbPc
    BY <1>4 DEF CbStep, CbCheck, CbEnter, CbReturn, CbEnd, CbPc
  <2>2. /\ UNCHANGED qlock
        /\ \A u \in Threads \ {t} : pc'[u] = pc[u] /\ cb'[u] = cb[u]
        /\ cb[t].then = "ctloop" => pc'[t] = "ctloop" \/ cb'[t].then = "ctloop"
    BY <1>4 DEF CbStep, CbCheck, CbEnter, CbReturn, CbEnd, Goto, lockVars
  <2>3. QED
    BY <1>1, <2>1, <2>2 DEF HolderInv, CbPc
<1>5. ASSUME NEW t \in Threads, CoreCall(t)
      PROVE  HolderInv'
  <2>1. pc[t] \notin {"collect", "ctloop"}
    BY <1>5 DEF CoreCall, UnregLock, UnregDelOk, UnregDelFail, UnregClose,
       UnregDecrement, UnregUnlock, CallMove, PostCb, Begin
  <2>2. /\ UNCHANGED qlock
        /\ \A u \in Threads \ {t} : pc'[u] = pc[u]
        /\ cb' = cb \/ \E r \in CbRecord : PostCb(t, r)
    BY <1>5 DEF CoreCall, UnregLock, UnregDelOk, UnregDelFail, UnregClose,
       UnregDecrement, UnregUnlock, CallMove, PostCb, Begin, Goto, Return, lockVars
  <2>3. ASSUME NEW r \in CbRecord, PostCb(t, r)
        PROVE  cb[t].then # "ctloop" /\ \A u \in Threads \ {t} : cb'[u] = cb[u]
    BY <2>3 DEF PostCb, FrameInv, ApiPc, NoCb
  <2>4. QED
    BY <1>1, <2>1, <2>2, <2>3 DEF HolderInv
<1>6. CASE RegisterScan \/ UNCHANGED core \/ (\E k \in Keys : FreeDelayPasses(k))
           \/ \E k \in Keys, n \in Nat, added \in BOOLEAN : RegisterKey(k, n, added)
  BY <1>6 DEF RegisterScan, core, FreeDelayPasses, RegisterKey, HolderInv, lockVars
<1>7. QED
  BY <1>2, <1>3, <1>4, <1>5, <1>6 DEF CoreNext

\* A step of thread t leaves the records of the other threads alone.
LEMMA OwnRecords ==
    ASSUME Types, NEW t \in Threads, NEW u \in Threads, u # t,
           PollStep(t) \/ CbStep(t) \/ CallStep(t) \/ NewCall(t)
    PROVE  pc'[u] = pc[u] /\ cb'[u] = cb[u] /\ call'[u] = call[u]
<1> USE DEF Types
<1>1. CASE PollStep(t)
  <2>1. ASSUME NEW k \in Keys,
               \/ DispatchRead(t, k) \/ DispatchWrite(t, k) \/ DispatchConnect(t, k)
               \/ DispatchNothing(t, k)
        PROVE  pc'[u] = pc[u] /\ cb'[u] = cb[u] /\ call'[u] = call[u]
    BY <2>1 DEF DispatchRead, DispatchWrite, DispatchConnect, DispatchNothing, Goto
  <2>2. ASSUME NEW k \in Keys, Collect(t, k) \/ ConnectTimeoutKey(t, k)
        PROVE  pc'[u] = pc[u] /\ cb'[u] = cb[u] /\ call'[u] = call[u]
    BY <2>2 DEF Collect, ConnectTimeoutKey, Goto
  <2>3. QED
    BY <1>1, <2>1, <2>2 DEF PollStep, PollWait, PollLock, PollUnlock, PollDecrement,
       PollReturn, PollScan, ConnectTimeoutBegin, ConnectTimeoutEnd, Goto
<1>2. CASE CbStep(t)
  BY <1>2 DEF CbStep, CbCheck, CbEnter, CbReturn, CbEnd, Goto
<1>3. CASE CallStep(t)
  <2>1. CASE \/ UnregLock(t) \/ UnregDel(t) \/ UnregClose(t) \/ UnregDecrement(t)
             \/ UnregUnlock(t) \/ QueueOp(t) \/ PostCompletion(t)
             \/ ConnectTry(t) \/ ConnectQueue(t)
    BY <2>1 DEF UnregLock, UnregDel, UnregClose, UnregDecrement, UnregUnlock,
       QueueOp, PostCompletion, ConnectTry, ConnectQueue, Return, Goto
  <2>2. CASE RecvTry(t) \/ SendTry(t) \/ AcceptTry(t)
    BY <2>2 DEF RecvTry, SendTry, AcceptTry, Return, Goto
  <2>3. QED
    BY <1>3, <2>1, <2>2 DEF CallStep
<1>4. CASE NewCall(t)
  <2>1. CASE Register(t)
    BY <2>1 DEF Register
  <2>2. QED
    BY <1>4, <2>1 DEF NewCall, SetConcurrency, BeginCall, Goto
<1>5. QED
  BY <1>1, <1>2, <1>3, <1>4

\* The same, of the steps of the environment.
LEMMA EnvironmentRecords ==
    ASSUME Environment \/ UNCHANGED vars
    PROVE  UNCHANGED <<pc, cb, call>>
BY DEF Environment, Arrive, ConnectResolves, FreeDelayPasses, ConnectDelayPasses, vars

LEMMA NestedStep ==
    ASSUME HarmlessCallbacks, Types, FrameInv, NestedInv, [Next]_vars
    PROVE  NestedInv'
<1> USE DEF Types
<1> DEFINE Fine(t) == pc[t] \in ApiPc /\ call[t].ret = "cbend" =>
               /\ call[t].key = cb[t].key
               /\ CbCalls # {}
               /\ pc[t] \notin UnregPc \cup {"unregister"}
<1>0. \A t \in Threads : Fine(t)
  BY DEF NestedInv
<1>1. ASSUME NEW t \in Threads, PollStep(t)
      PROVE  Fine(t)'
  <2>1. UNCHANGED <<pc, cb, call>> \/ pc'[t] \notin ApiPc
    <3>1. CASE \/ PollWait(t) \/ PollLock(t) \/ PollUnlock(t) \/ PollDecrement(t)
               \/ PollReturn(t) \/ PollScan(t)
               \/ ConnectTimeoutBegin(t) \/ ConnectTimeoutEnd(t)
      BY <3>1 DEF PollWait, PollLock, PollUnlock, PollDecrement, PollReturn, PollScan,
         ConnectTimeoutBegin, ConnectTimeoutEnd, Goto, ApiPc, UnregPc
    <3>2. ASSUME NEW k \in Keys,
                 \/ Collect(t, k) \/ DispatchNothing(t, k) \/ DispatchRead(t, k)
                 \/ DispatchWrite(t, k) \/ DispatchConnect(t, k)
                 \/ ConnectTimeoutKey(t, k)
          PROVE  UNCHANGED <<pc, cb, call>> \/ pc'[t] \notin ApiPc
      BY <3>2 DEF Collect, DispatchNothing, DispatchRead, DispatchWrite,
         DispatchConnect, ConnectTimeoutKey, Goto, ApiPc, UnregPc
    <3>3. QED
      BY <1>1, <3>1, <3>2 DEF PollStep
  <2>2. QED
    BY <1>0, <2>1
<1>2. ASSUME NEW t \in Threads, CbStep(t)
      PROVE  Fine(t)'
  <2>1. cb[t].then \in {"idle", "dec", "ctloop"}
    BY DEF CbRecord
  <2>2. pc'[t] \notin ApiPc
    BY <1>2, <2>1 DEF CbStep, CbCheck, CbEnter, CbReturn, CbEnd, Goto, ApiPc, UnregPc
  <2>3. QED
    BY <2>2
<1>3. ASSUME NEW t \in Threads, CallStep(t)
      PROVE  Fine(t)'
  <2>1. call[t].ret \in {"idle", "cbend"}
    BY DEF CallRecord
  <2>2. pc[t] \in ApiPc
    BY <1>3 DEF CallStep, UnregLock, UnregDel, UnregClose, UnregDecrement,
       UnregUnlock, RecvTry, SendTry, AcceptTry, QueueOp, ConnectTry, ConnectQueue,
       PostCompletion, ApiPc, UnregPc
  <2>3. \/ pc'[t] \in {"idle", "cbend", "cbenter"}
        \/ /\ pc'[t] \in UnregPc /\ pc[t] \in UnregPc \cup {"unregister"}
           /\ UNCHANGED <<call, cb>>
        \/ pc'[t] \in {"queue_op", "connect_lock"} /\ UNCHANGED <<call, cb>>
    <3>1. CASE \/ UnregLock(t) \/ UnregDel(t) \/ UnregClose(t) \/ UnregDecrement(t)
               \/ UnregUnlock(t)
      BY <2>1, <3>1 DEF UnregLock, UnregDel, UnregClose, UnregDecrement, UnregUnlock,
         Return, Goto, UnregPc
    <3>2. CASE RecvTry(t) \/ SendTry(t) \/ AcceptTry(t)
      BY <2>1, <3>2 DEF RecvTry, SendTry, AcceptTry, Return, Goto
    <3>3. CASE QueueOp(t) \/ PostCompletion(t) \/ ConnectTry(t) \/ ConnectQueue(t)
      BY <2>1, <3>3 DEF QueueOp, PostCompletion, ConnectTry, ConnectQueue, Return, Goto
    <3>4. QED
      BY <1>3, <3>1, <3>2, <3>3 DEF CallStep
  <2>4. {"idle", "cbend", "cbenter"} \cap ApiPc = {}
        /\ {"queue_op", "connect_lock"} \cap (UnregPc \cup {"unregister"}) = {}
    BY DEF ApiPc, UnregPc
  <2>5. QED
    BY <1>0, <2>2, <2>3, <2>4
<1>4. ASSUME NEW t \in Threads, NewCall(t)
      PROVE  Fine(t)'
  <2>1. CASE Register(t) \/ \E k \in Keys : SetConcurrency(t, k)
    <3>1. UNCHANGED <<pc, cb, call>>
      BY <2>1 DEF Register, SetConcurrency
    <3>2. QED
      BY <1>0, <3>1
  <2>2. ASSUME NEW c \in KeyCalls, NEW k \in Keys, NEW o \in Ops \cup {None},
               BeginCall(t, c, k, o)
        PROVE  Fine(t)'
    <3>1. call'[t].key = k /\ pc'[t] = c /\ cb' = cb
      BY <2>2 DEF BeginCall, Goto
    <3>2. CASE pc[t] = "idle"
      <4>1. call'[t].ret = "idle"
        BY <2>2, <3>2 DEF BeginCall
      <4>2. QED
        BY <4>1
    <3>3. CASE pc[t] # "idle"
      <4>1. c \in CbCalls /\ k = cb[t].key
        BY <2>2, <3>3 DEF BeginCall
      <4>2. c \notin UnregPc \cup {"unregister"}
        BY <4>1, CallsAssumption DEF HarmlessCallbacks, LockedCallbacks, UnregPc, OpCalls
      <4>3. QED
        BY <3>1, <4>1, <4>2
    <3>4. QED
      BY <3>2, <3>3
  <2>3. QED
    BY <1>4, <2>1, <2>2 DEF NewCall
<1>5. ASSUME NEW t \in Threads, PollStep(t) \/ CbStep(t) \/ CallStep(t) \/ NewCall(t)
      PROVE  NestedInv'
  <2>1. \A u \in Threads \ {t} : Fine(u)'
    BY <1>0, <1>5, OwnRecords
  <2>2. QED
    BY <1>1, <1>2, <1>3, <1>4, <1>5, <2>1 DEF NestedInv
<1>6. CASE Environment \/ UNCHANGED vars
  BY <1>6, EnvironmentRecords DEF NestedInv
<1>7. QED
  BY <1>5, <1>6 DEF Next

LEMMA CbLockStep ==
    ASSUME HarmlessCallbacks, Types, DataTypes, CbLockInv, [Next]_vars
    PROVE  CbLockInv'
<1> SUFFICES ASSUME CbCalls # {}
             PROVE  CbLockInv'
  BY DEF CbLockInv
<1> USE DEF Types
<1>1. /\ LockedCallbacks
      /\ \A k \in Keys : ~allow_concurrent[k]
      /\ \A t \in Threads : cb[t].then # "idle" => cb[t].has_lock
  BY DEF CbLockInv, HarmlessCallbacks
<1>1a. \A k \in Keys : \A kind, o, res, then : Completion(k, kind, o, res, then).has_lock
  BY <1>1 DEF Completion
<1>2. ASSUME NEW t \in Threads, PollStep(t)
      PROVE  /\ UNCHANGED allow_concurrent
             /\ cb'[t].then # "idle" => cb'[t].has_lock
  <2>1. ASSUME NEW k \in Keys,
               \/ DispatchRead(t, k) \/ DispatchWrite(t, k) \/ DispatchConnect(t, k)
               \/ DispatchNothing(t, k)
        PROVE  /\ UNCHANGED allow_concurrent
               /\ cb'[t].then # "idle" => cb'[t].has_lock
    <3>1. /\ UNCHANGED allow_concurrent
          /\ \/ cb'[t] = [NoCb EXCEPT !.key = k]
             \/ \E kind, o, res, then : cb'[t] = Completion(k, kind, o, res, then)
      <4>1. CASE DispatchRead(t, k)
        BY <4>1 DEF DispatchRead
      <4>2. CASE DispatchWrite(t, k)
        BY <4>2 DEF DispatchWrite
      <4>3. CASE DispatchConnect(t, k)
        BY <4>3 DEF DispatchConnect
      <4>4. CASE DispatchNothing(t, k)
        BY <4>4 DEF DispatchNothing
      <4>5. QED
        BY <2>1, <4>1, <4>2, <4>3, <4>4
    <3>2. QED
      BY <1>1a, <3>1 DEF NoCb
  <2>2. ASSUME NEW k \in Keys, Collect(t, k) \/ ConnectTimeoutKey(t, k)
        PROVE  /\ UNCHANGED allow_concurrent
               /\ cb'[t].then # "idle" => cb'[t].has_lock
    <3>1. /\ UNCHANGED allow_concurrent
          /\ \/ cb'[t] = cb[t]
             \/ \E kind, o, res, then : cb'[t] = Completion(k, kind, o, res, then)
      BY <2>2 DEF Collect, ConnectTimeoutKey
    <3>2. QED
      BY <1>1, <1>1a, <3>1
  <2>3. QED
    BY <1>1, <1>2, <2>1, <2>2 DEF PollStep, PollWait, PollLock, PollUnlock,
       PollDecrement, PollReturn, PollScan, ConnectTimeoutBegin, ConnectTimeoutEnd, NoCb
<1>3. ASSUME NEW t \in Threads, CbStep(t)
      PROVE  /\ UNCHANGED allow_concurrent
             /\ cb'[t].then # "idle" => cb'[t].has_lock
  BY <1>1, <1>3 DEF CbStep, CbCheck, CbEnter, CbReturn, CbEnd, NoCb
<1>4. ASSUME NEW t \in Threads, CallStep(t)
      PROVE  /\ UNCHANGED allow_concurrent
             /\ cb'[t].then # "idle" => cb'[t].has_lock
  <2>1. CASE PostCompletion(t)
    <3>1. /\ UNCHANGED allow_concurrent
          /\ \/ UNCHANGED cb
             \/ \E l \in OpCalls : cb' = [cb EXCEPT ![t] =
                    [NoCb EXCEPT !.key = call[t].key, !.kind = l, !.op = call[t].op,
                                 !.res = "posted"]]
      BY <2>1 DEF PostCompletion
    <3>2. cb'[t] = cb[t] \/ cb'[t].then = "idle"
      BY <3>1 DEF NoCb
    <3>3. QED
      BY <1>1, <3>1, <3>2
  <2>2. CASE RecvTry(t) \/ SendTry(t) \/ AcceptTry(t)
    BY <1>1, <2>2 DEF RecvTry, SendTry, AcceptTry
  <2>3. QED
    BY <1>1, <1>4, <2>1, <2>2 DEF CallStep, UnregLock, UnregDel, UnregClose,
       UnregDecrement, UnregUnlock, QueueOp, ConnectTry, ConnectQueue
<1>5. ASSUME NEW t \in Threads, NewCall(t)
      PROVE  /\ \A k \in Keys : ~allow_concurrent'[k]
             /\ UNCHANGED cb
  <2>1. CASE Register(t)
    <3>1. \/ UNCHANGED allow_concurrent
          \/ \E k \in Keys : allow_concurrent' = [allow_concurrent EXCEPT ![k] = Concurrent]
      BY <2>1 DEF Register, InitKey
    <3>2. UNCHANGED cb
      BY <2>1 DEF Register
    <3>3. ~Concurrent /\ allow_concurrent \in [Keys -> BOOLEAN]
      BY <1>1 DEF LockedCallbacks, DataTypes
    <3>4. QED
      BY <1>1, <3>1, <3>2, <3>3
  <2>2. ASSUME NEW k \in Keys, SetConcurrency(t, k)
        PROVE  FALSE
    BY <1>1, <2>2 DEF SetConcurrency, LockedCallbacks
  <2>3. QED
    BY <1>1, <1>5, <2>1, <2>2 DEF NewCall, BeginCall
<1>6. ASSUME NEW t \in Threads, PollStep(t) \/ CbStep(t) \/ CallStep(t) \/ NewCall(t)
      PROVE  CbLockInv'
  <2>1. \A u \in Threads \ {t} : cb'[u] = cb[u]
    BY <1>6, OwnRecords
  <2>2. QED
    BY <1>1, <1>2, <1>3, <1>4, <1>5, <1>6, <2>1 DEF CbLockInv
<1>7. CASE Environment \/ UNCHANGED vars
  <2>1. UNCHANGED allow_concurrent
    BY <1>7 DEF Environment, Arrive, ConnectResolves, FreeDelayPasses,
       ConnectDelayPasses, vars
  <2>2. QED
    BY <1>7, <2>1, EnvironmentRecords DEF CbLockInv
<1>8. QED
  BY <1>6, <1>7 DEF Next

\* A thread that waits for a thread that waits for a third one ends the chain:
\* no cycle of waiting threads, of any length, is possible.
LockChainsEnd ==
    \A t, u, v, w \in Threads : ~(WaitsFor(t, u) /\ WaitsFor(u, v) /\ WaitsFor(v, w))

\* The holder of ioqueue->lock waits for nobody, and the holder of a key's
\* lock waits for no key's lock.
LEMMA WaitOrder ==
    ASSUME HarmlessCallbacks, IInv, WaitInv
    PROVE  NoDeadlock /\ LockChainsEnd
<1>1. Types /\ FrameInv /\ LockInv /\ HolderInv /\ NestedInv /\ CbLockInv
  BY DEF IInv, WaitInv
<1> USE DEF Types
<1> DEFINE KeyWait == {"unregister", "queue_op", "connect_lock", "post"}
<1>2. ASSUME NEW u \in Threads, pc[u] \in KeyWait, NEW k \in Keys, klock[k] = u,
             pc[u] \in ApiPc
      PROVE  call[u].key = k /\ KeyFree(u, call[u].key)
  <2>0. kdepth[k] > 0 /\ kdepth[k] = Depth(u, k)
    BY <1>1, <1>2, NoneAssumption DEF LockInv
  <2>1. Depth(u, k) # 0 /\ pc[u] \notin UnregPc
    BY <1>2, <2>0 DEF UnregPc
  <2>2. cb[u].has_lock /\ cb[u].key = k
    BY <2>1 DEF Depth
  <2>3. call[u].ret = "cbend"
    <3>1. call[u].ret \in {"idle", "cbend"}
      BY <1>1 DEF CallRecord
    <3>2. cb[u] # NoCb
      BY <2>2 DEF NoCb
    <3>3. QED
      BY <1>1, <1>2, <3>1, <3>2 DEF FrameInv
  <2>4. call[u].key = k
    BY <1>1, <1>2, <2>2, <2>3 DEF NestedInv
  <2>5. QED
    BY <1>2, <2>4 DEF KeyFree
<1>3. ASSUME NEW u \in Threads, qlock = u, NEW v \in Threads, WaitsFor(u, v)
      PROVE  FALSE
  <2>1. pc[u] \notin {"collect", "ctloop"}
    BY <1>3 DEF WaitsFor
  <2>2. cb[u].then = "ctloop"
    BY <1>1, <1>3, <2>1 DEF HolderInv
  <2>3. pc[u] \notin NoCbPc /\ pc[u] # "dec"
    BY <1>1, <2>2 DEF FrameInv, NoCb
  <2>4. pc[u] \in ApiPc
    BY <1>3, <2>3 DEF WaitsFor, NoCbPc, PollPc, ApiPc, UnregPc
  <2>5. call[u].ret = "cbend"
    <3>1. call[u].ret \in {"idle", "cbend"}
      BY <1>1 DEF CallRecord
    <3>2. cb[u] # NoCb
      BY <2>2 DEF NoCb
    <3>3. QED
      BY <1>1, <2>4, <3>1, <3>2 DEF FrameInv
  <2>6. call[u].key = cb[u].key /\ CbCalls # {} /\ pc[u] \notin UnregPc \cup {"unregister"}
    BY <1>1, <2>4, <2>5 DEF NestedInv
  <2>7. cb[u].has_lock /\ cb[u].key \in Keys
    BY <1>1, <2>2, <2>4, <2>5, <2>6 DEF CbLockInv, FrameInv
  <2>8. klock[cb[u].key] = u
    <3>1. Depth(u, cb[u].key) # 0
      BY <2>7 DEF Depth
    <3>2. QED
      BY <1>1, <2>7, <3>1 DEF LockInv
  <2>9. KeyFree(u, call[u].key)
    BY <2>6, <2>8 DEF KeyFree
  <2>10. QED
    BY <1>3, <2>3, <2>6, <2>9 DEF WaitsFor, NoCbPc, PollPc, UnregPc
<1>4. ASSUME NEW t \in Threads, NEW u \in Threads, NEW v \in Threads, NEW w \in Threads,
             WaitsFor(t, u), WaitsFor(u, v), WaitsFor(v, w)
      PROVE  FALSE
  <2>1. qlock # u /\ qlock # v
    BY <1>3, <1>4
  <2>2. pc[t] \in KeyWait /\ klock[call[t].key] = u /\ call[t].key \in Keys
    BY <1>1, <1>4, <2>1 DEF WaitsFor, FrameInv, ApiPc
  <2>3. pc[u] \in KeyWait /\ ~KeyFree(u, call[u].key)
    BY <1>4, <2>1 DEF WaitsFor
  <2>4. pc[u] \in ApiPc
    BY <2>3 DEF ApiPc
  <2>5. QED
    BY <1>2, <2>2, <2>3, <2>4
<1>5. QED
  BY <1>4 DEF NoDeadlock, LockChainsEnd

\* No thread waits, directly or through others, for a lock that it holds
\* itself: pollers, callbacks and unregistrations take the locks in an order,
\* as long as the callbacks are harmless.
THEOREM DeadlockFreedom ==
    ASSUME HarmlessCallbacks
    PROVE  Spec => [](NoDeadlock /\ LockChainsEnd)
<1>1. Init => WaitInv
  <2> SUFFICES ASSUME Init PROVE WaitInv
    OBVIOUS
  <2>1. HolderInv
    BY NoneAssumption DEF Init, HolderInv
  <2>2. NestedInv
    BY DEF Init, NestedInv, ApiPc, UnregPc
  <2>3. CbLockInv
    BY DEF Init, CbLockInv, NoCb, HarmlessCallbacks, LockedCallbacks
  <2>4. QED
    BY <2>1, <2>2, <2>3 DEF WaitInv
<1>2. IInv /\ WaitInv /\ [Next]_vars => WaitInv'
  <2> SUFFICES ASSUME IInv, WaitInv, [Next]_vars
               PROVE  WaitInv'
    OBVIOUS
  <2>1. Types /\ DataTypes /\ FrameInv /\ HolderInv /\ NestedInv /\ CbLockInv /\ [CoreNext]_core
    BY CoreStep DEF IInv, WaitInv
  <2>2. QED
    BY <2>1, HolderStep, NestedStep, CbLockStep DEF WaitInv
<1>3. IInv /\ WaitInv => NoDeadlock /\ LockChainsEnd
  BY WaitOrder
<1>4. QED
  BY <1>1, <1>2, <1>3, Invariance, PTL DEF Spec

----------------------------------------------------------------------------
(***************************************************************************)
(* The custody of operations.  pj_ioqueue_post_completion that races an    *)
(* unregistration can meet, in the list of the closed key, an operation    *)
(* the application has submitted again: the claim is about applications    *)
(* that do not post completions.                                           *)
(***************************************************************************)
NoPosts == \A t \in Threads : "post" \notin Calls[t]

\* Operation o has the i-th place of a list of a key that is served.
Linked(k, l, i, o) ==
    Serving(k) /\ i \in DOMAIN pending[k][l] /\ pending[k][l][i] = o

\* OneCustodian, place by place, and the converse: what is linked or carried
\* is outstanding.
Custody ==
    /\ \A o \in outst :
          \/ \E t \in Threads : Carries(t, o)
          \/ \E k \in Keys, l \in OpCalls, i \in Nat : Linked(k, l, i, o)
    /\ \A t \in Threads, o \in Ops : Carries(t, o) =>
          /\ o \in outst
          /\ \A u \in Threads : Carries(u, o) => u = t
          /\ \A k \in Keys, l \in OpCalls, i \in Nat : ~Linked(k, l, i, o)
    /\ \A k \in Keys, l \in OpCalls, i \in Nat, o \in Ops : Linked(k, l, i, o) =>
          /\ o \in outst
          /\ \A k2 \in Keys, l2 \in OpCalls, i2 \in Nat :
                Linked(k2, l2, i2, o) => k2 = k /\ l2 = l /\ i2 = i

\* A key that was never registered has nothing pending.
FreshInv ==
    \A k \in Keys : list[k] = "free" /\ ~closing[k] =>
        \A l \in OpCalls : pending[k][l] = <<>>

\* Nobody posts, calls about a key carry no operation, and the key of an
\* unregistration that is about to return is closing.
KeyCallPc == {"unregister", "connect", "connect_lock"} \cup UnregPc
CallInv ==
    \A t \in Threads :
        /\ pc[t] # "post"
        /\ pc[t] \in KeyCallPc => call[t].op = None
        /\ pc[t] = "unreg_unlock" => closing[call[t].key]

(***************************************************************************)
(* What a step can do to the custody.                                      *)
(***************************************************************************)
SameLinks ==
    \A k \in Keys, l \in OpCalls, i \in Nat, o \in Ops :
        Linked(k, l, i, o)' <=> Linked(k, l, i, o)
SameCarriers(T) == \A t \in T, o \in Ops : Carries(t, o)' <=> Carries(t, o)

Quiet == outst' = outst /\ SameLinks /\ SameCarriers(Threads)

\* Thread t submits o.
Takes(t, o) ==
    /\ o \in Ops \ outst /\ outst' = outst \cup {o}
    /\ \A x \in Ops : Carries(t, x)' <=> x = o
    /\ \A x \in Ops : ~Carries(t, x)
    /\ SameLinks /\ SameCarriers(Threads \ {t})

\* Thread t is done with o.
Drops(t, o) ==
    /\ outst' = outst \ {o}
    /\ \A x \in Ops : Carries(t, x) <=> x = o
    /\ \A x \in Ops : ~Carries(t, x)'
    /\ SameLinks /\ SameCarriers(Threads \ {t})

\* Thread t takes o from the head of a list.
Pops(t, k, l, o) ==
    /\ outst' = outst
    /\ o \in Ops /\ Linked(k, l, 1, o)
    /\ \A x \in Ops : Carries(t, x)' <=> x = o
    /\ \A x \in Ops : ~Carries(t, x)
    /\ SameCarriers(Threads \ {t})
    /\ \A j \in Keys, m \in OpCalls, i \in Nat, x \in Ops :
          Linked(j, m, i, x)' <=> IF j = k /\ m = l THEN i # 0 /\ Linked(j, m, i + 1, x)
                                                    ELSE Linked(j, m, i, x)

\* Thread t puts o at the end of a list, the n-th place.
Pushes(t, k, l, n, o) ==
    /\ outst' = outst
    /\ o \in Ops /\ n \in Nat
    /\ \A x \in Ops : Carries(t, x) <=> x = o
    /\ \A x \in Ops : ~Carries(t, x)'
    /\ SameCarriers(Threads \ {t})
    /\ \A j \in Keys, m \in OpCalls, i \in Nat, x \in Ops :
          Linked(j, m, i, x)' <=> \/ Linked(j, m, i, x)
                                  \/ j = k /\ m = l /\ i = n /\ x = o

\* The unregistration of k gives its operations back.
Returns(k) ==
    /\ outst' = {x \in outst : \A l \in OpCalls, i \in Nat : ~Linked(k, l, i, x)}
    /\ SameCarriers(Threads)
    /\ \A j \in Keys, m \in OpCalls, i \in Nat, x \in Ops :
          Linked(j, m, i, x)' <=> j # k /\ Linked(j, m, i, x)

LEMMA CustodyQuiet ==
    ASSUME Custody, outst \subseteq Ops, Quiet
    PROVE  Custody'
BY DEF Custody, Quiet, SameLinks, SameCarriers

LEMMA CustodyTakes ==
    ASSUME Custody, outst \subseteq Ops, NEW t \in Threads, NEW o, Takes(t, o)
    PROVE  Custody'
BY DEF Custody, Takes, SameLinks, SameCarriers

LEMMA CustodyDrops ==
    ASSUME Custody, outst \subseteq Ops, NEW t \in Threads, NEW o, Drops(t, o)
    PROVE  Custody'
BY DEF Custody, Drops, SameLinks, SameCarriers

LEMMA CustodyPops ==
    ASSUME Custody, outst \subseteq Ops, NEW t \in Threads, NEW k \in Keys,
           NEW l \in OpCalls, NEW o, Pops(t, k, l, o), pending[k][l] \in Seq(Ops)
    PROVE  Custody'
<1>1. ASSUME NEW x \in outst, x # o
      PROVE  \/ \E u \in Threads : Carries(u, x)'
             \/ \E j \in Keys, m \in OpCalls, i \in Nat : Linked(j, m, i, x)'
  <2>1. CASE \E u \in Threads : Carries(u, x)
    BY <1>1, <2>1 DEF Pops, SameCarriers
  <2>2. ASSUME NEW j \in Keys, NEW m \in OpCalls, NEW i \in Nat, Linked(j, m, i, x)
        PROVE  \E i2 \in Nat : Linked(j, m, i2, x)'
    <3>1. CASE j = k /\ m = l
      <4>1. i # 0 /\ i # 1
        BY <1>1, <2>2, <3>1 DEF Pops, Linked
      <4>2. i - 1 \in Nat /\ i - 1 # 0 /\ (i - 1) + 1 = i
        BY <4>1
      <4>3. Linked(j, m, (i - 1) + 1, x)
        BY <2>2, <4>2
      <4>4. x \in Ops
        OBVIOUS
      <4>5. Linked(j, m, i - 1, x)'
        BY <3>1, <4>2, <4>3, <4>4 DEF Pops
      <4>6. QED
        BY <4>2, <4>5
    <3>2. QED
      BY <1>1, <2>2, <3>1 DEF Pops
  <2>3. QED
    BY <1>1, <2>1, <2>2 DEF Custody
<1>2. QED
  BY <1>1 DEF Custody, Pops, SameCarriers

LEMMA CustodyPushes ==
    ASSUME Custody, outst \subseteq Ops, NEW t \in Threads, NEW k \in Keys,
           NEW l \in OpCalls, NEW n, NEW o, Pushes(t, k, l, n, o)
    PROVE  Custody'
BY DEF Custody, Pushes, SameCarriers

LEMMA CustodyReturns ==
    ASSUME Custody, outst \subseteq Ops, NEW k \in Keys, Returns(k)
    PROVE  Custody'
BY DEF Custody, Returns, SameCarriers

(***************************************************************************)
(* Frames: a thread's step, and its effect on the served keys.             *)
(***************************************************************************)
Unregisters(t, k) == pc[t] \in UnregPc /\ call[t].key = k

OnlyThread(t) ==
    \A u \in Threads \ {t} : pc'[u] = pc[u] /\ cb'[u] = cb[u] /\ call'[u] = call[u]

LEMMA OnlyThreadStep ==
    ASSUME Types, NEW t \in Threads,
           PollStep(t) \/ CbStep(t) \/ CallStep(t) \/ NewCall(t)
    PROVE  OnlyThread(t) /\ SameCarriers(Threads \ {t})
<1>1. OnlyThread(t)
  BY OwnRecords DEF OnlyThread
<1>2. QED
  BY <1>1 DEF OnlyThread, SameCarriers, Carries

\* A key stays served, or not, when its flag and its unregistration do not
\* change, or when it is not closing before and after.
LEMMA ServingSame ==
    ASSUME NEW t \in Threads, OnlyThread(t), NEW k \in Keys,
           \/ ~closing[k] /\ ~closing'[k]
           \/ closing'[k] = closing[k] /\ (Unregisters(t, k)' <=> Unregisters(t, k))
    PROVE  Serving(k)' <=> Serving(k)
<1>1. \A u \in Threads \ {t} : Unregisters(u, k)' <=> Unregisters(u, k)
  BY DEF OnlyThread, Unregisters
<1>2. Serving(k) <=> ~closing[k] \/ \E u \in Threads : Unregisters(u, k)
  BY DEF Serving, Unregisters
<1>3. Serving(k)' <=> ~closing'[k] \/ \E u \in Threads : Unregisters(u, k)'
  BY DEF Serving, Unregisters
<1>4. QED
  BY <1>1, <1>2, <1>3

LEMMA LinksSame ==
    ASSUME UNCHANGED pending, \A k \in Keys : Serving(k)' <=> Serving(k)
    PROVE  SameLinks
BY DEF SameLinks, Linked

\* Steps outside pj_ioqueue_unregister leave the served keys alone.
LEMMA LinksKept ==
    ASSUME NEW t \in Threads, OnlyThread(t), UNCHANGED <<pending, closing>>,
           pc[t] \notin UnregPc, pc'[t] \notin UnregPc
    PROVE  SameLinks
<1>1. \A k \in Keys : ~Unregisters(t, k) /\ ~Unregisters(t, k)'
  BY DEF Unregisters
<1>2. \A k \in Keys : Serving(k)' <=> Serving(k)
  BY <1>1, ServingSame
<1>3. QED
  BY <1>2, LinksSame

\* Where a thread carries nothing.
NoCarryPc == {"idle", "incb", "cbend"} \cup PollPc

LEMMA CarriesNothing ==
    ASSUME NEW t \in Threads,
           \/ pc[t] \in NoCarryPc
           \/ pc[t] \in CbPc /\ cb[t].op = None
           \/ pc[t] \in KeyCallPc /\ call[t].op = None
    PROVE  \A o \in Ops : ~Carries(t, o)
BY NoneAssumption DEF NoCarryPc, PollPc, CbPc, KeyCallPc, UnregPc, ApiPc, Carries

\* The same, after a step.
LEMMA CarriesNothingNext ==
    ASSUME NEW t \in Threads,
           \/ pc'[t] \in NoCarryPc
           \/ pc'[t] \in CbPc /\ cb'[t].op = None
           \/ pc'[t] \in KeyCallPc /\ call'[t].op = None
    PROVE  \A o \in Ops : ~Carries(t, o)'
BY NoneAssumption DEF NoCarryPc, PollPc, CbPc, KeyCallPc, UnregPc, ApiPc, Carries

LEMMA CustodyPoll ==
    ASSUME IInv, CallInv, NEW t \in Threads, PollStep(t)
    PROVE  Quiet \/ \E k \in Keys, l \in OpCalls, o \in Ops : Pops(t, k, l, o)
<1>1. Types /\ DataTypes /\ FrameInv /\ OnlyThread(t) /\ SameCarriers(Threads \ {t})
  BY OnlyThreadStep DEF IInv
<1> USE DEF Types
<1>2. pc[t] \in {"idle"} \cup PollPc
  BY DEF PollStep, PollWait, PollLock, PollUnlock, PollDecrement, PollReturn,
     PollScan, ConnectTimeoutBegin, ConnectTimeoutEnd, Collect, DispatchNothing,
     DispatchRead, DispatchWrite, DispatchConnect, ConnectTimeoutKey, PollPc
<1>3. pc[t] \notin UnregPc /\ \A o \in Ops : ~Carries(t, o)
  BY <1>2, CarriesNothing DEF NoCarryPc, PollPc, UnregPc
<1>4. ASSUME UNCHANGED <<outst, pending, closing>>,
             \/ pc'[t] \in {"idle"} \cup PollPc
             \/ pc'[t] = "cbcheck" /\ cb'[t].op = None
      PROVE  Quiet
  <2>1. pc'[t] \notin UnregPc /\ \A o \in Ops : ~Carries(t, o)'
    BY <1>4, CarriesNothingNext DEF NoCarryPc, PollPc, UnregPc, CbPc
  <2>2. SameLinks
    BY <1>1, <1>3, <1>4, <2>1, LinksKept
  <2>3. SameCarriers(Threads)
    BY <1>1, <1>3, <2>1 DEF SameCarriers
  <2>4. QED
    BY <1>4, <2>2, <2>3 DEF Quiet
<1>5. CASE \/ PollWait(t) \/ PollLock(t) \/ PollUnlock(t) \/ PollDecrement(t)
           \/ PollReturn(t) \/ PollScan(t) \/ ConnectTimeoutBegin(t)
           \/ ConnectTimeoutEnd(t)
  <2>1. UNCHANGED <<outst, pending, closing>>
    BY <1>5 DEF PollWait, PollLock, PollUnlock, PollDecrement, Decrement, PollReturn,
       PollScan, ConnectTimeoutBegin, ConnectTimeoutEnd, lifeVars, pendVars, histVars
  <2>2. pc'[t] \in {"idle"} \cup PollPc
    BY <1>1, <1>5 DEF PollWait, PollLock, PollUnlock, PollDecrement, PollReturn, PollScan,
       ConnectTimeoutBegin, ConnectTimeoutEnd, Goto, PollPc
  <2>3. QED
    BY <1>4, <2>1, <2>2
<1>6. ASSUME NEW k \in Keys, Collect(t, k) \/ DispatchNothing(t, k)
      PROVE  Quiet
  <2>1. UNCHANGED <<outst, pending, closing>>
    BY <1>6 DEF Collect, DispatchNothing, lifeVars, pendVars, histVars
  <2>2. pc'[t] \in {"idle"} \cup PollPc
    BY <1>1, <1>6 DEF Collect, DispatchNothing, Goto, PollPc
  <2>3. QED
    BY <1>4, <2>1, <2>2
<1>7. ASSUME NEW k \in Keys, DispatchConnect(t, k) \/ ConnectTimeoutKey(t, k)
      PROVE  Quiet
  <2>1. UNCHANGED <<outst, pending, closing>>
    BY <1>7 DEF DispatchConnect, ConnectTimeoutKey, lifeVars, pendVars, histVars
  <2>2. \/ pc'[t] = "cbcheck" /\ cb'[t].op = None
        \/ pc'[t] = "ctloop"
    BY <1>1, <1>7 DEF DispatchConnect, ConnectTimeoutKey, Completion, Goto
  <2>3. QED
    BY <1>4, <2>1, <2>2 DEF PollPc
<1>8. ASSUME NEW k \in Keys, NEW l \in OpCalls, ~closing[k], pending[k][l] # <<>>,
             pending' = [pending EXCEPT ![k][l] = Tail(@)],
             UNCHANGED <<closing, outst>>,
             pc'[t] = "cbcheck", cb'[t].op = Head(pending[k][l])
      PROVE  \E o \in Ops : Pops(t, k, l, o)
  <2> DEFINE s == pending[k][l]
             o == Head(s)
  <2>1. s \in Seq(Ops) /\ s # <<>> /\ pending \in [Keys -> [OpCalls -> Seq(Ops)]]
    BY <1>1, <1>8 DEF DataTypes
  <2>2. o \in Ops /\ s[1] = o /\ 1 \in DOMAIN s
    BY <2>1
  <2>3. Linked(k, l, 1, o)
    BY <1>8, <2>2 DEF Linked, Serving
  <2>4. \A x \in Ops : Carries(t, x)' <=> x = o
    BY <1>8 DEF Carries, ApiPc, UnregPc
  <2>5. \A j \in Keys : Serving(j)' <=> Serving(j)
    <3>1. \A j \in Keys : ~Unregisters(t, j) /\ ~Unregisters(t, j)'
      BY <1>3, <1>8 DEF Unregisters, UnregPc
    <3>2. QED
      BY <1>1, <1>8, <3>1, ServingSame
  <2>6. \A j \in Keys, m \in OpCalls : ~(j = k /\ m = l) => pending'[j][m] = pending[j][m]
    BY <1>8, <2>1
  <2>7. pending'[k][l] = Tail(s)
    BY <1>8, <2>1
  <2>8. \A i \in Nat, x \in Ops : i \in DOMAIN Tail(s) /\ Tail(s)[i] = x
                                  <=> i # 0 /\ i + 1 \in DOMAIN s /\ s[i + 1] = x
    BY <2>1
  <2>9. \A j \in Keys, m \in OpCalls, i \in Nat, x \in Ops :
          Linked(j, m, i, x)' <=> IF j = k /\ m = l THEN i # 0 /\ Linked(j, m, i + 1, x)
                                                    ELSE Linked(j, m, i, x)
    <3> SUFFICES ASSUME NEW j \in Keys, NEW m \in OpCalls, NEW i \in Nat, NEW x \in Ops
                 PROVE  Linked(j, m, i, x)' <=>
                          IF j = k /\ m = l THEN i # 0 /\ Linked(j, m, i + 1, x)
                                            ELSE Linked(j, m, i, x)
      OBVIOUS
    <3>1. CASE j = k /\ m = l
      BY <2>5, <2>7, <2>8, <3>1 DEF Linked
    <3>2. CASE ~(j = k /\ m = l)
      BY <2>5, <2>6, <3>2 DEF Linked
    <3>3. QED
      BY <3>1, <3>2
  <2>10. QED
    BY <1>1, <1>3, <1>8, <2>2, <2>3, <2>4, <2>9 DEF Pops
<1>9. ASSUME NEW k \in Keys, DispatchRead(t, k)
      PROVE  \E l \in OpCalls, o \in Ops : Pops(t, k, l, o)
  <2>1. PICK l \in {"accept", "recv"} :
          /\ pending[k][l] # <<>> /\ pending' = [pending EXCEPT ![k][l] = Tail(@)]
          /\ \E res : cb'[t] = Completion(k, l, Head(pending[k][l]), res, "dec")
    BY <1>1, <1>9 DEF DispatchRead
  <2>2. ~closing[k] /\ UNCHANGED <<closing, outst>> /\ pc'[t] = "cbcheck"
    BY <1>1, <1>9 DEF DispatchRead, Goto, lifeVars, histVars
  <2>3. cb'[t].op = Head(pending[k][l])
    BY <2>1 DEF Completion
  <2>4. QED
    BY <1>8, <2>1, <2>2, <2>3 DEF OpCalls
<1>10. ASSUME NEW k \in Keys, DispatchWrite(t, k)
       PROVE  \E l \in OpCalls, o \in Ops : Pops(t, k, l, o)
  <2>1. /\ pending[k]["send"] # <<>>
        /\ pending' = [pending EXCEPT ![k]["send"] = Tail(@)]
        /\ \E res : cb'[t] = Completion(k, "send", Head(pending[k]["send"]), res, "dec")
    BY <1>1, <1>10 DEF DispatchWrite
  <2>2. ~closing[k] /\ UNCHANGED <<closing, outst>> /\ pc'[t] = "cbcheck"
    BY <1>1, <1>10 DEF DispatchWrite, Goto, lifeVars
  <2>3. cb'[t].op = Head(pending[k]["send"])
    BY <2>1 DEF Completion
  <2>4. QED
    BY <1>8, <2>1, <2>2, <2>3 DEF OpCalls
<1>11. QED
  BY <1>5, <1>6, <1>7, <1>9, <1>10 DEF PollStep

LEMMA CustodyCb ==
    ASSUME IInv, CallInv, NEW t \in Threads, CbStep(t)
    PROVE  Quiet \/ \E o \in Ops : Drops(t, o)
<1>1. Types /\ DataTypes /\ FrameInv /\ OnlyThread(t) /\ SameCarriers(Threads \ {t})
  BY OnlyThreadStep DEF IInv
<1> USE DEF Types
<1>2. pc[t] \in CbPc /\ UNCHANGED <<pending, closing>>
  BY DEF CbStep, CbCheck, CbEnter, CbReturn, CbEnd, CbPc, pendVars, lifeVars
<1>3. cb[t].then \in {"idle", "dec", "ctloop"} /\ cb[t].op \in Ops \cup {None}
  BY <1>1 DEF CbRecord
<1>4. pc'[t] \in {"cbenter"} \cup NoCarryPc
  BY <1>1, <1>3 DEF CbStep, CbCheck, CbEnter, CbReturn, CbEnd, Goto, NoCarryPc, PollPc
<1>5. SameLinks
  <2>1. pc[t] \notin UnregPc /\ pc'[t] \notin UnregPc
    BY <1>2, <1>4 DEF CbPc, UnregPc, NoCarryPc, PollPc
  <2>2. QED
    BY <1>1, <1>2, <2>1, LinksKept
<1>6. ASSUME pc[t] \in {"cbcheck", "cbenter"}, pc'[t] \in NoCarryPc,
             outst' = outst \ {cb[t].op}
      PROVE  Quiet \/ \E o \in Ops : Drops(t, o)
  <2>1. \A o \in Ops : ~Carries(t, o)'
    BY <1>6, CarriesNothingNext
  <2>2. \A o \in Ops : Carries(t, o) <=> o = cb[t].op
    BY <1>6 DEF Carries, ApiPc, UnregPc
  <2>3. CASE cb[t].op \in Ops
    <3>1. Drops(t, cb[t].op)
      BY <1>1, <1>5, <1>6, <2>1, <2>2 DEF Drops
    <3>2. QED
      BY <2>3, <3>1
  <2>4. CASE cb[t].op = None
    <3>1. outst' = outst
      BY <1>1, <1>6, <2>4, NoneAssumption DEF DataTypes
    <3>2. SameCarriers(Threads)
      BY <1>1, <2>1, <2>2, <2>4, NoneAssumption DEF SameCarriers
    <3>3. QED
      BY <1>5, <3>1, <3>2 DEF Quiet
  <2>5. QED
    BY <1>3, <2>3, <2>4
<1>7. CASE CbCheck(t)
  <2>1. CASE closing[cb[t].key]
    BY <1>1, <1>6, <1>7, <2>1 DEF CbCheck, Goto, NoCarryPc
  <2>2. CASE ~closing[cb[t].key]
    <3>1. outst' = outst /\ pc[t] = "cbcheck" /\ pc'[t] = "cbenter" /\ cb' = cb
      BY <1>1, <1>7, <2>2 DEF CbCheck, Goto
    <3>2. SameCarriers(Threads)
      BY <1>1, <3>1 DEF SameCarriers, Carries, ApiPc, UnregPc
    <3>3. QED
      BY <1>5, <3>1, <3>2 DEF Quiet
  <2>3. QED
    BY <2>1, <2>2
<1>8. CASE CbEnter(t)
  BY <1>1, <1>6, <1>8 DEF CbEnter, Goto, NoCarryPc
<1>9. CASE CbReturn(t) \/ CbEnd(t)
  <2>1. outst' = outst /\ pc[t] \in NoCarryPc /\ pc'[t] \in NoCarryPc
    BY <1>1, <1>3, <1>9 DEF CbReturn, CbEnd, Goto, NoCarryPc, PollPc, histVars
  <2>2. SameCarriers(Threads)
    BY <1>1, <2>1, CarriesNothing, CarriesNothingNext DEF SameCarriers
  <2>3. QED
    BY <1>5, <2>1, <2>2 DEF Quiet
<1>10. QED
  BY <1>7, <1>8, <1>9 DEF CbStep

LEMMA CustodyUnregister ==
    ASSUME IInv, CallInv, NEW t \in Threads,
           \/ UnregLock(t) \/ UnregDel(t) \/ UnregClose(t) \/ UnregDecrement(t)
    PROVE  Quiet
<1>1. /\ Types /\ DataTypes /\ FrameInv /\ ListInv
      /\ OnlyThread(t) /\ SameCarriers(Threads \ {t})
  BY OnlyThreadStep DEF IInv, CallStep
<1> USE DEF Types
<1> DEFINE k == call[t].key
<1>2. pc[t] \in {"unregister"} \cup UnregPc /\ UNCHANGED <<pending, outst>>
  BY DEF UnregLock, UnregDel, UnregClose, UnregDecrement, UnregPc, pendVars, histVars
<1>3. k \in Keys /\ call[t].op = None /\ call[t].ret \in {"idle", "cbend"}
  BY <1>1, <1>2 DEF CallInv, KeyCallPc, FrameInv, ApiPc, CallRecord
<1>4. \/ pc'[t] \in UnregPc /\ call'[t] = call[t]
      \/ pc'[t] \in {"idle", "cbend"} /\ call'[t] = NoCall
  BY <1>1, <1>3 DEF UnregLock, UnregDel, UnregClose, UnregDecrement, Goto, Return, UnregPc
<1>5. SameCarriers(Threads)
  <2>1. \A o \in Ops : ~Carries(t, o)
    BY <1>2, <1>3, CarriesNothing DEF KeyCallPc
  <2>2. \A o \in Ops : ~Carries(t, o)'
    BY <1>3, <1>4, CarriesNothingNext DEF KeyCallPc, NoCarryPc
  <2>3. QED
    BY <1>1, <2>1, <2>2 DEF SameCarriers
<1>6. ASSUME NEW j \in Keys
      PROVE  Serving(j)' <=> Serving(j)
  <2>1. CASE UnregLock(t)
    <3>1. UNCHANGED closing
      BY <2>1 DEF UnregLock, lifeVars
    <3>2. ~closing[j] \/ (Unregisters(t, j)' <=> Unregisters(t, j))
      <4>1. CASE closing[k]
        BY <1>1, <1>3, <2>1, <4>1 DEF UnregLock, Unregisters, UnregPc, Return, Goto
      <4>2. CASE ~closing[k]
        BY <1>1, <1>3, <2>1, <4>2 DEF UnregLock, Unregisters, UnregPc, Goto
      <4>3. QED
        BY <4>1, <4>2
    <3>3. QED
      BY <1>1, <3>1, <3>2, ServingSame
  <2>2. CASE UnregDel(t)
    <3>1. ~closing[k] /\ UNCHANGED closing
      BY <1>1, <1>3, <2>2 DEF UnregDel, ListInv
    <3>2. j # k => (Unregisters(t, j)' <=> Unregisters(t, j))
      BY <1>3, <1>4, NoneAssumption DEF Unregisters, NoCall, UnregPc
    <3>3. QED
      BY <1>1, <3>1, <3>2, ServingSame
  <2>3. CASE UnregClose(t)
    <3>1. CASE j = k
      <4>1. Serving(j) /\ Serving(j)'
        BY <1>1, <1>3, <2>3, <3>1 DEF UnregClose, Serving, UnregPc, Goto
      <4>2. QED
        BY <4>1
    <3>2. CASE j # k
      <4>1. closing'[j] = closing[j]
        BY <1>1, <1>3, <2>3, <3>2 DEF UnregClose
      <4>2. ~Unregisters(t, j) /\ ~Unregisters(t, j)'
        BY <1>4, <3>2, NoneAssumption DEF Unregisters, NoCall
      <4>3. QED
        BY <1>1, <4>1, <4>2, ServingSame
    <3>3. QED
      BY <3>1, <3>2
  <2>4. CASE UnregDecrement(t)
    <3>1. UNCHANGED <<closing, call>> /\ pc[t] \in UnregPc /\ pc'[t] \in UnregPc
      BY <1>1, <2>4 DEF UnregDecrement, Decrement, Goto, UnregPc
    <3>2. Unregisters(t, j)' <=> Unregisters(t, j)
      BY <3>1 DEF Unregisters
    <3>3. QED
      BY <1>1, <3>1, <3>2, ServingSame
  <2>5. QED
    BY <2>1, <2>2, <2>3, <2>4
<1>7. QED
  BY <1>2, <1>5, <1>6, LinksSame DEF Quiet

LEMMA CustodyUnregEnd ==
    ASSUME IInv, CallInv, NEW t \in Threads, UnregUnlock(t)
    PROVE  \E k \in Keys : Returns(k)
<1>1. /\ Types /\ DataTypes /\ FrameInv /\ LockInv
      /\ OnlyThread(t) /\ SameCarriers(Threads \ {t})
  BY OnlyThreadStep DEF IInv, CallStep
<1> USE DEF Types
<1>0. PICK k \in Keys : k = call[t].key
  BY <1>1 DEF UnregUnlock, FrameInv, ApiPc, UnregPc
<1>2. /\ pc[t] = "unreg_unlock" /\ UNCHANGED <<pending, closing>>
      /\ outst' = {o \in outst : \A l \in OpCalls : ~On(pending[k][l], o)}
  BY <1>0 DEF UnregUnlock, pendVars, lifeVars
<1>3. /\ call[t].op = None /\ call[t].ret \in {"idle", "cbend"}
      /\ closing[k]
  BY <1>0, <1>1, <1>2 DEF CallInv, KeyCallPc, UnregPc, CallRecord
<1>4. pc'[t] \in {"idle", "cbend"}
  BY <1>1, <1>3 DEF UnregUnlock, Return, Goto
<1>5. SameCarriers(Threads)
  <2>1. \A o \in Ops : ~Carries(t, o)
    BY <1>2, <1>3, CarriesNothing DEF KeyCallPc, UnregPc
  <2>2. \A o \in Ops : ~Carries(t, o)'
    BY <1>4, CarriesNothingNext DEF NoCarryPc
  <2>3. QED
    BY <1>1, <2>1, <2>2 DEF SameCarriers
<1>6. Serving(k) /\ ~Serving(k)'
  <2>1. Serving(k)
    BY <1>0, <1>2 DEF Serving, UnregPc
  <2>2. ASSUME NEW u \in Threads, pc'[u] \in UnregPc, call'[u].key = k
        PROVE  FALSE
    <3>1. u # t
      BY <1>4, <2>2 DEF UnregPc
    <3>2. pc[u] \in UnregPc /\ call[u].key = k
      BY <1>1, <2>2, <3>1 DEF OnlyThread
    <3>3. pc[t] \in UnregPc
      BY <1>2 DEF UnregPc
    <3>4. QED
      BY <1>0, <1>1, <3>1, <3>2, <3>3, UnregAlone
  <2>3. QED
    BY <1>2, <1>3, <2>1, <2>2 DEF Serving
<1>7. ASSUME NEW j \in Keys, j # k
      PROVE  Serving(j)' <=> Serving(j)
  <2>1. ~Unregisters(t, j) /\ ~Unregisters(t, j)'
    BY <1>0, <1>4, <1>7 DEF Unregisters, UnregPc
  <2>2. QED
    BY <1>1, <1>2, <2>1, ServingSame
<1>8. \A j \in Keys, m \in OpCalls, i \in Nat, x \in Ops :
          Linked(j, m, i, x)' <=> j # k /\ Linked(j, m, i, x)
  BY <1>2, <1>6, <1>7 DEF Linked
<1>9. outst' = {x \in outst : \A l \in OpCalls, i \in Nat : ~Linked(k, l, i, x)}
  <2>1. ASSUME NEW x \in Ops, NEW l \in OpCalls
        PROVE  On(pending[k][l], x) <=> \E i \in Nat : Linked(k, l, i, x)
    <3>1. pending[k][l] \in Seq(Ops)
      BY <1>1 DEF DataTypes
    <3>2. DOMAIN pending[k][l] \subseteq Nat
      BY <3>1
    <3>3. QED
      BY <1>6, <3>2 DEF On, Linked
  <2>2. outst \subseteq Ops
    BY <1>1 DEF DataTypes
  <2>3. QED
    BY <1>2, <2>1, <2>2
<1>10. QED
  BY <1>3, <1>5, <1>8, <1>9 DEF Returns

\* The calls that submit operations.
LEMMA CustodySubmit ==
    ASSUME IInv, CallInv, NEW t \in Threads,
           RecvTry(t) \/ SendTry(t) \/ AcceptTry(t) \/ QueueOp(t)
    PROVE  \/ Quiet
           \/ \E o \in Ops : Drops(t, o)
           \/ \E k \in Keys, l \in OpCalls, n \in Nat, o \in Ops : Pushes(t, k, l, n, o)
<1>1. /\ Types /\ DataTypes /\ FrameInv
      /\ OnlyThread(t) /\ SameCarriers(Threads \ {t})
  BY OnlyThreadStep DEF IInv, CallStep
<1> USE DEF Types
<1>2. pc[t] \in {"recv", "send", "accept", "queue_op"} /\ UNCHANGED closing
  BY DEF RecvTry, SendTry, AcceptTry, QueueOp, lifeVars
<1>3. PICK k \in Keys, l \in OpCalls, o \in Ops :
          k = call[t].key /\ l = call[t].kind /\ o = call[t].op
  BY <1>1, <1>2 DEF FrameInv, ApiPc
<1>4. call[t].ret \in {"idle", "cbend"} /\ outst \subseteq Ops
  BY <1>1 DEF CallRecord, DataTypes
<1>5. \A x \in Ops : Carries(t, x) <=> x = o
  BY <1>2, <1>3 DEF Carries, ApiPc
<1>6. ASSUME Return(t)
      PROVE  \A x \in Ops : ~Carries(t, x)'
  <2>1. pc'[t] \in {"idle", "cbend"}
    BY <1>1, <1>4, <1>6 DEF Return, Goto
  <2>2. QED
    BY <2>1, CarriesNothingNext DEF NoCarryPc
<1>7. ASSUME UNCHANGED pending, pc'[t] \in {"idle", "cbend", "queue_op"}
      PROVE  SameLinks
  <2>1. pc[t] \notin UnregPc /\ pc'[t] \notin UnregPc
    BY <1>2, <1>7 DEF UnregPc
  <2>2. QED
    BY <1>1, <1>2, <1>7, <2>1, LinksKept
<1>8. ASSUME UNCHANGED pending, Return(t), outst' = outst \ {o}
      PROVE  Drops(t, o)
  <2>1. pc'[t] \in {"idle", "cbend"}
    BY <1>1, <1>4, <1>8 DEF Return, Goto
  <2>2. QED
    BY <1>1, <1>5, <1>6, <1>7, <1>8, <2>1 DEF Drops
<1>9. ASSUME UNCHANGED <<pending, call, outst>>, Goto(t, "queue_op")
      PROVE  Quiet
  <2>1. pc'[t] = "queue_op"
    BY <1>1, <1>9 DEF Goto
  <2>2. \A x \in Ops : Carries(t, x)' <=> x = o
    BY <1>3, <1>9, <2>1 DEF Carries, ApiPc
  <2>3. SameCarriers(Threads)
    BY <1>1, <1>5, <2>2 DEF SameCarriers
  <2>4. QED
    BY <1>7, <1>9, <2>1, <2>3 DEF Quiet
<1>10. CASE RecvTry(t)
  <2>1. /\ UNCHANGED pending
        /\ \/ Return(t) /\ outst' = outst \ {o}
           \/ Goto(t, "queue_op") /\ UNCHANGED <<call, outst>>
    BY <1>3, <1>10 DEF RecvTry
  <2>2. QED
    BY <1>3, <1>8, <1>9, <2>1
<1>11. CASE SendTry(t)
  <2>1. /\ UNCHANGED pending
        /\ \/ Return(t) /\ outst' = outst \ {o}
           \/ Goto(t, "queue_op") /\ UNCHANGED <<call, outst>>
    BY <1>3, <1>11 DEF SendTry
  <2>2. QED
    BY <1>3, <1>8, <1>9, <2>1
<1>12. CASE AcceptTry(t)
  <2>1. /\ UNCHANGED pending
        /\ \/ Return(t) /\ outst' = outst \ {o}
           \/ Goto(t, "queue_op") /\ UNCHANGED <<call, outst>>
    BY <1>3, <1>12 DEF AcceptTry
  <2>2. QED
    BY <1>3, <1>8, <1>9, <2>1
<1>13. CASE QueueOp(t)
  <2>1. CASE closing[k]
    <3>1. UNCHANGED pending /\ Return(t) /\ outst' = outst \ {o}
      BY <1>3, <1>13, <2>1 DEF QueueOp
    <3>2. QED
      BY <1>3, <1>8, <3>1
  <2>2. CASE ~closing[k]
    <3>1. /\ Return(t) /\ UNCHANGED outst
          /\ pending' = [pending EXCEPT ![k][l] = Append(@, o)]
      BY <1>3, <1>13, <2>2 DEF QueueOp
    <3> DEFINE s == pending[k][l]
    <3>2. s \in Seq(Ops) /\ pending \in [Keys -> [OpCalls -> Seq(Ops)]]
      BY <1>1 DEF DataTypes
    <3>3. \A j \in Keys, m \in OpCalls : ~(j = k /\ m = l) => pending'[j][m] = pending[j][m]
      BY <3>1, <3>2
    <3>4. pending'[k][l] = Append(s, o)
      BY <3>1, <3>2
    <3>5. \A i \in Nat, x \in Ops :
            i \in DOMAIN Append(s, o) /\ Append(s, o)[i] = x
              <=> (i \in DOMAIN s /\ s[i] = x) \/ (i = Len(s) + 1 /\ x = o)
      BY <3>2
    <3>6. \A j \in Keys : Serving(j)' <=> Serving(j)
      <4>1. pc'[t] \in {"idle", "cbend"}
        BY <1>1, <1>4, <3>1 DEF Return, Goto
      <4>2. \A j \in Keys : ~Unregisters(t, j) /\ ~Unregisters(t, j)'
        BY <1>2, <4>1 DEF Unregisters, UnregPc
      <4>3. QED
        BY <1>1, <1>2, <4>2, ServingSame
    <3>7. Serving(k)
      BY <2>2 DEF Serving
    <3>8. \A j \in Keys, m \in OpCalls, i \in Nat, x \in Ops :
            Linked(j, m, i, x)' <=> \/ Linked(j, m, i, x)
                                    \/ j = k /\ m = l /\ i = Len(s) + 1 /\ x = o
      <4> SUFFICES ASSUME NEW j \in Keys, NEW m \in OpCalls, NEW i \in Nat, NEW x \in Ops
                   PROVE  Linked(j, m, i, x)' <=>
                            \/ Linked(j, m, i, x)
                            \/ j = k /\ m = l /\ i = Len(s) + 1 /\ x = o
        OBVIOUS
      <4>1. CASE j = k /\ m = l
        BY ZenonT(60), <3>4, <3>5, <3>6, <3>7, <4>1 DEF Linked
      <4>2. CASE ~(j = k /\ m = l)
        BY <3>3, <3>6, <4>2 DEF Linked
      <4>3. QED
        BY <4>1, <4>2
    <3>9. PICK n \in Nat : n = Len(s) + 1
      BY <3>2
    <3>10. Pushes(t, k, l, n, o)
      BY <1>1, <1>5, <1>6, <3>1, <3>8, <3>9 DEF Pushes
    <3>11. QED
      BY <3>10
  <2>3. QED
    BY <2>1, <2>2
<1>14. QED
  BY <1>10, <1>11, <1>12, <1>13

LEMMA CustodyConnect ==
    ASSUME IInv, CallInv, NEW t \in Threads, ConnectTry(t) \/ ConnectQueue(t)
    PROVE  Quiet
<1>1. Types /\ OnlyThread(t) /\ SameCarriers(Threads \ {t})
  BY OnlyThreadStep DEF IInv, CallStep
<1> USE DEF Types
<1>2. pc[t] \in {"connect", "connect_lock"} /\ UNCHANGED <<pending, closing, outst>>
  BY DEF ConnectTry, ConnectQueue, lifeVars, pendVars, histVars
<1>3. call[t].ret \in {"idle", "cbend"} /\ call[t].op = None
  BY <1>1, <1>2 DEF CallRecord, CallInv, KeyCallPc
<1>4. pc'[t] \in {"idle", "cbend"} \/ (pc'[t] = "connect_lock" /\ call'[t] = call[t])
  BY <1>1, <1>3 DEF ConnectTry, ConnectQueue, Return, Goto
<1>5. SameCarriers(Threads)
  <2>1. \A o \in Ops : ~Carries(t, o)
    BY <1>2, <1>3, CarriesNothing DEF KeyCallPc
  <2>2. \A o \in Ops : ~Carries(t, o)'
    BY <1>3, <1>4, CarriesNothingNext DEF KeyCallPc, NoCarryPc
  <2>3. QED
    BY <1>1, <2>1, <2>2 DEF SameCarriers
<1>6. SameLinks
  <2>1. pc[t] \notin UnregPc /\ pc'[t] \notin UnregPc
    BY <1>2, <1>4 DEF UnregPc
  <2>2. QED
    BY <1>1, <1>2, <2>1, LinksKept
<1>7. QED
  BY <1>2, <1>5, <1>6 DEF Quiet

LEMMA CustodyRegister ==
    ASSUME IInv, FreshInv, NEW t \in Threads, Register(t)
    PROVE  Quiet
<1>1. Types /\ DataTypes /\ ListInv
  BY DEF IInv
<1> USE DEF Types
<1>2. UNCHANGED <<pc, cb, call, outst>>
  BY DEF Register
<1>3. SameCarriers(Threads)
  BY <1>2 DEF SameCarriers, Carries
<1>4. CASE UNCHANGED <<pending, closing>>
  BY <1>2, <1>3, <1>4 DEF Quiet, SameLinks, Linked, Serving
<1>5. ASSUME NEW k \in Keys, Scanned[k] = "free", InitKey(k)
      PROVE  Quiet
  <2>1. /\ pending' = [pending EXCEPT ![k] = [l \in OpCalls |-> <<>>]]
        /\ closing' = [closing EXCEPT ![k] = FALSE]
    BY <1>5 DEF InitKey
  <2>2. pending \in [Keys -> [OpCalls -> Seq(Ops)]]
    BY <1>1 DEF DataTypes
  <2>3. ASSUME NEW l \in OpCalls, NEW i \in Nat, NEW o \in Ops
        PROVE  ~Linked(k, l, i, o) /\ ~Linked(k, l, i, o)'
    <3>1. ~Linked(k, l, i, o)'
      BY <2>1, <2>2 DEF Linked
    <3>2. CASE closing[k]
      <4>1. \A u \in Threads : ~Busy(u, k)
        BY <1>1, <1>5 DEF Scanned, ListInv
      <4>2. ~Serving(k)
        BY <3>2, <4>1 DEF Serving, Busy, ApiPc
      <4>3. QED
        BY <3>1, <4>2 DEF Linked
    <3>3. CASE ~closing[k]
      <4>1. list[k] = "free"
        BY <1>1, <1>5, <3>3 DEF Scanned, ListInv
      <4>2. pending[k][l] = <<>>
        BY <3>3, <4>1 DEF FreshInv
      <4>3. QED
        BY <3>1, <4>2 DEF Linked
    <3>4. QED
      BY <3>2, <3>3
  <2>4. ASSUME NEW j \in Keys, j # k, NEW l \in OpCalls, NEW i \in Nat, NEW o \in Ops
        PROVE  Linked(j, l, i, o)' <=> Linked(j, l, i, o)
    <3>1. pending'[j] = pending[j] /\ closing'[j] = closing[j]
      BY <2>1, <2>2, <2>4, <1>1
    <3>2. QED
      BY <1>2, <3>1 DEF Linked, Serving
  <2>5. SameLinks
    BY <2>3, <2>4 DEF SameLinks
  <2>6. QED
    BY <1>2, <1>3, <2>5 DEF Quiet
<1>6. QED
  BY <1>4, <1>5 DEF Register, pendVars

LEMMA CustodyNewCall ==
    ASSUME NoPosts, IInv, CallInv, FreshInv, NEW t \in Threads, NewCall(t)
    PROVE  Quiet \/ \E o \in Ops : Takes(t, o)
<1>1. Types /\ OnlyThread(t) /\ SameCarriers(Threads \ {t})
  BY OnlyThreadStep DEF IInv
<1> USE DEF Types
<1>2. ASSUME NEW k \in Keys, SetConcurrency(t, k)
      PROVE  Quiet
  <2>1. UNCHANGED <<pc, cb, call, outst, pending, closing>>
    BY <1>2 DEF SetConcurrency, lifeVars, pendVars, histVars
  <2>2. QED
    BY <2>1 DEF Quiet, SameLinks, SameCarriers, Linked, Serving, Carries
<1>3. ASSUME NEW c \in KeyCalls, NEW k \in Keys, NEW o \in Ops \cup {None},
             BeginCall(t, c, k, o)
      PROVE  Quiet \/ \E x \in Ops : Takes(t, x)
  <2>1. /\ pc[t] \in {"idle", "incb"} /\ pc'[t] = c /\ call'[t].op = o
        /\ UNCHANGED <<pending, closing>>
    BY <1>1, <1>3 DEF BeginCall, Goto, lifeVars, pendVars
  <2>2. c # "post"
    BY <1>3, CallsAssumption DEF BeginCall, NoPosts, OpCalls
  <2>3. \A x \in Ops : ~Carries(t, x)
    BY <2>1, CarriesNothing DEF NoCarryPc
  <2>4. SameLinks
    <3>1. pc[t] \notin UnregPc /\ pc'[t] \notin UnregPc
      BY <2>1 DEF UnregPc, KeyCalls, OpCalls
    <3>2. QED
      BY <1>1, <2>1, <3>1, LinksKept
  <2>5. CASE c \in OpCalls
    <3>1. o \in Ops \ outst /\ outst' = outst \cup {o}
      BY <1>3, <2>5 DEF BeginCall, OpCalls
    <3>2. \A x \in Ops : Carries(t, x)' <=> x = o
      BY <2>1, <2>5 DEF Carries, ApiPc, OpCalls
    <3>3. Takes(t, o)
      BY <1>1, <2>3, <2>4, <3>1, <3>2 DEF Takes
    <3>4. QED
      BY <3>1, <3>3
  <2>6. CASE c \in {"connect", "unregister"}
    <3>1. outst' = outst /\ o = None
      BY <1>3, <2>6 DEF BeginCall, OpCalls
    <3>2. \A x \in Ops : ~Carries(t, x)'
      BY <2>1, <2>6, <3>1, CarriesNothingNext DEF KeyCallPc
    <3>3. QED
      BY <1>1, <2>3, <2>4, <3>1, <3>2 DEF Quiet, SameCarriers
  <2>7. QED
    BY <1>3, <2>2, <2>5, <2>6 DEF BeginCall
<1>4. QED
  BY <1>2, <1>3, CustodyRegister DEF NewCall

\* closing is set by pj_ioqueue_unregister and cleared by a registration.
LEMMA ClosingFrame ==
    ASSUME [Next]_vars
    PROVE  UNCHANGED closing \/ \E t \in Threads : Register(t) \/ UnregClose(t)
<1> USE DEF lifeVars
<1>1. ASSUME NEW t \in Threads, PollStep(t)
      PROVE  UNCHANGED closing
  BY <1>1 DEF PollStep, PollWait, PollLock, PollUnlock, PollDecrement, PollReturn,
     PollScan, ConnectTimeoutBegin, ConnectTimeoutEnd, Collect, DispatchNothing,
     DispatchRead, DispatchWrite, DispatchConnect, ConnectTimeoutKey, Decrement
<1>2. ASSUME NEW t \in Threads, CbStep(t)
      PROVE  UNCHANGED closing
  BY <1>2 DEF CbStep, CbCheck, CbEnter, CbReturn, CbEnd
<1>3. ASSUME NEW t \in Threads, CallStep(t), ~UnregClose(t)
      PROVE  UNCHANGED closing
  BY <1>3 DEF CallStep, UnregLock, UnregDel, UnregDecrement, UnregUnlock,
     RecvTry, SendTry, AcceptTry, QueueOp, ConnectTry, ConnectQueue,
     PostCompletion, Decrement
<1>4. ASSUME NEW t \in Threads, NewCall(t), ~Register(t)
      PROVE  UNCHANGED closing
  BY <1>4 DEF NewCall, SetConcurrency, BeginCall
<1>5. CASE Environment
  BY <1>5 DEF Environment, Arrive, ConnectResolves, FreeDelayPasses, ConnectDelayPasses
<1>6. CASE UNCHANGED vars
  BY <1>6 DEF vars
<1>7. QED
  BY <1>1, <1>2, <1>3, <1>4, <1>5, <1>6 DEF Next

\* A key in use is not given to a new socket.
LEMMA BusyStaysClosing ==
    ASSUME IInv, [Next]_vars, NEW u \in Threads, NEW k \in Keys, Busy(u, k), closing[k]
    PROVE  closing'[k]
<1>1. Types /\ ListInv
  BY DEF IInv
<1>2. Scanned[k] # "free"
  BY <1>1 DEF ListInv, Scanned, Types
<1>3. ASSUME NEW t \in Threads, Register(t)
      PROVE  closing'[k]
  <2>1. \/ UNCHANGED closing
        \/ \E j \in Keys : Scanned[j] = "free" /\ closing' = [closing EXCEPT ![j] = FALSE]
    BY <1>3 DEF Register, InitKey
  <2>2. QED
    BY <1>1, <1>2, <2>1 DEF Types
<1>4. ASSUME NEW t \in Threads, UnregClose(t)
      PROVE  closing'[k]
  BY <1>1, <1>4 DEF UnregClose, Types
<1>5. QED
  BY <1>3, <1>4, ClosingFrame

LEMMA CallInvStep ==
    ASSUME NoPosts, IInv, CallInv, [Next]_vars
    PROVE  CallInv'
<1>1. Types /\ FrameInv /\ ListInv
  BY DEF IInv
<1> USE DEF Types
<1> DEFINE Fine(t) == /\ pc[t] # "post"
                      /\ pc[t] \in KeyCallPc => call[t].op = None
                      /\ pc[t] = "unreg_unlock" => closing[call[t].key]
<1>2. ASSUME NEW u \in Threads, pc'[u] = pc[u], call'[u] = call[u]
      PROVE  Fine(u)'
  <2>1. Fine(u)
    BY DEF CallInv
  <2>2. ASSUME pc[u] = "unreg_unlock"
        PROVE  closing'[call[u].key]
    <3>1. call[u].key \in Keys /\ pc[u] \in ApiPc
      BY <1>1, <2>2 DEF FrameInv, ApiPc, UnregPc
    <3>2. Busy(u, call[u].key)
      BY <3>1 DEF Busy
    <3>3. QED
      BY <2>1, <2>2, <3>1, <3>2, BusyStaysClosing
  <2>3. QED
    BY <1>2, <2>1, <2>2
<1>3. ASSUME NEW t \in Threads, pc'[t] \notin KeyCallPc \cup {"post"}
      PROVE  Fine(t)'
  BY <1>3 DEF KeyCallPc, UnregPc
<1>4. ASSUME NEW t \in Threads, PollStep(t)
      PROVE  Fine(t)'
  <2>1. UNCHANGED <<pc, call>> \/ pc'[t] \in {"idle", "cbcheck"} \cup PollPc
    <3>1. CASE \/ PollWait(t) \/ PollLock(t) \/ PollUnlock(t) \/ PollDecrement(t)
               \/ PollReturn(t) \/ PollScan(t)
               \/ ConnectTimeoutBegin(t) \/ ConnectTimeoutEnd(t)
      BY <1>1, <3>1 DEF PollWait, PollLock, PollUnlock, PollDecrement, PollReturn,
         PollScan, ConnectTimeoutBegin, ConnectTimeoutEnd, Goto, PollPc
    <3>2. ASSUME NEW k \in Keys,
                 \/ Collect(t, k) \/ DispatchNothing(t, k) \/ DispatchRead(t, k)
                 \/ DispatchWrite(t, k) \/ DispatchConnect(t, k)
                 \/ ConnectTimeoutKey(t, k)
          PROVE  UNCHANGED <<pc, call>> \/ pc'[t] \in {"idle", "cbcheck"} \cup PollPc
      BY <1>1, <3>2 DEF Collect, DispatchNothing, DispatchRead, DispatchWrite,
         DispatchConnect, ConnectTimeoutKey, Goto, PollPc
    <3>3. QED
      BY <1>4, <3>1, <3>2 DEF PollStep
  <2>2. ({"idle", "cbcheck"} \cup PollPc) \cap (KeyCallPc \cup {"post"}) = {}
    BY DEF PollPc, KeyCallPc, UnregPc
  <2>3. QED
    BY <1>2, <1>3, <2>1, <2>2
<1>5. ASSUME NEW t \in Threads, CbStep(t)
      PROVE  Fine(t)'
  <2>1. cb[t].then \in {"idle", "dec", "ctloop"}
    BY <1>1 DEF CbRecord
  <2>2. pc'[t] \in CbPc \cup {"idle", "dec", "ctloop"}
    BY <1>1, <1>5, <2>1 DEF CbStep, CbCheck, CbEnter, CbReturn, CbEnd, Goto, CbPc
  <2>3. QED
    BY <1>3, <2>2 DEF CbPc, KeyCallPc, UnregPc
<1>6. ASSUME NEW t \in Threads, CallStep(t)
      PROVE  Fine(t)'
  <2>0. call[t].ret \in {"idle", "cbend"} /\ Fine(t)
    BY <1>1 DEF CallRecord, CallInv
  <2>1. CASE RecvTry(t) \/ SendTry(t) \/ AcceptTry(t)
    <3>1. pc'[t] \in {"idle", "cbend", "queue_op"}
      BY <1>1, <2>0, <2>1 DEF RecvTry, SendTry, AcceptTry, Return, Goto
    <3>2. QED
      BY <1>3, <3>1 DEF KeyCallPc, UnregPc
  <2>2. CASE QueueOp(t) \/ ConnectQueue(t) \/ UnregUnlock(t)
    <3>1. pc'[t] \in {"idle", "cbend"}
      BY <1>1, <2>0, <2>2 DEF QueueOp, ConnectQueue, UnregUnlock, Return, Goto
    <3>2. QED
      BY <1>3, <3>1 DEF KeyCallPc, UnregPc
  <2>3. CASE UnregLock(t) \/ UnregDel(t) \/ UnregClose(t) \/ ConnectTry(t)
    <3>1. \/ pc'[t] \in {"idle", "cbend"}
          \/ /\ pc'[t] \in {"unreg_del", "unreg_close", "unreg_dec", "connect_lock"}
             /\ call'[t] = call[t] /\ pc[t] \in KeyCallPc
      BY <1>1, <2>0, <2>3 DEF UnregLock, UnregDel, UnregClose, ConnectTry, Return, Goto,
         KeyCallPc, UnregPc
    <3>2. QED
      BY <1>3, <2>0, <3>1 DEF KeyCallPc, UnregPc
  <2>4. CASE UnregDecrement(t)
    <3>1. /\ pc[t] = "unreg_dec" /\ pc'[t] = "unreg_unlock"
          /\ UNCHANGED <<call, closing>>
      BY <1>1, <2>4 DEF UnregDecrement, Decrement, Goto
    <3>2. closing[call[t].key] /\ call[t].op = None
      BY <1>1, <2>0, <3>1 DEF FrameInv, ListInv, ApiPc, UnregPc, KeyCallPc
    <3>3. QED
      BY <3>1, <3>2
  <2>5. CASE PostCompletion(t)
    BY <2>0, <2>5 DEF PostCompletion
  <2>6. QED
    BY <1>6, <2>1, <2>2, <2>3, <2>4, <2>5 DEF CallStep
<1>7. ASSUME NEW t \in Threads, NewCall(t)
      PROVE  Fine(t)'
  <2>1. CASE Register(t) \/ \E k \in Keys : SetConcurrency(t, k)
    <3>1. UNCHANGED <<pc, call>>
      BY <2>1 DEF Register, SetConcurrency
    <3>2. QED
      BY <1>2, <3>1
  <2>2. ASSUME NEW c \in KeyCalls, NEW k \in Keys, NEW o \in Ops \cup {None},
               BeginCall(t, c, k, o)
        PROVE  Fine(t)'
    <3>1. c # "post" /\ pc'[t] = c /\ call'[t].op = o
      BY <1>1, <2>2, CallsAssumption DEF BeginCall, NoPosts, OpCalls, Goto
    <3>2. c \in {"connect", "unregister"} => o = None
      BY <2>2 DEF BeginCall, OpCalls
    <3>3. QED
      BY <3>1, <3>2 DEF KeyCallPc, UnregPc, KeyCalls, OpCalls
  <2>3. QED
    BY <1>7, <2>1, <2>2 DEF NewCall
<1>8. ASSUME NEW t \in Threads, PollStep(t) \/ CbStep(t) \/ CallStep(t) \/ NewCall(t)
      PROVE  CallInv'
  <2>1. \A u \in Threads \ {t} : Fine(u)'
    BY <1>1, <1>2, <1>8, OwnRecords
  <2>2. Fine(t)'
    BY <1>4, <1>5, <1>6, <1>7, <1>8
  <2>3. QED
    BY <2>1, <2>2 DEF CallInv
<1>9. CASE Environment \/ UNCHANGED vars
  <2>1. UNCHANGED <<pc, call>>
    BY <1>9, EnvironmentRecords
  <2>2. QED
    BY <1>2, <2>1 DEF CallInv
<1>10. QED
  BY <1>8, <1>9 DEF Next

LEMMA FreshStep ==
    ASSUME IInv, CallInv, FreshInv, [Next]_vars
    PROVE  FreshInv'
<1>1. Types /\ DataTypes /\ FrameInv /\ ListInv /\ [CoreNext]_core
  BY CoreStep DEF IInv
<1> USE DEF Types
<1> SUFFICES ASSUME NEW k \in Keys, list'[k] = "free", ~closing'[k], NEW l \in OpCalls
             PROVE  pending'[k][l] = <<>>
  BY DEF FreshInv
<1>2. list[k] = "free" /\ ~closing[k]
  <2>1. ASSUME NEW t \in Threads, CorePoll(t) \/ CbStep(t)
        PROVE  UNCHANGED closing /\ (list'[k] = list[k] \/ list[k] = "closing" \/ list'[k] = "closing")
    BY <1>1, <2>1 DEF CorePoll, WaitEvents, PollMove, PollLock, PollUnlock,
       PollDecrement, Decrement, PollReturn, PollScan, Scanned, WalkBegin,
       ConnectTimeoutEnd, Collect, WalkSkip, DispatchNothing, WalkCb, DispatchCb,
       Deliver, CbStep, CbCheck, CbEnter, CbReturn, CbEnd, lifeVars, keyVars
  <2>2. ASSUME NEW t \in Threads, CoreCall(t)
        PROVE  /\ closing'[k] \/ closing'[k] = closing[k]
               /\ list'[k] = list[k] \/ list'[k] = "closing"
    <3>1. call[t].key \in Keys \/ UNCHANGED <<closing, list>>
      BY <1>1, <2>2 DEF CoreCall, UnregLock, UnregDelOk, UnregDelFail, UnregClose,
         UnregDecrement, UnregUnlock, CallMove, PostCb, Begin, lifeVars, keyVars,
         FrameInv, ApiPc, UnregPc
    <3>2. QED
      BY <1>1, <2>2, <3>1 DEF CoreCall, UnregLock, UnregDelOk, UnregDelFail, UnregClose,
       UnregDecrement, Decrement, UnregUnlock, CallMove, PostCb, Begin, lifeVars, keyVars
  <2>3. CASE RegisterScan \/ UNCHANGED core \/ \E j \in Keys : FreeDelayPasses(j)
    BY <1>1, <2>3 DEF RegisterScan, Scanned, core, FreeDelayPasses, ListInv
  <2>4. ASSUME NEW j \in Keys, NEW n \in Nat, NEW added \in BOOLEAN,
               RegisterKey(j, n, added)
        PROVE  list[k] = "free" /\ ~closing[k]
    BY <1>1, <2>4 DEF RegisterKey, Scanned, ListInv
  <2>5. QED
    BY <1>1, <2>1, <2>2, <2>3, <2>4 DEF CoreNext, ListInv
<1>3. pending[k][l] = <<>> /\ pending \in [Keys -> [OpCalls -> Seq(Ops)]]
  BY <1>1, <1>2 DEF FreshInv, DataTypes
<1>4. CASE UNCHANGED pending
  BY <1>3, <1>4
<1>5. ASSUME NEW t \in Threads, Register(t)
      PROVE  pending'[k][l] = <<>>
  <2>1. \/ UNCHANGED pending
        \/ \E j \in Keys : pending' = [pending EXCEPT ![j] = [m \in OpCalls |-> <<>>]]
    BY <1>5 DEF Register, InitKey, pendVars
  <2>2. QED
    BY <1>3, <2>1
<1>6. ASSUME NEW t \in Threads, QueueOp(t)
      PROVE  pending'[k][l] = <<>>
  <2>1. call[t].key \in Keys /\ pc[t] \in ApiPc
    BY <1>1, <1>6 DEF QueueOp, FrameInv, ApiPc
  <2>2. call[t].key # k
    BY <1>1, <1>2, <2>1 DEF ListInv, Busy
  <2>3. \/ UNCHANGED pending
        \/ pending' = [pending EXCEPT ![call[t].key][call[t].kind] = Append(@, call[t].op)]
    BY <1>6 DEF QueueOp
  <2>4. QED
    BY <1>3, <2>1, <2>2, <2>3
<1>7. ASSUME NEW t \in Threads, NEW j \in Keys, DispatchRead(t, j) \/ DispatchWrite(t, j)
      PROVE  pending'[k][l] = <<>>
  <2>1. queue[t][j] # "NO_EVENT"
    BY <1>7 DEF DispatchRead, DispatchWrite
  <2>2. j # k
    BY <1>1, <1>2, <2>1 DEF ListInv
  <2>3. \E m \in OpCalls : pending' = [pending EXCEPT ![j][m] = Tail(@)]
    <3>1. CASE DispatchRead(t, j)
      BY <3>1 DEF DispatchRead, OpCalls
    <3>2. CASE DispatchWrite(t, j)
      BY <3>2 DEF DispatchWrite, OpCalls
    <3>3. QED
      BY <1>7, <3>1, <3>2
  <2>4. QED
    BY <1>3, <2>2, <2>3
<1>8. ASSUME NEW t \in Threads, PollStep(t),
             ~(\E j \in Keys : DispatchRead(t, j) \/ DispatchWrite(t, j))
      PROVE  UNCHANGED pending
  BY <1>8 DEF PollStep, PollWait, PollLock, PollUnlock, PollDecrement, PollReturn,
     PollScan, ConnectTimeoutBegin, ConnectTimeoutEnd, Collect, DispatchNothing,
     DispatchConnect, ConnectTimeoutKey, pendVars
<1>9. ASSUME NEW t \in Threads, CbStep(t)
      PROVE  UNCHANGED pending
  BY <1>9 DEF CbStep, CbCheck, CbEnter, CbReturn, CbEnd, pendVars
<1>10. ASSUME NEW t \in Threads, CallStep(t), ~QueueOp(t)
       PROVE  UNCHANGED pending
  BY <1>10 DEF CallStep, UnregLock, UnregDel, UnregClose, UnregDecrement, UnregUnlock,
     RecvTry, SendTry, AcceptTry, ConnectTry, ConnectQueue, PostCompletion, pendVars,
     CallInv
<1>11. ASSUME NEW t \in Threads, NewCall(t), ~Register(t)
       PROVE  UNCHANGED pending
  BY <1>11 DEF NewCall, SetConcurrency, BeginCall, pendVars
<1>12. CASE Environment \/ UNCHANGED vars
  <2>1. UNCHANGED pending
    BY <1>12 DEF Environment, Arrive, ConnectResolves, FreeDelayPasses,
       ConnectDelayPasses, vars, pendVars
  <2>2. QED
    BY <1>4, <2>1
<1>13. QED
  BY <1>4, <1>5, <1>6, <1>7, <1>8, <1>9, <1>10, <1>11, <1>12 DEF Next

LEMMA CustodyStep ==
    ASSUME NoPosts, IInv, CallInv, FreshInv, Custody, [Next]_vars
    PROVE  Custody'
<1>1. DataTypes /\ outst \subseteq Ops
  BY DEF IInv, DataTypes
<1>2. ASSUME NEW t \in Threads, PollStep(t)
      PROVE  Custody'
  <2>1. ASSUME NEW k \in Keys, NEW l \in OpCalls, NEW o \in Ops, Pops(t, k, l, o)
        PROVE  Custody'
    <3>1. pending[k][l] \in Seq(Ops)
      BY <1>1 DEF DataTypes
    <3>2. QED
      BY <1>1, <2>1, <3>1, CustodyPops
  <2>2. QED
    BY <1>1, <1>2, <2>1, CustodyPoll, CustodyQuiet
<1>3. ASSUME NEW t \in Threads, CbStep(t)
      PROVE  Custody'
  BY <1>1, <1>3, CustodyCb, CustodyQuiet, CustodyDrops
<1>4. ASSUME NEW t \in Threads, CallStep(t)
      PROVE  Custody'
  <2>1. CASE RecvTry(t) \/ SendTry(t) \/ AcceptTry(t) \/ QueueOp(t)
    BY <1>1, <2>1, CustodySubmit, CustodyQuiet, CustodyDrops, CustodyPushes
  <2>2. CASE UnregLock(t) \/ UnregDel(t) \/ UnregClose(t) \/ UnregDecrement(t)
    BY <1>1, <2>2, CustodyUnregister, CustodyQuiet
  <2>3. CASE UnregUnlock(t)
    BY <1>1, <2>3, CustodyUnregEnd, CustodyReturns
  <2>4. CASE ConnectTry(t) \/ ConnectQueue(t)
    BY <1>1, <2>4, CustodyConnect, CustodyQuiet
  <2>5. CASE PostCompletion(t)
    BY <2>5 DEF PostCompletion, CallInv
  <2>6. QED
    BY <1>4, <2>1, <2>2, <2>3, <2>4, <2>5 DEF CallStep
<1>5. ASSUME NEW t \in Threads, NewCall(t)
      PROVE  Custody'
  BY <1>1, <1>5, CustodyNewCall, CustodyQuiet, CustodyTakes
<1>6. CASE Environment \/ UNCHANGED vars
  <2>1. UNCHANGED <<pc, cb, call, outst, pending, closing>>
    BY <1>6 DEF Environment, Arrive, ConnectResolves, FreeDelayPasses,
       ConnectDelayPasses, vars, pendVars, lifeVars, histVars
  <2>2. Quiet
    BY <2>1 DEF Quiet, SameLinks, SameCarriers, Linked, Serving, Carries
  <2>3. QED
    BY <1>1, <2>2, CustodyQuiet
<1>7. QED
  BY <1>2, <1>3, <1>4, <1>5, <1>6 DEF Next

\* Exactly one place or thread: exactly one custodian.
LEMMA CustodyCounts ==
    ASSUME IInv, Custody
    PROVE  OneCustodian
<1>1. DataTypes /\ outst \subseteq Ops
  BY DEF IInv, DataTypes
<1> SUFFICES ASSUME NEW o \in outst
             PROVE  Cardinality(Custodians(o)) = 1
  BY DEF OneCustodian
<1>2. ASSUME NEW c \in Custodians(o)
      PROVE  \/ \E k \in Keys, l \in OpCalls, i \in Nat : c = <<k, l, i>> /\ Linked(k, l, i, o)
             \/ \E t \in Threads : c = <<t>> /\ Carries(t, o)
  <2>1. CASE \E t \in Threads : c = <<t>> /\ Carries(t, o)
    BY <2>1
  <2>2. ASSUME NEW k \in Keys, Serving(k), NEW l \in OpCalls,
               NEW i \in DOMAIN pending[k][l], pending[k][l][i] = o, c = <<k, l, i>>
        PROVE  \E j \in Keys, m \in OpCalls, n \in Nat : c = <<j, m, n>> /\ Linked(j, m, n, o)
    <3>1. pending[k][l] \in Seq(Ops)
      BY <1>1 DEF DataTypes
    <3>2. i \in Nat
      BY <3>1, <2>2
    <3>3. QED
      BY <2>2, <3>2 DEF Linked
  <2>3. QED
    BY <1>2, <2>1, <2>2 DEF Custodians
<1>3. ASSUME NEW k \in Keys, NEW l \in OpCalls, NEW i \in Nat, Linked(k, l, i, o)
      PROVE  <<k, l, i>> \in Custodians(o)
  <2> DEFINE At(j, m) == {<<j, m, n>> : n \in {x \in DOMAIN pending[j][m] : pending[j][m][x] = o}}
             Served == {x \in Keys : Serving(x)}
  <2>1. k \in Served /\ <<k, l, i>> \in At(k, l)
    BY <1>3 DEF Linked
  <2>2. At(k, l) \in {At(j, m) : j \in Served, m \in OpCalls}
    BY <2>1
  <2>3. <<k, l, i>> \in UNION {At(j, m) : j \in Served, m \in OpCalls}
    <3>1. \A S, A, x : x \in A /\ A \in S => x \in UNION S
      OBVIOUS
    <3> HIDE DEF At, Served
    <3>2. QED
      BY <2>1, <2>2, <3>1
  <2>4. QED
    BY <2>3 DEF Custodians
<1>4. ASSUME NEW t \in Threads, Carries(t, o)
      PROVE  <<t>> \in Custodians(o)
  BY <1>4 DEF Custodians
<1>5. \E c : Custodians(o) = {c}
  <2>1. ASSUME NEW t \in Threads, Carries(t, o)
        PROVE  Custodians(o) = {<<t>>}
    BY <1>1, <1>2, <1>4, <2>1 DEF Custody
  <2>2. ASSUME NEW k \in Keys, NEW l \in OpCalls, NEW i \in Nat, Linked(k, l, i, o)
        PROVE  Custodians(o) = {<<k, l, i>>}
    BY <1>1, <1>2, <1>3, <2>2 DEF Custody
  <2>3. QED
    BY <1>1, <2>1, <2>2 DEF Custody
<1>6. QED
  BY <1>5, FS_Singleton

\* Every outstanding operation is in one list, at one place, or in the hands of
\* one thread, however submitting, dispatching, calling back and unregistering
\* interleave, in an application that posts no completions of its own.
THEOREM OperationsHaveOneCustodian ==
    ASSUME NoPosts
    PROVE  Spec => []OneCustodian
<1> DEFINE Inv == CallInv /\ FreshInv /\ Custody
<1>1. Init => Inv
  <2> SUFFICES ASSUME Init PROVE Inv
    OBVIOUS
  <2>1. CallInv
    BY DEF Init, CallInv, KeyCallPc, UnregPc
  <2>2. FreshInv
    BY DEF Init, FreshInv
  <2>3. Custody
    <3>1. \A t \in Threads, o \in Ops : ~Carries(t, o)
      BY DEF Init, Carries, ApiPc, UnregPc
    <3>2. \A k \in Keys, l \in OpCalls, i \in Nat, o \in Ops : ~Linked(k, l, i, o)
      BY DEF Init, Linked
    <3>3. outst = {}
      BY DEF Init
    <3>4. QED
      BY <3>1, <3>2, <3>3 DEF Custody
  <2>4. QED
    BY <2>1, <2>2, <2>3
<1>2. IInv /\ Inv /\ [Next]_vars => Inv'
  BY CallInvStep, FreshStep, CustodyStep
<1>3. IInv /\ Inv => OneCustodian
  BY CustodyCounts
<1>4. QED
  BY <1>1, <1>2, <1>3, Invariance, PTL DEF Spec
=============================================================================
