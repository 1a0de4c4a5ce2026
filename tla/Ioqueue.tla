------------------------------ MODULE Ioqueue ------------------------------
(***************************************************************************)
(* The epoll I/O queue of ioqueue/src: a fixed table of keys (one per      *)
(* registered socket), polled by several threads while other threads, and  *)
(* the completion callbacks themselves, register and unregister sockets    *)
(* and submit reads, writes, accepts and connects on them.                 *)
(*                                                                         *)
(* Two kinds of lock protect it: ioqueue->lock (qlock, not recursive) and  *)
(* one recursive lock per key (klock, kdepth).  A critical section that    *)
(* neither blocks nor calls back is one step guarded by its lock; the      *)
(* sections that block on a second lock or run a callback keep the lock in *)
(* the state.                                                              *)
(***************************************************************************)
EXTENDS Integers, Sequences, FiniteSets

CONSTANTS
    Threads,     \* every thread that polls or calls the API
    Keys,        \* the pj_ioqueue_key_t records that pj_ioqueue_create makes
    Ops,         \* the pj_ioqueue_op_key_t records of the application
    None,        \* no thread, no key, no operation
    Calls,       \* Calls[t]: what the application makes thread t do
    CbCalls,     \* what a callback may call, on the key it is called for
    Concurrent,  \* ioqueue->default_concurrency
    Faults,      \* the system calls that may fail: "add", "del", "send"
    MaxFd,       \* bound: sockets registered over a whole behaviour
    MaxRx,       \* bound: datagrams waiting in one socket
    MaxEvents    \* PJ_IOQUEUE_MAX_CAND_EVENTS

OpCalls  == {"recv", "send", "accept"}
KeyCalls == OpCalls \cup {"connect", "unregister", "post", "set_concurrency"}

ASSUME ThreadsAssumption == IsFiniteSet(Threads)
ASSUME KeysAssumption    == IsFiniteSet(Keys)
ASSUME NoneAssumption    == None \notin Threads \cup Keys \cup Ops
ASSUME CallsAssumption   ==
    /\ Calls \in [Threads -> SUBSET (KeyCalls \cup {"poll", "register"})]
    /\ CbCalls \subseteq OpCalls \cup {"connect", "unregister"}
ASSUME SettingsAssumption ==
    /\ Concurrent \in BOOLEAN
    /\ Faults \subseteq {"add", "del", "send"}
ASSUME BoundsAssumption  ==
    MaxFd \in Nat /\ MaxRx \in Nat /\ MaxEvents \in Nat \ {0}

VARIABLES
    qlock,             \* owner of ioqueue->lock
    klock, kdepth,     \* owner and recursion depth of key->lock
    list,              \* the ioqueue list key->list is linked into
    ref_count, closing,
    free_due,          \* now >= key->free_time
    fd,                \* the socket, numbered by registration; 0 before the first
    count,             \* ioqueue->count
    allow_concurrent,
    pending,           \* read_list, write_list and accept_list of each key
    connecting,
    connect_due,       \* now >= key->connect_time
    op,                \* op_key->op
    polled,            \* kernel: the socket is open and in the epoll set
    want_out,          \* kernel: EPOLLOUT is in its interest set
    rx,                \* kernel: datagrams or connections waiting in the socket
    conn,              \* kernel: progress of connect()
    pc,
    evs,               \* evs[t][k]: events epoll_wait returned, not yet collected
    queue,             \* queue[t][k]: the queue[] of pj_ioqueue_poll
    todo,              \* keys ioqueue_connect_timeout has still to visit
    cb,                \* the completion a thread is delivering
    call,              \* the API call a thread is in
    eagain,            \* errno = EAGAIN in this thread
    outst,             \* history: operations submitted and not completed
    dropped,           \* history: a datagram was read and handed to no one
    broken             \* history: assertions of the source evaluated to false

lockVars == <<qlock, klock, kdepth>>
lifeVars == <<list, ref_count, closing, free_due, fd, count>>
pendVars == <<pending, connecting, connect_due, op>>
kernVars == <<polled, want_out, rx, conn>>
pollVars == <<evs, queue, todo>>
histVars == <<outst, dropped, broken>>
vars == <<lockVars, lifeVars, allow_concurrent, pendVars, kernVars, pc,
          pollVars, cb, call, eagain, histVars>>

(***************************************************************************)
(* Program counters, and the records of a completion and of an API call.   *)
(***************************************************************************)
UnregPc == {"unreg_del", "unreg_close", "unreg_dec", "unreg_unlock"}
ApiPc   == {"unregister", "recv", "send", "accept", "queue_op", "connect",
            "connect_lock", "post"} \cup UnregPc
CbPc    == {"cbcheck", "cbenter", "incb", "cbend"}
PollPc  == {"pollevents", "collect", "dispatch", "dec", "polltimeout",
            "pollconnect", "ctloop"}
PcSet   == {"idle"} \cup PollPc \cup CbPc \cup ApiPc

EventTypes == {"NO_EVENT", "READABLE", "WRITEABLE", "EXCEPTION"}
Lists      == {"free", "active", "closing", "lost"}

NoCb   == [key |-> None, kind |-> "none", op |-> None, res |-> "none",
           has_lock |-> FALSE, then |-> "idle"]
NoCall == [key |-> None, op |-> None, kind |-> "none", ret |-> "idle"]

CbRecord   == [key: Keys \cup {None}, op: Ops \cup {None},
               kind: OpCalls \cup {"none", "connect"},
               res: {"none", "ok", "nodata", "err", "posted"},
               has_lock: BOOLEAN, then: {"idle", "dec", "ctloop"}]
CallRecord == [key: Keys \cup {None}, op: Ops \cup {None},
               kind: KeyCalls \cup {"none"}, ret: {"idle", "cbend"}]

TypeOK ==
    /\ qlock \in Threads \cup {None}
    /\ klock \in [Keys -> Threads \cup {None}]
    /\ kdepth \in [Keys -> Nat]
    /\ list \in [Keys -> Lists]
    /\ ref_count \in [Keys -> Nat]
    /\ closing \in [Keys -> BOOLEAN]
    /\ free_due \in [Keys -> BOOLEAN]
    /\ fd \in [Keys -> Nat]
    /\ count \in Nat
    /\ allow_concurrent \in [Keys -> BOOLEAN]
    /\ pending \in [Keys -> [OpCalls -> Seq(Ops)]]
    /\ connecting \in [Keys -> BOOLEAN]
    /\ connect_due \in [Keys -> BOOLEAN]
    /\ op \in [Ops -> OpCalls \cup {"none"}]
    /\ polled \in [Keys -> BOOLEAN]
    /\ want_out \in [Keys -> BOOLEAN]
    /\ rx \in [Keys -> Nat]
    /\ conn \in [Keys -> {"none", "pending", "done", "failed"}]
    /\ pc \in [Threads -> PcSet]
    /\ evs \in [Threads -> [Keys -> SUBSET {"IN", "OUT", "ERR"}]]
    /\ queue \in [Threads -> [Keys -> EventTypes]]
    /\ todo \in [Threads -> SUBSET Keys]
    /\ cb \in [Threads -> CbRecord]
    /\ call \in [Threads -> CallRecord]
    /\ eagain \in [Threads -> BOOLEAN]
    /\ outst \subseteq Ops
    /\ dropped \in BOOLEAN
    /\ broken \subseteq {"free_list", "ref_count", "closing", "count", "send_rc"}

(***************************************************************************)
(* pj_ioqueue_create: every key on the free list, nothing registered.      *)
(***************************************************************************)
Init ==
    /\ qlock = None
    /\ klock = [k \in Keys |-> None]
    /\ kdepth = [k \in Keys |-> 0]
    /\ list = [k \in Keys |-> "free"]
    /\ ref_count = [k \in Keys |-> 0]
    /\ closing = [k \in Keys |-> FALSE]
    /\ free_due = [k \in Keys |-> FALSE]
    /\ fd = [k \in Keys |-> 0]
    /\ count = 0
    /\ allow_concurrent = [k \in Keys |-> Concurrent]
    /\ pending = [k \in Keys |-> [l \in OpCalls |-> <<>>]]
    /\ connecting = [k \in Keys |-> FALSE]
    /\ connect_due = [k \in Keys |-> FALSE]
    /\ op = [o \in Ops |-> "none"]
    /\ polled = [k \in Keys |-> FALSE]
    /\ want_out = [k \in Keys |-> FALSE]
    /\ rx = [k \in Keys |-> 0]
    /\ conn = [k \in Keys |-> "none"]
    /\ pc = [t \in Threads |-> "idle"]
    /\ evs = [t \in Threads |-> [k \in Keys |-> {}]]
    /\ queue = [t \in Threads |-> [k \in Keys |-> "NO_EVENT"]]
    /\ todo = [t \in Threads |-> {}]
    /\ cb = [t \in Threads |-> NoCb]
    /\ call = [t \in Threads |-> NoCall]
    /\ eagain = [t \in Threads |-> FALSE]
    /\ outst = {} /\ dropped = FALSE /\ broken = {}

Goto(t, label) == pc' = [pc EXCEPT ![t] = label]

----------------------------------------------------------------------------
(***************************************************************************)
(* Locks.  LockKey and UnlockKey are used where the lock outlives a step;  *)
(* a section inside one step only needs KeyFree.                           *)
(***************************************************************************)
KeyFree(t, k) == klock[k] \in {None, t}

LockKey(t, k) ==
    /\ klock' = [klock EXCEPT ![k] = t]
    /\ kdepth' = [kdepth EXCEPT ![k] = @ + 1]

UnlockKeyTwice(k) ==                                    \* mutant
    /\ klock' = [klock EXCEPT ![k] = None]
    /\ kdepth' = [kdepth EXCEPT ![k] = @ - 2]
UnlockKeyForgotten(k) == UNCHANGED <<klock, kdepth>>    \* mutant
UnlockKey(k) ==
    /\ klock' = [klock EXCEPT ![k] = IF kdepth[k] = 1 THEN None ELSE @]
    /\ kdepth' = [kdepth EXCEPT ![k] = @ - 1]

----------------------------------------------------------------------------
(***************************************************************************)
(* Reference counts and the three lists.                                   *)
(***************************************************************************)

\* increment_counter, for a key that gets a place in queue[].
IncrementCounterForgotten(k, type) == ref_count         \* mutant
IncrementCounter(k, type) ==
    [ref_count EXCEPT ![k] = IF type = "NO_EVENT" THEN @ ELSE @ + 1]

\* Mutant: the key stays on the active list.
DecrementKeepsList(k) ==
    /\ ref_count' = [ref_count EXCEPT ![k] = @ - 1]
    /\ UNCHANGED <<list, closing, free_due, fd, count, broken>>

\* decrement_counter, without the acquisition of ioqueue->lock.
Decrement(k) ==
    /\ ref_count' = [ref_count EXCEPT ![k] = @ - 1]
    /\ IF ref_count[k] = 1
       THEN /\ list' = [list EXCEPT ![k] = "closing"]
            /\ free_due' = [free_due EXCEPT ![k] = FALSE]
            /\ broken' = broken \cup (IF closing[k] THEN {} ELSE {"closing"})
       ELSE UNCHANGED <<list, free_due, broken>>
    /\ UNCHANGED <<closing, fd, count>>

\* scan_closing_keys: the keys whose delay has passed return to the free list.
Scanned == [k \in Keys |-> IF list[k] = "closing" /\ free_due[k]
                           THEN "free" ELSE list[k]]
ScanFails == IF \E k \in Keys : list[k] = "closing" /\ ~closing[k]
             THEN {"closing"} ELSE {}

\* An uncollected event or an unfinished call refers to the key.
Busy(t, k) ==
    \/ evs[t][k] # {}
    \/ pc[t] \in ApiPc /\ call[t].key = k
    \/ pc[t] \in CbPc \cup ApiPc /\ cb[t].key = k

\* PJ_IOQUEUE_KEY_FREE_DELAY passes.  The delay is long enough for the calls
\* that met the key before it was unregistered to have left it.
FreeDelayPasses(k) ==
    /\ list[k] = "closing" /\ ~free_due[k]
    /\ \A t \in Threads : ~Busy(t, k)
    /\ free_due' = [free_due EXCEPT ![k] = TRUE]
    /\ UNCHANGED <<lockVars, list, ref_count, closing, fd, count,
                   allow_concurrent, pendVars, kernVars, pc, pollVars, cb,
                   call, eagain, histVars>>

\* ioqueue_init_key, on a key taken off the free list.
InitKey(k) ==
    /\ pending' = [pending EXCEPT ![k] = [l \in OpCalls |-> <<>>]]
    /\ connecting' = [connecting EXCEPT ![k] = FALSE]
    /\ broken' = broken \cup ScanFails
                        \cup (IF ref_count[k] = 0 THEN {} ELSE {"ref_count"})
    /\ ref_count' = [ref_count EXCEPT ![k] = @ + 1]
    /\ closing' = [closing EXCEPT ![k] = FALSE]
    /\ allow_concurrent' = [allow_concurrent EXCEPT ![k] = Concurrent]

\* n numbers the next socket the application opens.
NewFd(n) == /\ \A k \in Keys : fd[k] < n
            /\ n = 1 \/ \E k \in Keys : fd[k] = n - 1

\* ioqueue->count after EPOLL_CTL_ADD, and after an unregistration.
CountAfterAddAlways(added) == count + 1                 \* mutant
CountAfterAdd(added) == IF added THEN count + 1 ELSE count
CountAfterDel == IF count > 0 THEN count - 1 ELSE count

\* pj_ioqueue_register_sock2.  A key whose EPOLL_CTL_ADD fails is on no list
\* any more.
Register(t) ==
    /\ pc[t] = "idle" /\ "register" \in Calls[t]
    /\ qlock = None
    /\ count < Cardinality(Keys)
    /\ \/ /\ \A k \in Keys : Scanned[k] # "free"
          /\ list' = Scanned
          /\ broken' = broken \cup ScanFails \cup {"free_list"}
          /\ UNCHANGED <<ref_count, closing, fd, count, allow_concurrent,
                         pendVars, kernVars>>
       \/ \E k \in Keys, n \in 1..MaxFd :
          /\ Scanned[k] = "free" /\ NewFd(n)
          /\ InitKey(k)
          /\ fd' = [fd EXCEPT ![k] = n]
          /\ rx' = [rx EXCEPT ![k] = 0]
          /\ \E added \in {TRUE} \cup (IF "add" \in Faults THEN {FALSE} ELSE {}) :
             /\ list' = [Scanned EXCEPT ![k] = IF added THEN "active" ELSE "lost"]
             /\ count' = CountAfterAdd(added)
             /\ polled' = [polled EXCEPT ![k] = added]
          /\ UNCHANGED <<connect_due, op, want_out, conn>>
    /\ UNCHANGED <<lockVars, free_due, pc, pollVars, cb, call, eagain, outst,
                   dropped>>

----------------------------------------------------------------------------
(***************************************************************************)
(* The kernel.                                                             *)
(***************************************************************************)
Ready(k) ==
    (IF rx[k] > 0 THEN {"IN"} ELSE {})
    \cup (IF want_out[k] /\ conn[k] # "pending" THEN {"OUT"} ELSE {})
    \cup (IF conn[k] = "failed" THEN {"ERR"} ELSE {})

ReadyKeys == {k \in Keys : polled[k] /\ Ready(k) # {}}

Arrive(k) ==
    /\ polled[k] /\ rx[k] < MaxRx
    /\ rx' = [rx EXCEPT ![k] = @ + 1]
    /\ UNCHANGED <<lockVars, lifeVars, allow_concurrent, pendVars, polled,
                   want_out, conn, pc, pollVars, cb, call, eagain, histVars>>

ConnectResolves(k) ==
    /\ polled[k] /\ conn[k] = "pending"
    /\ \E r \in {"done", "failed"} : conn' = [conn EXCEPT ![k] = r]
    /\ UNCHANGED <<lockVars, lifeVars, allow_concurrent, pendVars, polled,
                   want_out, rx, pc, pollVars, cb, call, eagain, histVars>>

\* PJ_IOQUEUE_KEY_CONNECT_TIMEOUT passes.
ConnectDelayPasses(k) ==
    /\ connecting[k] /\ ~connect_due[k]
    /\ connect_due' = [connect_due EXCEPT ![k] = TRUE]
    /\ UNCHANGED <<lockVars, lifeVars, allow_concurrent, pending, connecting,
                   op, kernVars, pc, pollVars, cb, call, eagain, histVars>>

----------------------------------------------------------------------------
(***************************************************************************)
(* pj_ioqueue_poll: wait, collect the events under ioqueue->lock, then     *)
(* dispatch them one by one without it.                                    *)
(***************************************************************************)
PollWait(t) ==
    /\ pc[t] = "idle" /\ "poll" \in Calls[t]
    /\ \/ \E K \in SUBSET ReadyKeys :
          /\ K # {}
          /\ Cardinality(K) = IF Cardinality(ReadyKeys) < MaxEvents
                              THEN Cardinality(ReadyKeys) ELSE MaxEvents
          /\ evs' = [evs EXCEPT ![t] =
                        [k \in Keys |-> IF k \in K THEN Ready(k) ELSE {}]]
          /\ Goto(t, "pollevents")
       \/ /\ ReadyKeys = {}
          /\ Goto(t, "polltimeout")
          /\ UNCHANGED evs
    /\ UNCHANGED <<lockVars, lifeVars, allow_concurrent, pendVars, kernVars,
                   queue, todo, cb, call, eagain, histVars>>

PollLock(t) ==
    /\ pc[t] = "pollevents"
    /\ qlock = None
    /\ qlock' = t
    /\ Goto(t, "collect")
    /\ UNCHANGED <<klock, kdepth, lifeVars, allow_concurrent, pendVars,
                   kernVars, pollVars, cb, call, eagain, histVars>>

\* The event type pj_ioqueue_poll gives to a key for what epoll reported.
EventType(k, E) ==
    LET has_read == pending[k]["recv"] # <<>> \/ pending[k]["accept"] # <<>>
    IN  CASE closing[k]                                   -> "NO_EVENT"
          [] ~closing[k] /\ "ERR" \in E /\ connecting[k]  -> "EXCEPTION"
          [] ~closing[k] /\ "ERR" \in E /\ ~connecting[k] ->
                 IF has_read THEN "READABLE" ELSE "NO_EVENT"
          [] ~closing[k] /\ "ERR" \notin E ->
                 IF "IN" \in E /\ has_read THEN "READABLE"
                 ELSE IF "OUT" \in E /\ (pending[k]["send"] # <<>> \/ connecting[k])
                 THEN "WRITEABLE" ELSE "NO_EVENT"

\* One turn of the collecting loop, with increment_counter.
Collect(t, k) ==
    LET type == EventType(k, evs[t][k])
    IN  /\ pc[t] = "collect"
        /\ evs[t][k] # {}
        /\ evs' = [evs EXCEPT ![t][k] = {}]
        /\ queue' = [queue EXCEPT ![t][k] = type]
        /\ ref_count' = IncrementCounter(k, type)
        /\ UNCHANGED <<lockVars, list, closing, free_due, fd, count,
                       allow_concurrent, pendVars, kernVars, pc, todo, cb,
                       call, eagain, histVars>>

PollUnlock(t) ==
    /\ pc[t] = "collect"
    /\ \A k \in Keys : evs[t][k] = {}
    /\ qlock' = None
    /\ Goto(t, "dispatch")
    /\ UNCHANGED <<klock, kdepth, lifeVars, allow_concurrent, pendVars,
                   kernVars, pollVars, cb, call, eagain, histVars>>

\* decrement_counter after the dispatch of a key.
PollDecrement(t) ==
    LET k == cb[t].key
    IN  /\ pc[t] = "dec"
        /\ qlock = None
        /\ Decrement(k)
        /\ queue' = [queue EXCEPT ![t][k] = "NO_EVENT"]
        /\ cb' = [cb EXCEPT ![t] = NoCb]
        /\ Goto(t, "dispatch")
        /\ UNCHANGED <<lockVars, allow_concurrent, pendVars, kernVars, evs,
                       todo, call, eagain, outst, dropped>>

PollReturn(t) ==
    /\ pc[t] = "dispatch"
    /\ \A k \in Keys : queue[t][k] = "NO_EVENT"
    /\ Goto(t, "idle")
    /\ UNCHANGED <<lockVars, lifeVars, allow_concurrent, pendVars, kernVars,
                   pollVars, cb, call, eagain, histVars>>

\* epoll_wait returned 0: scan_closing_keys under the lock, if the list is
\* not empty.
PollScan(t) ==
    /\ pc[t] = "polltimeout"
    /\ (\E k \in Keys : list[k] = "closing") => qlock = None
    /\ list' = Scanned
    /\ broken' = broken \cup ScanFails
    /\ Goto(t, "pollconnect")
    /\ UNCHANGED <<lockVars, ref_count, closing, free_due, fd, count,
                   allow_concurrent, pendVars, kernVars, pollVars, cb, call,
                   eagain, outst, dropped>>

----------------------------------------------------------------------------
(***************************************************************************)
(* Dispatching one event: take the key's lock or give up, pop an           *)
(* operation, do the system call, and run the callback with the lock held  *)
(* (has_lock) or, when the key allows concurrency, without it.             *)
(***************************************************************************)
Completion(k, kind, o, res, then) ==
    [key |-> k, kind |-> kind, op |-> o, res |-> res,
     has_lock |-> ~allow_concurrent[k], then |-> then]

KeyAlwaysReleased(t, k) == UNCHANGED <<klock, kdepth>>  \* mutant

\* The lock taken by the dispatcher is kept for the callback, or released.
KeepOrReleaseKey(t, k) ==
    IF allow_concurrent[k] THEN UNCHANGED <<klock, kdepth>> ELSE LockKey(t, k)

\* The dispatch ends without a callback: the lock is busy, or there is
\* nothing to do for this event any more.
DispatchNothing(t, k) ==
    /\ pc[t] = "dispatch"
    /\ queue[t][k] # "NO_EVENT"
    /\ \/ ~KeyFree(t, k)
       \/ closing[k]
       \/ /\ queue[t][k] = "READABLE"
          /\ pending[k]["accept"] = <<>> /\ pending[k]["recv"] = <<>>
       \/ /\ queue[t][k] = "WRITEABLE"
          /\ ~connecting[k] /\ pending[k]["send"] = <<>>
       \/ queue[t][k] = "EXCEPTION" /\ ~connecting[k]
    /\ cb' = [cb EXCEPT ![t] = [NoCb EXCEPT !.key = k]]
    /\ Goto(t, "dec")
    /\ UNCHANGED <<lockVars, lifeVars, allow_concurrent, pendVars, kernVars,
                   pollVars, call, eagain, histVars>>

\* ioqueue_dispatch_read_event: a pending accept goes before a pending read.
\* When recv() fails, bytes_read keeps the size of the buffer: the callback
\* cannot tell it from data.
DispatchRead(t, k) ==
    LET l == IF pending[k]["accept"] # <<>> THEN "accept" ELSE "recv"
        o == Head(pending[k][l])
    IN  /\ pc[t] = "dispatch" /\ queue[t][k] = "READABLE"
        /\ KeyFree(t, k) /\ ~closing[k]
        /\ pending[k][l] # <<>>
        /\ pending' = [pending EXCEPT ![k][l] = Tail(@)]
        /\ op' = [op EXCEPT ![o] = "none"]
        /\ rx' = [rx EXCEPT ![k] = IF @ > 0 THEN @ - 1 ELSE @]
        /\ eagain' = [eagain EXCEPT ![t] = @ \/ rx[k] = 0]
        /\ cb' = [cb EXCEPT ![t] =
                     Completion(k, l, o, IF rx[k] > 0 THEN "ok"
                                         ELSE IF l = "recv" THEN "nodata"
                                         ELSE "err", "dec")]
        /\ KeepOrReleaseKey(t, k)
        /\ Goto(t, "cbcheck")
        /\ UNCHANGED <<qlock, lifeVars, allow_concurrent, connecting,
                       connect_due, polled, want_out, conn, pollVars, call,
                       histVars>>

\* EPOLLOUT stays in the interest set while another write is pending.
OutNeverKept(k, rest) == FALSE                          \* mutant
OutKept(k, rest) == want_out[k] /\ rest # <<>>

\* ioqueue_dispatch_write_event, pending write.  The operation is complete
\* whatever send() returns; a failure is asserted not to happen.
DispatchWrite(t, k) ==
    LET o == Head(pending[k]["send"])
        rest == Tail(pending[k]["send"])
    IN  /\ pc[t] = "dispatch" /\ queue[t][k] = "WRITEABLE"
        /\ KeyFree(t, k) /\ ~closing[k]
        /\ ~connecting[k] /\ pending[k]["send"] # <<>>
        /\ pending' = [pending EXCEPT ![k]["send"] = rest]
        /\ op' = [op EXCEPT ![o] = "none"]
        /\ want_out' = [want_out EXCEPT ![k] = OutKept(k, rest)]
        /\ \E r \in {"ok"} \cup (IF "send" \in Faults THEN {"err"} ELSE {}) :
           /\ cb' = [cb EXCEPT ![t] = Completion(k, "send", o, r, "dec")]
           /\ broken' = broken \cup (IF r = "ok" THEN {} ELSE {"send_rc"})
        /\ KeepOrReleaseKey(t, k)
        /\ Goto(t, "cbcheck")
        /\ UNCHANGED <<qlock, lifeVars, allow_concurrent, connecting,
                       connect_due, polled, rx, conn, pollVars, call, eagain,
                       outst, dropped>>

\* ioqueue_dispatch_write_event and ioqueue_dispatch_exception_event,
\* pending connect: EPOLLOUT leaves the interest set, SO_ERROR is read.
DispatchConnect(t, k) ==
    /\ pc[t] = "dispatch" /\ queue[t][k] \in {"WRITEABLE", "EXCEPTION"}
    /\ KeyFree(t, k) /\ ~closing[k]
    /\ connecting[k]
    /\ connecting' = [connecting EXCEPT ![k] = FALSE]
    /\ want_out' = [want_out EXCEPT ![k] = FALSE]
    /\ conn' = [conn EXCEPT ![k] = IF @ = "failed" THEN "none" ELSE @]
    /\ cb' = [cb EXCEPT ![t] = Completion(k, "connect", None,
                 IF queue[t][k] = "WRITEABLE" THEN "ok" ELSE "err", "dec")]
    /\ KeepOrReleaseKey(t, k)
    /\ Goto(t, "cbcheck")
    /\ UNCHANGED <<qlock, lifeVars, allow_concurrent, pending, connect_due, op,
                   polled, rx, pollVars, call, eagain, histVars>>

\* ioqueue_connect_timeout keeps ioqueue->lock over the whole walk of the
\* active list, the callbacks included.
ConnectTimeoutBegin(t) ==
    /\ pc[t] = "pollconnect"
    /\ \/ /\ \A k \in Keys : list[k] # "active"
          /\ Goto(t, "idle")
          /\ UNCHANGED <<qlock, todo>>
       \/ /\ \E k \in Keys : list[k] = "active"
          /\ qlock = None
          /\ qlock' = t
          /\ todo' = [todo EXCEPT ![t] = {k \in Keys : list[k] = "active"}]
          /\ Goto(t, "ctloop")
    /\ UNCHANGED <<klock, kdepth, lifeVars, allow_concurrent, pendVars,
                   kernVars, evs, queue, cb, call, eagain, histVars>>

ConnectTimeoutKey(t, k) ==
    /\ pc[t] = "ctloop"
    /\ k \in todo[t]
    /\ todo' = [todo EXCEPT ![t] = @ \ {k}]
    /\ IF connecting[k] /\ connect_due[k] /\ KeyFree(t, k) /\ ~closing[k]
       THEN /\ connecting' = [connecting EXCEPT ![k] = FALSE]
            /\ want_out' = [want_out EXCEPT ![k] = FALSE]
            /\ cb' = [cb EXCEPT ![t] =
                         Completion(k, "connect", None, "err", "ctloop")]
            /\ KeepOrReleaseKey(t, k)
            /\ Goto(t, "cbcheck")
       ELSE UNCHANGED <<connecting, want_out, cb, klock, kdepth, pc>>
    /\ UNCHANGED <<qlock, lifeVars, allow_concurrent, pending, connect_due, op,
                   polled, rx, conn, evs, queue, call, eagain, histVars>>

\* Mutant: ioqueue->lock is not released.
ConnectTimeoutEndLocked(t) ==
    /\ pc[t] = "ctloop"
    /\ todo[t] = {}
    /\ Goto(t, "idle")
    /\ UNCHANGED <<lockVars, lifeVars, allow_concurrent, pendVars, kernVars,
                   pollVars, cb, call, eagain, histVars>>

ConnectTimeoutEnd(t) ==
    /\ pc[t] = "ctloop"
    /\ todo[t] = {}
    /\ qlock' = None
    /\ Goto(t, "idle")
    /\ UNCHANGED <<klock, kdepth, lifeVars, allow_concurrent, pendVars,
                   kernVars, pollVars, cb, call, eagain, histVars>>

----------------------------------------------------------------------------
(***************************************************************************)
(* The callback: IS_CLOSING is tested, then the application's function     *)
(* runs, which may make one call on its key, then the lock is released.    *)
(***************************************************************************)
CbCheck(t) ==
    /\ pc[t] = "cbcheck"
    /\ IF closing[cb[t].key]
       THEN Goto(t, "cbend") /\ outst' = outst \ {cb[t].op}
       ELSE Goto(t, "cbenter") /\ UNCHANGED outst
    /\ UNCHANGED <<lockVars, lifeVars, allow_concurrent, pendVars, kernVars,
                   pollVars, cb, call, eagain, dropped, broken>>

CbEnter(t) ==
    /\ pc[t] = "cbenter"
    /\ Goto(t, "incb")
    /\ outst' = outst \ {cb[t].op}
    /\ UNCHANGED <<lockVars, lifeVars, allow_concurrent, pendVars, kernVars,
                   pollVars, cb, call, eagain, dropped, broken>>

CbReturn(t) ==
    /\ pc[t] = "incb"
    /\ Goto(t, "cbend")
    /\ UNCHANGED <<lockVars, lifeVars, allow_concurrent, pendVars, kernVars,
                   pollVars, cb, call, eagain, histVars>>

CbEnd(t) ==
    /\ pc[t] = "cbend"
    /\ IF cb[t].has_lock THEN UnlockKey(cb[t].key)
                         ELSE UNCHANGED <<klock, kdepth>>
    /\ cb' = [cb EXCEPT ![t] = IF cb[t].then = "dec"
                               THEN [NoCb EXCEPT !.key = cb[t].key] ELSE NoCb]
    /\ Goto(t, cb[t].then)
    /\ UNCHANGED <<qlock, lifeVars, allow_concurrent, pendVars, kernVars,
                   pollVars, call, eagain, histVars>>

----------------------------------------------------------------------------
(***************************************************************************)
(* API calls, from the application or from a callback on its own key.  An  *)
(* application holds a key until the free delay after unregistering it,    *)
(* does not submit an operation that is still outstanding, and posts a     *)
(* completion only to a key it has not unregistered.                       *)
(***************************************************************************)
Held(k) == list[k] = "active" \/ (list[k] = "closing" /\ ~free_due[k])

BeginCall(t, c, k, o) ==
    /\ \/ pc[t] = "idle" /\ c \in Calls[t] /\ Held(k)
       \/ pc[t] = "incb" /\ c \in CbCalls /\ k = cb[t].key
    /\ \/ c \in OpCalls /\ o \in Ops \ outst
       \/ c = "post" /\ o \in outst /\ ~closing[k]
       \/ c \in {"connect", "unregister"} /\ o = None
    /\ outst' = IF c \in OpCalls THEN outst \cup {o} ELSE outst
    /\ call' = [call EXCEPT ![t] = [key |-> k, op |-> o, kind |-> c,
                   ret |-> IF pc[t] = "idle" THEN "idle" ELSE "cbend"]]
    /\ Goto(t, c)
    /\ UNCHANGED <<lockVars, lifeVars, allow_concurrent, pendVars, kernVars,
                   pollVars, cb, eagain, dropped, broken>>

Return(t) == /\ Goto(t, call[t].ret)
             /\ call' = [call EXCEPT ![t] = NoCall]

\* pj_ioqueue_set_concurrency takes no lock.
SetConcurrency(t, k) ==
    /\ pc[t] = "idle" /\ "set_concurrency" \in Calls[t] /\ Held(k)
    /\ allow_concurrent' = [allow_concurrent EXCEPT ![k] = ~@]
    /\ UNCHANGED <<lockVars, lifeVars, pendVars, kernVars, pc, pollVars, cb,
                   call, eagain, histVars>>

(***************************************************************************)
(* pj_ioqueue_unregister.                                                  *)
(***************************************************************************)
UnregLock(t) ==
    LET k == call[t].key
    IN  /\ pc[t] = "unregister"
        /\ KeyFree(t, k)
        /\ IF closing[k]
           THEN Return(t) /\ UNCHANGED <<klock, kdepth>>
           ELSE LockKey(t, k) /\ Goto(t, "unreg_del") /\ UNCHANGED call
        /\ UNCHANGED <<qlock, lifeVars, allow_concurrent, pendVars, kernVars,
                       pollVars, cb, eagain, histVars>>

\* Under ioqueue->lock: count, EPOLL_CTL_DEL, close().  A failure of the
\* second leaves the count decremented.
UnregDel(t) ==
    LET k == call[t].key
    IN  /\ pc[t] = "unreg_del"
        /\ qlock = None
        /\ count' = CountAfterDel
        /\ broken' = broken \cup (IF count > 0 THEN {} ELSE {"count"})
        /\ \/ /\ polled' = [polled EXCEPT ![k] = FALSE]
              /\ want_out' = [want_out EXCEPT ![k] = FALSE]
              /\ rx' = [rx EXCEPT ![k] = 0]
              /\ conn' = [conn EXCEPT ![k] = "none"]
              /\ Goto(t, "unreg_close")
              /\ UNCHANGED <<call, klock, kdepth>>
           \/ /\ "del" \in Faults
              /\ UnlockKey(k)
              /\ Return(t)
              /\ UNCHANGED kernVars
        /\ UNCHANGED <<qlock, list, ref_count, closing, free_due, fd,
                       allow_concurrent, pendVars, pollVars, cb, eagain,
                       outst, dropped>>

UnregClose(t) ==
    /\ pc[t] = "unreg_close"
    /\ closing' = [closing EXCEPT ![call[t].key] = TRUE]
    /\ Goto(t, "unreg_dec")
    /\ UNCHANGED <<lockVars, list, ref_count, free_due, fd, count,
                   allow_concurrent, pendVars, kernVars, pollVars, cb, call,
                   eagain, histVars>>

UnregDecrement(t) ==
    /\ pc[t] = "unreg_dec"
    /\ qlock = None
    /\ Decrement(call[t].key)
    /\ Goto(t, "unreg_unlock")
    /\ UNCHANGED <<lockVars, allow_concurrent, pendVars, kernVars, pollVars,
                   cb, call, eagain, outst, dropped>>

On(s, o) == \E i \in DOMAIN s : s[i] = o

\* The operations still linked to the key will never complete: they are the
\* application's again.
UnregUnlock(t) ==
    LET k == call[t].key
    IN  /\ pc[t] = "unreg_unlock"
        /\ UnlockKey(k)
        /\ Return(t)
        /\ outst' = {o \in outst : \A l \in OpCalls : ~On(pending[k][l], o)}
        /\ UNCHANGED <<qlock, lifeVars, allow_concurrent, pendVars, kernVars,
                       pollVars, cb, eagain, dropped, broken>>

(***************************************************************************)
(* pj_ioqueue_recv and pj_ioqueue_recvfrom.  Only a return of 0 counts as  *)
(* an immediate success; after a positive one the code looks at errno,     *)
(* which a successful recv() does not set.                                 *)
(***************************************************************************)
RecvTry(t) ==
    LET k == call[t].key
        o == call[t].op
        give_up == /\ Return(t)
                   /\ outst' = outst \ {o}
        enqueue == /\ op' = [op EXCEPT ![o] = "recv"]
                   /\ Goto(t, "queue_op")
                   /\ UNCHANGED <<call, outst>>
    IN  /\ pc[t] = "recv"
        /\ \/ /\ closing[k]
              /\ give_up
              /\ UNCHANGED <<op, rx, eagain, dropped>>
           \/ /\ ~closing[k] /\ ~polled[k]        \* the socket is closed: EBADF
              /\ op' = [op EXCEPT ![o] = "none"]
              /\ eagain' = [eagain EXCEPT ![t] = FALSE]
              /\ give_up
              /\ UNCHANGED <<rx, dropped>>
           \/ /\ ~closing[k] /\ polled[k] /\ rx[k] > 0
              /\ rx' = [rx EXCEPT ![k] = @ - 1]
              /\ IF eagain[t]
                 THEN enqueue /\ dropped' = TRUE
                 ELSE /\ op' = [op EXCEPT ![o] = "none"]
                      /\ give_up
                      /\ UNCHANGED dropped
              /\ UNCHANGED eagain
           \/ /\ ~closing[k] /\ polled[k] /\ rx[k] = 0
              /\ eagain' = [eagain EXCEPT ![t] = TRUE]
              /\ enqueue
              /\ UNCHANGED <<rx, dropped>>
           \/ /\ ~closing[k]                      \* PJ_IOQUEUE_ALWAYS_ASYNC
              /\ enqueue
              /\ UNCHANGED <<rx, eagain, dropped>>
        /\ UNCHANGED <<lockVars, lifeVars, allow_concurrent, pending,
                       connecting, connect_due, polled, want_out, conn, pollVars, cb, broken>>

\* Mutant: IS_CLOSING is not tested again.
QueueOpUnchecked(t) ==
    LET k == call[t].key
        o == call[t].op
    IN  /\ pc[t] = "queue_op"
        /\ KeyFree(t, k)
        /\ pending' = [pending EXCEPT ![k][call[t].kind] = Append(@, o)]
        /\ want_out' = [want_out EXCEPT
                           ![k] = @ \/ (call[t].kind = "send" /\ polled[k])]
        /\ Return(t)
        /\ UNCHANGED <<lockVars, lifeVars, allow_concurrent, connecting,
                       connect_due, op, polled, rx, conn, pollVars, cb, eagain,
                       histVars>>

\* The second half of recv, send and accept: lock the key, test IS_CLOSING
\* again, append; a write also needs EPOLLOUT.
QueueOp(t) ==
    LET k == call[t].key
        o == call[t].op
    IN  /\ pc[t] = "queue_op"
        /\ KeyFree(t, k)
        /\ IF closing[k]
           THEN outst' = outst \ {o} /\ UNCHANGED <<pending, want_out>>
           ELSE /\ pending' = [pending EXCEPT ![k][call[t].kind] = Append(@, o)]
                /\ want_out' = [want_out EXCEPT
                                   ![k] = @ \/ (call[t].kind = "send" /\ polled[k])]
                /\ UNCHANGED outst
        /\ Return(t)
        /\ UNCHANGED <<lockVars, lifeVars, allow_concurrent, connecting,
                       connect_due, op, polled, rx, conn, pollVars, cb, eagain,
                       dropped, broken>>

(***************************************************************************)
(* pj_ioqueue_send and pj_ioqueue_sendto: sent at once when no write is    *)
(* pending (a test made without the lock), queued when that blocks.        *)
(***************************************************************************)
SendTry(t) ==
    LET k == call[t].key
        o == call[t].op
        give_up == /\ Return(t)
                   /\ outst' = outst \ {o}
                   /\ UNCHANGED op
        enqueue == IF op[o] # "none"               \* PJ_EBUSY
                   THEN give_up
                   ELSE /\ op' = [op EXCEPT ![o] = "send"]
                        /\ Goto(t, "queue_op")
                        /\ UNCHANGED <<call, outst>>
    IN  /\ pc[t] = "send"
        /\ \/ /\ closing[k]
              /\ give_up
              /\ UNCHANGED eagain
           \/ /\ ~closing[k] /\ pending[k]["send"] = <<>>
              /\ \/ give_up /\ UNCHANGED eagain    \* sent at once
                 \/ /\ ~polled[k] \/ "send" \in Faults
                    /\ give_up
                    /\ eagain' = [eagain EXCEPT ![t] = FALSE]
                 \/ /\ polled[k]
                    /\ enqueue
                    /\ eagain' = [eagain EXCEPT ![t] = TRUE]
           \/ /\ ~closing[k] /\ pending[k]["send"] # <<>>
              /\ enqueue
              /\ UNCHANGED eagain
        /\ UNCHANGED <<lockVars, lifeVars, allow_concurrent, pending,
                       connecting, connect_due, kernVars, pollVars, cb, dropped, broken>>

(***************************************************************************)
(* pj_ioqueue_accept.                                                      *)
(***************************************************************************)
AcceptTry(t) ==
    LET k == call[t].key
        o == call[t].op
        give_up == /\ Return(t)
                   /\ outst' = outst \ {o}
                   /\ op' = [op EXCEPT ![o] = IF closing[k] THEN @ ELSE "none"]
        enqueue == /\ op' = [op EXCEPT ![o] = "accept"]
                   /\ Goto(t, "queue_op")
                   /\ UNCHANGED <<call, outst>>
    IN  /\ pc[t] = "accept"
        /\ \/ /\ closing[k]
              /\ give_up
              /\ UNCHANGED <<rx, eagain>>
           \/ /\ ~closing[k] /\ pending[k]["accept"] = <<>>
              /\ \/ /\ ~polled[k]
                    /\ give_up
                    /\ eagain' = [eagain EXCEPT ![t] = FALSE]
                    /\ UNCHANGED rx
                 \/ /\ polled[k] /\ rx[k] > 0
                    /\ rx' = [rx EXCEPT ![k] = @ - 1]
                    /\ give_up
                    /\ UNCHANGED eagain
                 \/ /\ polled[k] /\ rx[k] = 0
                    /\ enqueue
                    /\ eagain' = [eagain EXCEPT ![t] = TRUE]
                    /\ UNCHANGED rx
           \/ /\ ~closing[k] /\ pending[k]["accept"] # <<>>
              /\ enqueue
              /\ UNCHANGED <<rx, eagain>>
        /\ UNCHANGED <<lockVars, lifeVars, allow_concurrent, pending,
                       connecting, connect_due, polled, want_out, conn, pollVars, cb, dropped, broken>>

(***************************************************************************)
(* pj_ioqueue_connect.                                                     *)
(***************************************************************************)
ConnectTry(t) ==
    LET k == call[t].key
    IN  /\ pc[t] = "connect"
        /\ \/ /\ ~closing[k] /\ ~connecting[k]
              /\ polled[k] /\ conn[k] = "none"     \* EINPROGRESS
              /\ conn' = [conn EXCEPT ![k] = "pending"]
              /\ Goto(t, "connect_lock")
              /\ UNCHANGED <<call, eagain>>
           \/ /\ Return(t)                         \* connected, or an error
              /\ eagain' = [eagain EXCEPT ![t] = @ /\ (closing[k] \/ connecting[k])]
              /\ UNCHANGED conn
        /\ UNCHANGED <<lockVars, lifeVars, allow_concurrent, pendVars, polled,
                       want_out, rx, pollVars, cb, histVars>>

ConnectQueue(t) ==
    LET k == call[t].key
    IN  /\ pc[t] = "connect_lock"
        /\ KeyFree(t, k)
        /\ IF closing[k]
           THEN UNCHANGED <<connecting, connect_due, want_out>>
           ELSE /\ connecting' = [connecting EXCEPT ![k] = TRUE]
                /\ connect_due' = [connect_due EXCEPT ![k] = FALSE]
                /\ want_out' = [want_out EXCEPT ![k] = polled[k]]
        /\ Return(t)
        /\ UNCHANGED <<lockVars, lifeVars, allow_concurrent, pending, op,
                       polled, rx, conn, pollVars, cb, eagain, histVars>>

(***************************************************************************)
(* pj_ioqueue_post_completion: unlink the operation, release the lock and  *)
(* call back without a test of IS_CLOSING.                                 *)
(***************************************************************************)
Without(s, o) == LET i == CHOOSE i \in DOMAIN s : s[i] = o
                 IN  SubSeq(s, 1, i - 1) \o SubSeq(s, i + 1, Len(s))

PostCompletion(t) ==
    LET k == call[t].key
        o == call[t].op
        lists == {l \in OpCalls : On(pending[k][l], o)}
    IN  /\ pc[t] = "post"
        /\ KeyFree(t, k)
        /\ \/ \E l \in lists :
              /\ pending' = [pending EXCEPT ![k][l] = Without(@, o)]
              /\ op' = [op EXCEPT ![o] = "none"]
              /\ cb' = [cb EXCEPT ![t] =
                           [NoCb EXCEPT !.key = k, !.kind = l, !.op = o,
                                        !.res = "posted"]]
              /\ Goto(t, "cbenter")
              /\ call' = [call EXCEPT ![t] = NoCall]
           \/ /\ lists = {}
              /\ Return(t)
              /\ UNCHANGED <<pending, op, cb>>
        /\ UNCHANGED <<lockVars, lifeVars, allow_concurrent, connecting,
                       connect_due, kernVars, pollVars, eagain, histVars>>

----------------------------------------------------------------------------
PollStep(t) ==
    \/ PollWait(t) \/ PollLock(t) \/ PollUnlock(t) \/ PollDecrement(t)
    \/ PollReturn(t) \/ PollScan(t)
    \/ ConnectTimeoutBegin(t) \/ ConnectTimeoutEnd(t)
    \/ \E k \in Keys : \/ Collect(t, k) \/ DispatchNothing(t, k)
                       \/ DispatchRead(t, k) \/ DispatchWrite(t, k)
                       \/ DispatchConnect(t, k)
                       \/ ConnectTimeoutKey(t, k)

CbStep(t) == CbCheck(t) \/ CbEnter(t) \/ CbReturn(t) \/ CbEnd(t)

CallStep(t) ==
    \/ UnregLock(t) \/ UnregDel(t) \/ UnregClose(t) \/ UnregDecrement(t)
    \/ UnregUnlock(t)
    \/ RecvTry(t) \/ SendTry(t) \/ AcceptTry(t) \/ QueueOp(t)
    \/ ConnectTry(t) \/ ConnectQueue(t) \/ PostCompletion(t)

NewCall(t) ==
    \/ Register(t)
    \/ \E k \in Keys : SetConcurrency(t, k)
    \/ \E c \in KeyCalls, k \in Keys, o \in Ops \cup {None} :
          BeginCall(t, c, k, o)

Environment ==
    \E k \in Keys : \/ Arrive(k) \/ ConnectResolves(k)
                    \/ FreeDelayPasses(k) \/ ConnectDelayPasses(k)

Next == \/ \E t \in Threads : PollStep(t) \/ CbStep(t) \/ CallStep(t) \/ NewCall(t)
        \/ Environment

Spec == Init /\ [][Next]_vars

----------------------------------------------------------------------------
(***************************************************************************)
(* Safety.                                                                 *)
(***************************************************************************)

\* The pollers whose queue[] refers to the key.
Refs(k) == {t \in Threads : queue[t][k] # "NO_EVENT"}

\* The registration's own reference: from ioqueue_init_key to the
\* decrement_counter of pj_ioqueue_unregister.
Registered(k) ==
    \/ list[k] = "lost"
    \/ list[k] = "active" /\ ~closing[k]
    \/ \E t \in Threads : pc[t] = "unreg_dec" /\ call[t].key = k

\* ref_count counts exactly the registration and the pollers that hold the
\* key, whatever the interleaving of increment_counter, decrement_counter
\* and the unregistration, whose closing = 1 is set outside ioqueue->lock.
RefCountExact ==
    \A k \in Keys :
        ref_count[k] = Cardinality(Refs(k)) + (IF Registered(k) THEN 1 ELSE 0)

\* A key is on the active list exactly while someone refers to it, so that
\* no key is recycled under a poller that still has to dispatch it, and
\* none is withheld from recycling by nobody.
ActiveIffReferenced ==
    \A k \in Keys :
        list[k] \in {"active", "lost"} <=> Registered(k) \/ Refs(k) # {}

\* The socket behind a key does not change while a poller holds the key
\* between collecting its event and the last use in the dispatch.
HeldKeyKeepsSocket ==
    [][\A k \in Keys : Refs(k) # {} => fd'[k] = fd[k]]_vars

\* The assertions of decrement_counter, scan_closing_keys and
\* ioqueue_init_key hold: a key whose count drops to zero is closing, and a
\* key taken from the free list has no references left.
LifecycleAsserts == broken \cap {"ref_count", "closing"} = {}

\* ioqueue->count is the number of sockets that are in the epoll set, also
\* while unregistrations are half done.
CountExact == count = Cardinality({k \in Keys : polled[k]})

\* A callback that runs under the key's lock starts only while the socket is
\* registered: once pj_ioqueue_unregister has returned none starts.
NoLateLockedCallback ==
    \A t \in Threads :
        pc[t] = "cbenter" /\ cb[t].has_lock => ~closing[cb[t].key]

\* Thread t waits for a lock that thread u holds.
WaitsFor(t, u) ==
    \/ /\ qlock = u
       /\ \/ pc[t] \in {"pollevents", "dec", "unreg_del", "unreg_dec"}
          \/ pc[t] = "polltimeout" /\ \E k \in Keys : list[k] = "closing"
          \/ pc[t] = "pollconnect" /\ \E k \in Keys : list[k] = "active"
    \/ /\ pc[t] \in {"unregister", "queue_op", "connect_lock", "post"}
       /\ ~KeyFree(t, call[t].key) /\ klock[call[t].key] = u

\* No thread waits, directly or through one other, for a lock it holds.
NoDeadlock == \A t, u \in Threads : ~(WaitsFor(t, u) /\ WaitsFor(u, t))

\* The pending operations of a key will complete, or be given back when its
\* unregistration ends.
Serving(k) ==
    ~closing[k] \/ \E t \in Threads : pc[t] \in UnregPc /\ call[t].key = k

\* Thread t is submitting operation o or delivering its completion.
Carries(t, o) ==
    \/ call[t].op = o /\ pc[t] \in ApiPc \ {"post"}
    \/ cb[t].op = o /\ pc[t] \in {"cbcheck", "cbenter"}

\* Who is responsible for completing an operation: a list it is linked into,
\* at one place, or a thread.
Custodians(o) ==
    (UNION {{<<k, l, i>> : i \in {j \in DOMAIN pending[k][l] : pending[k][l][j] = o}} :
               k \in {x \in Keys : Serving(x)}, l \in OpCalls})
    \cup {<<t>> : t \in {u \in Threads : Carries(u, o)}}

\* An outstanding operation has exactly one party that will complete it: it
\* is neither lost nor completed twice, however dispatching, posting and
\* unregistering threads interleave.
OneCustodian == \A o \in outst : Cardinality(Custodians(o)) = 1

\* A pending write keeps EPOLLOUT in the interest set of its socket, or the
\* queue would never learn that it can be sent.
PendingWriteIsPolled ==
    \A k \in Keys : polled[k] /\ pending[k]["send"] # <<>> => want_out[k]

(***************************************************************************)
(* Liveness, when no lock starves a thread for ever and time passes.       *)
(***************************************************************************)
Fairness ==
    /\ \A t \in Threads : /\ SF_vars(PollStep(t))
                          /\ SF_vars(CallStep(t))
                          /\ WF_vars(CbStep(t))
    /\ \A k \in Keys : WF_vars(FreeDelayPasses(k))

FairSpec == Spec /\ Fairness

\* Every pj_ioqueue_unregister returns, whoever is dispatching the key.
UnregisterReturns ==
    \A t \in Threads : pc[t] = "unregister" ~> pc[t] \in {"idle", "cbend"}

\* Every unregistered key reaches the closing list: the pollers that held it
\* give it up.
ClosedKeyReleased ==
    \A k \in Keys : closing[k] ~> list[k] \in {"closing", "free"}

\* pj_ioqueue_poll returns every unregistered key to the free list
\* (the comment at ioqueue.h:162).
ClosedKeyRecycled == \A k \in Keys : closing[k] ~> list[k] = "free"

(***************************************************************************)
(* What assertions, comments and tests of the repository say.              *)
(***************************************************************************)

\* ioqueue_epoll.c:163: with count < max the free list is not empty.
FreeListNotEmpty == "free_list" \notin broken

\* test/ioq_udp.c:509: no callback once the socket has been unregistered.
NoLateCallback ==
    \A t \in Threads :
        pc[t] = "cbenter" /\ cb[t].res # "posted" /\ closing[cb[t].key] =>
            \E u \in Threads : pc[u] \in UnregPc /\ call[u].key = cb[t].key

\* test/ioq_unreg.c:82: a read that got no data reaches on_read_complete
\* with a negative size.
ReadFailureReported ==
    \A t \in Threads : pc[t] = "cbenter" => cb[t].res # "nodata"

\* test/ioq_unreg.c:104: data that pj_ioqueue_recv reads at once is returned.
NoDatagramDropped == ~dropped
============================================================================
