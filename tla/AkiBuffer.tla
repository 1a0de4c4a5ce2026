----------------------------- MODULE AkiBuffer -----------------------------
(***************************************************************************)
(* The package pools of aki/src/aki_buffer.c, over memory that the         *)
(* application supplies, and the queues it links packages into.  The build *)
(* leaves AKI_USE_LOCK undefined, so that every call is one step.  A       *)
(* package is <<pool, offset>> as in GkiBuffer.                            *)
(***************************************************************************)
EXTENDS Integers, Sequences, FiniteSets, SequencesExt

CONSTANTS
    NPools,     \* AKI_BUFFER_POOLS_TOTAL_MAX
    Queues,     \* the application's T_AkiQueue objects
    Memories,   \* sizes of the memory it supplies
    Sizes       \* sizes of the packages it asks for

PoolIds == 0 .. NPools-1
Padding == 20                         \* AKI_BUFFER_PADDING_SIZE
MaxSize == 65535 - Padding            \* AKI_BUFFER_SIZE_MAX

VARIABLES
    freeq,
    pool_list,   \* m_aucPoolList up to m_u8CurrTotalPools
    memory,      \* memory[p]: bytes behind m_apPoolStart[p], 0 for NULL
    restricted,  \* m_u16PoolAccessMask
    unlinked,    \* packages with AKI_BUF_STATUS_UNLINKED
    queue        \* the packages of each queue, AKI_BUF_STATUS_QUEUED

vars == <<freeq, pool_list, memory, restricted, unlinked, queue>>

Align(n) == ((n + 3) \div 4) * 4
ActSize(size) == (Align(size) + Padding) % 65536

\* init_free_queue
FreeQueue(p, size, total) ==
    LET act == ActSize(size)
    IN  [size |-> Align(size), total |-> total, cur_cnt |-> 0, max_cnt |-> 0,
         list |-> [i \in 1 .. (IF act = 0 THEN 1 ELSE total) |->
                      <<p, (i - 1) * act>>]]

\* What the theorems assume of the constants; act_size is 0 for the three sizes
\* up to AKI_BUFFER_SIZE_MAX.
AkiConstants ==
    /\ NPools \in Nat /\ Memories \subseteq Nat
    /\ \A size \in Sizes :
          size \in Nat /\ (size <= MaxSize => ActSize(size) # 0)

NoQueue == [size |-> 0, total |-> 0, cur_cnt |-> 0, max_cnt |-> 0, list |-> <<>>]

\* Where add_to_pool_list inserts a pool of this size.
ListPos(size) ==
    LET fit == {i \in DOMAIN pool_list : size <= freeq[pool_list[i]].size}
    IN  IF fit = {} THEN Len(pool_list) + 1 ELSE Min(fit)

\* remove_from_pool_list and m_u8CurrTotalPools--
Removed(p) ==
    LET at == {i \in DOMAIN pool_list : pool_list[i] = p}
    IN  RemoveAt(pool_list, IF at = {} THEN Len(pool_list) ELSE Min(at))

\* AKI_BufferInit
Init ==
    /\ freeq = [p \in PoolIds |-> NoQueue]
    /\ pool_list = <<>>
    /\ memory = [p \in PoolIds |-> 0]
    /\ restricted = {}
    /\ unlinked = {}
    /\ queue = [q \in Queues |-> <<>>]

SetPermission(p, restrict) ==
    /\ restricted' = IF restrict THEN restricted \cup {p} ELSE restricted \ {p}
    /\ UNCHANGED <<freeq, pool_list, memory, unlinked, queue>>

\* The application supplies memory for one package at least.
CreatePool(bytes, size) ==
    LET total == bytes \div (size + Padding)
        free  == {p \in PoolIds : memory[p] = 0}
        p     == Min(free)
    IN  /\ size <= MaxSize /\ total > 0 /\ free # {}
        /\ freeq' = [freeq EXCEPT ![p] = FreeQueue(p, size, total)]
        /\ pool_list' = InsertAt(pool_list, ListPos(Align(size)), p)
        /\ memory' = [memory EXCEPT ![p] = bytes]
        /\ restricted' = restricted \ {p}
        /\ UNCHANGED <<unlinked, queue>>

DestroyPool(p) ==
    /\ memory[p] # 0 /\ freeq[p].cur_cnt = 0
    /\ freeq' = [freeq EXCEPT ![p] = NoQueue]
    /\ memory' = [memory EXCEPT ![p] = 0]
    /\ pool_list' = Removed(p)
    /\ UNCHANGED <<restricted, unlinked, queue>>

Take(p) ==
    LET Q == freeq[p]
    IN  /\ freeq' = [freeq EXCEPT ![p] =
                        [Q EXCEPT !.list = Tail(@), !.cur_cnt = @ + 1,
                                  !.max_cnt = IF Q.cur_cnt + 1 > @
                                              THEN Q.cur_cnt + 1 ELSE @]]
        /\ unlinked' = unlinked \cup {Head(Q.list)}
        /\ UNCHANGED <<pool_list, memory, restricted, queue>>

HasFree(p) == freeq[p].cur_cnt < freeq[p].total

Fits(size) == {i \in DOMAIN pool_list :
                  /\ size <= freeq[pool_list[i]].size
                  /\ pool_list[i] \notin restricted
                  /\ HasFree(pool_list[i])}

GetPackage(size) ==
    /\ size # 0 /\ Fits(size) # {}
    /\ Take(pool_list[Min(Fits(size))])

PoolGetPackage(p) == IF HasFree(p) THEN Take(p) ELSE GetPackage(freeq[p].size)

PutPackage(b) ==
    /\ b \in unlinked
    /\ freeq' = [freeq EXCEPT ![b[1]].list = Append(@, b),
                              ![b[1]].cur_cnt = IF @ > 0 THEN @ - 1 ELSE 0]
    /\ unlinked' = unlinked \ {b}
    /\ UNCHANGED <<pool_list, memory, restricted, queue>>

Enqueued(q, b, s) ==
    /\ b \in unlinked
    /\ queue' = [queue EXCEPT ![q] = s]
    /\ unlinked' = unlinked \ {b}
    /\ UNCHANGED <<freeq, pool_list, memory, restricted>>

QueueAddTail(q, b) == Enqueued(q, b, Append(queue[q], b))
QueueAddHead(q, b) == Enqueued(q, b, <<b>> \o queue[q])

Dequeued(q, i) ==
    /\ queue' = [queue EXCEPT ![q] = RemoveAt(@, i)]
    /\ unlinked' = unlinked \cup {queue[q][i]}
    /\ UNCHANGED <<freeq, pool_list, memory, restricted>>

QueueDelHead(q) == queue[q] # <<>> /\ Dequeued(q, 1)

\* Of a package on another queue, or on none, nothing is removed.  The code looks
\* in front of m_pFirst also when the queue is empty and m_pFirst is NULL: a call
\* on an empty queue is the caller's mistake and is no step here.
QueueRemove(q, b) == \E i \in DOMAIN queue[q] : queue[q][i] = b /\ Dequeued(q, i)

Queued == UNION {ToSet(queue[q]) : q \in Queues}

Next ==
    \/ \E size \in Sizes : \/ GetPackage(size)
                           \/ \E n \in Memories : CreatePool(n, size)
    \/ \E p \in PoolIds : \/ PoolGetPackage(p) \/ DestroyPool(p)
                          \/ \E r \in BOOLEAN : SetPermission(p, r)
    \/ \E b \in unlinked \cup Queued :
          \/ PutPackage(b)
          \/ \E q \in Queues : \/ QueueAddTail(q, b) \/ QueueAddHead(q, b)
                               \/ QueueRemove(q, b)
    \/ \E q \in Queues : QueueDelHead(q)

Spec == Init /\ [][Next]_vars

----------------------------------------------------------------------------
Out(p) == {b \in unlinked \cup Queued : b[1] = p}

\* Every package of a pool is in one place: on its free list, with the
\* application, or on one queue, and m_u16PackCurCnt counts the last two.
OnePlace ==
    /\ \A p \in PoolIds :
          /\ freeq[p].cur_cnt = Cardinality(Out(p))
          /\ Len(freeq[p].list) + freeq[p].cur_cnt = freeq[p].total
          /\ Cardinality(ToSet(freeq[p].list) \cup Out(p)) = freeq[p].total
    /\ Queued \cap unlinked = {}
    /\ \A q, r \in Queues, i, j \in 1..Cardinality(Queued) :
          i \in DOMAIN queue[q] /\ j \in DOMAIN queue[r]
          /\ queue[q][i] = queue[r][j] => q = r /\ i = j

\* The list that AKI_GetPackage searches holds every pool once, the smaller
\* packages first.
BestFitList ==
    /\ ToSet(pool_list) = {p \in PoolIds : memory[p] # 0}
    /\ IsInjective(pool_list)
    /\ \A i, j \in DOMAIN pool_list :
          i < j => freeq[pool_list[i]].size <= freeq[pool_list[j]].size

BufferPoolsAccounted == OnePlace /\ BestFitList

\* AKI_BufferCreatePool divides the application's memory by the unaligned
\* package size (its comment: no need to align), init_free_queue lays the
\* packages out by the aligned one; they are to fit all the same.
PoolFitsMemory ==
    \A p \in PoolIds : freeq[p].total * ActSize(freeq[p].size) <= memory[p]

\* The packages of pool p, wherever they are: the headers in its memory.
Laid(p) == {<<p, (i - 1) * ActSize(freeq[p].size)>> : i \in 1 .. freeq[p].total}

Abstract == INSTANCE Pools WITH
    Bufs <- PoolIds \X Nat,
    live <- UNION {Laid(p) : p \in PoolIds},
    out <- unlinked \cup Queued

\* No package is handed out twice, and no memory is given back while one of
\* its packages is out or queued.
BufferPoolsImplementPools == Abstract!Spec
============================================================================
