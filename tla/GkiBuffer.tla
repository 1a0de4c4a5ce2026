----------------------------- MODULE GkiBuffer -----------------------------
(***************************************************************************)
(* The buffer pools of gki/src/gki_buffer.c.  GKI_disable and GKI_enable   *)
(* are empty macros: the pools belong to one thread, and every call is one *)
(* step.  A buffer is <<pool, offset>>, the place of its header in the     *)
(* pool's memory; a free list is the sequence of the headers from p_first  *)
(* to p_last.                                                              *)
(***************************************************************************)
EXTENDS Integers, Sequences, FiniteSets, SequencesExt

CONSTANTS
    NPools,     \* GKI_NUM_TOTAL_BUF_POOLS, all of them made at the start
    BufSize,    \* GKI_BUFn_SIZE
    BufMax,     \* GKI_BUFn_MAX
    Mask,       \* the pools that GKI_DEF_BUFPOOL_PERM_MASK restricts
    Sizes,      \* the sizes the application asks for
    Counts      \* the numbers of buffers in the pools it creates

PoolIds == 0 .. NPools-1
Padding == 20                         \* BUFFER_PADDING_SIZE
MaxUserSize == 65535 - Padding        \* MAX_USER_BUF_SIZE

VARIABLES
    freeq,
    pool_list,   \* its first curr_total_no_of_pools entries
    start,       \* the pools with pool_start # NULL
    restricted,  \* pool_access_mask
    unlinked     \* the buffers with BUF_STATUS_UNLINKED

vars == <<freeq, pool_list, start, restricted, unlinked>>

Align(n) == ((n + 3) \div 4) * 4
ActSize(size) == (Align(size) + Padding) % 65536

\* gki_init_free_queue: with an act_size of 0 every header is the first one.
FreeQueue(p, size, total) ==
    LET act == ActSize(size)
    IN  [size |-> Align(size), total |-> total, cur_cnt |-> 0, max_cnt |-> 0,
         list |-> [i \in 1 .. (IF act = 0 THEN 1 ELSE total) |->
                      <<p, (i - 1) * act>>]]

\* What the theorems assume of the constants.  The three sizes up to
\* MAX_USER_BUF_SIZE are left out: with them act_size wraps to 0 and the
\* buffers of the pool are one.
GkiConstants ==
    /\ NPools \in Nat /\ BufMax \in Nat /\ Counts \subseteq Nat
    /\ BufSize <= MaxUserSize
    /\ \A size \in Sizes \cup {BufSize} :
          size \in Nat /\ (size <= MaxUserSize => ActSize(size) # 0)

NoQueue == [size |-> 0, total |-> 0, cur_cnt |-> 0, max_cnt |-> 0, list |-> <<>>]

\* The position before which gki_add_to_pool_list inserts a pool of this size.
ListPosLast(size) ==                                             \* mutant
    LET fit == {i \in DOMAIN pool_list : size >= freeq[pool_list[i]].size}
    IN  IF fit = {} THEN Len(pool_list) + 1 ELSE Min(fit)
ListPos(size) ==
    LET fit == {i \in DOMAIN pool_list : size <= freeq[pool_list[i]].size}
    IN  IF fit = {} THEN Len(pool_list) + 1 ELSE Min(fit)

\* gki_remove_from_pool_list, and curr_total_no_of_pools--: of an id that is
\* not on the list, the last entry goes.
Removed(p) ==
    LET at == {i \in DOMAIN pool_list : pool_list[i] = p}
    IN  RemoveAt(pool_list, IF at = {} THEN Len(pool_list) ELSE Min(at))

Init ==
    /\ freeq = [p \in PoolIds |-> FreeQueue(p, BufSize, BufMax)]
    /\ pool_list = [i \in 1..NPools |-> i - 1]
    /\ start = PoolIds
    /\ restricted = Mask
    /\ unlinked = {}

\* The first buffer of pool p is handed out.
Take(p) ==
    LET Q == freeq[p]
    IN  /\ freeq' = [freeq EXCEPT ![p] =
                        [Q EXCEPT !.list = Tail(@), !.cur_cnt = @ + 1,
                                  !.max_cnt = IF Q.cur_cnt + 1 > @
                                              THEN Q.cur_cnt + 1 ELSE @]]
        /\ unlinked' = unlinked \cup {Head(Q.list)}
        /\ UNCHANGED <<pool_list, start, restricted>>

HasFree(p) == freeq[p].cur_cnt < freeq[p].total

\* The places on the list where GKI_getbuf finds a buffer for this size.
Fits(size) == {i \in DOMAIN pool_list :
                  /\ size <= freeq[pool_list[i]].size
                  /\ pool_list[i] \notin restricted
                  /\ HasFree(pool_list[i])}

GetBuf(size) ==
    /\ size # 0 /\ Fits(size) # {}
    /\ Take(pool_list[Min(Fits(size))])

GetPoolBuf(p) == IF HasFree(p) THEN Take(p) ELSE GetBuf(freeq[p].size)

FreeBuf(b) ==
    /\ b \in unlinked
    /\ freeq' = [freeq EXCEPT ![b[1]].list = Append(@, b),
                              ![b[1]].cur_cnt = IF @ > 0 THEN @ - 1 ELSE 0]
    /\ unlinked' = unlinked \ {b}
    /\ UNCHANGED <<pool_list, start, restricted>>

SetPoolPermission(p, restrict) ==
    /\ restricted' = IF restrict THEN restricted \cup {p} ELSE restricted \ {p}
    /\ UNCHANGED <<freeq, pool_list, start, unlinked>>

\* The first pool without memory gets some and enters the list.
CreatePool(size, count, restrict) ==
    /\ size <= MaxUserSize
    /\ start # PoolIds
    /\ LET p == Min(PoolIds \ start)
       IN  /\ freeq' = [freeq EXCEPT ![p] = FreeQueue(p, size, count)]
           /\ pool_list' = InsertAt(pool_list, ListPos(Align(size)), p)
           /\ start' = start \cup {p}
           /\ restricted' = IF restrict THEN restricted \cup {p}
                            ELSE restricted \ {p}
    /\ UNCHANGED unlinked

DeletePoolInUse(p) ==                                            \* mutant
    /\ p \in start
    /\ freeq' = [freeq EXCEPT ![p] = NoQueue]
    /\ start' = start \ {p}
    /\ pool_list' = Removed(p)
    /\ UNCHANGED <<restricted, unlinked>>
DeletePool(p) ==
    /\ p \in start /\ freeq[p].cur_cnt = 0
    /\ freeq' = [freeq EXCEPT ![p] = NoQueue]
    /\ start' = start \ {p}
    /\ pool_list' = Removed(p)
    /\ UNCHANGED <<restricted, unlinked>>

Next ==
    \/ \E size \in Sizes : GetBuf(size)
    \/ \E p \in PoolIds : \/ GetPoolBuf(p) \/ DeletePool(p)
                          \/ \E r \in BOOLEAN : SetPoolPermission(p, r)
    \/ \E b \in unlinked : FreeBuf(b)
    \/ \E size \in Sizes, count \in Counts, r \in BOOLEAN :
          CreatePool(size, count, r)

Spec == Init /\ [][Next]_vars

----------------------------------------------------------------------------
Out(p) == {b \in unlinked : b[1] = p}

\* cur_cnt counts the buffers of a pool that are out, the others are on its
\* free list, and no buffer is there twice: what GKI_delete_pool relies on.
CountsMatch ==
    \A p \in PoolIds :
        /\ freeq[p].cur_cnt = Cardinality(Out(p))
        /\ Len(freeq[p].list) + freeq[p].cur_cnt = freeq[p].total
        /\ Cardinality(ToSet(freeq[p].list) \cup Out(p)) = freeq[p].total

\* pool_list holds every pool that has memory, once, and the smaller buffers
\* come first: GKI_getbuf takes the first pool that fits for the best one.
BestFitList ==
    /\ ToSet(pool_list) = start /\ Len(pool_list) = Cardinality(start)
    /\ \A i, j \in DOMAIN pool_list :
          i < j => freeq[pool_list[i]].size <= freeq[pool_list[j]].size

BufferPoolsAccounted == CountsMatch /\ BestFitList

\* The buffers of pool p, wherever they are: the headers in its memory.
Laid(p) == {<<p, (i - 1) * ActSize(freeq[p].size)>> : i \in 1 .. freeq[p].total}

Abstract == INSTANCE Pools WITH
    Bufs <- PoolIds \X Nat,
    live <- UNION {Laid(p) : p \in PoolIds},
    out <- unlinked

\* The pools never hand out a buffer that is out, nor free the memory of one.
BufferPoolsImplementPools == Abstract!Spec
============================================================================
