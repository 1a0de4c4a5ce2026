---------------------------- MODULE PoolCaching ----------------------------
(***************************************************************************)
(* The memory pools of oslib (src/oslib/src/pool.c) under their caching    *)
(* factory (pool_caching.c) and the malloc policy (pool_policy_malloc.c).  *)
(* A pool is a list of blocks from which POOL_Alloc cuts aligned chunks    *)
(* that are never given back singly; destroying the pool frees the blocks. *)
(* A block is named by a number, an address by a block and an offset.      *)
(***************************************************************************)
EXTENDS Integers, Sequences, FiniteSets, FiniteSetsExt, SequencesExt

CONSTANTS Pools,          \* names for T_PoolInfo
          PoolSize,       \* sizeof(T_PoolInfo)
          BlockSize,      \* sizeof(T_PoolBlockInfo)
          pool_sizes,     \* the initial sizes the factory caches, rising
          START,          \* POOL_START_SIZE, counted from 1
          Inits, Incs,    \* initial and increment sizes callers use
          Requests,       \* the sizes callers allocate
          CapacityMax,    \* m_szCapacityMax
          BlockMax        \* bound: blocks malloc has before it returns NULL

POOL_ALIGNMENT == 4
ArraySize == Len(pool_sizes)

VARIABLES pool,      \* per pool: [blocks, inc, cap, live]
          used,      \* the factory's used_list
          usedSize,  \* m_szUsedSize
          chunks,    \* memory callers hold: [pool, block, at, len]
          asserted   \* history: an assert() of the code failed

vars == <<pool, used, usedSize, chunks, asserted>>

NoPool == [blocks |-> <<>>, inc |-> 0, cap |-> 0]

ALIGN_PTR(a) == a + ((-a) % POOL_ALIGNMENT)

\* A block whose chunks start at offset from, of size bytes in all.
Block(id, from, size) == [id |-> id, start |-> from, end |-> size, cur |-> ALIGN_PTR(from)]

BlockIds(p) == {p.blocks[i].id : i \in 1 .. Len(p.blocks)}
Taken == UNION {BlockIds(pool[p]) : p \in Pools}

\* default_block_alloc: malloc gives a block that is in no pool, or fails at the bound.
\* m_szUsedSize is counted up before and down again after a failure.
FreshBlock == IF Cardinality(Taken) < BlockMax THEN Min((1 .. BlockMax) \ Taken) ELSE 0

Rounded(n) == IF n % POOL_ALIGNMENT # 0
              THEN ((n + POOL_ALIGNMENT) \div POOL_ALIGNMENT) * POOL_ALIGNMENT ELSE n

\* pool_alloc_from_block: does the block have room for a chunk of n?
pool_alloc_from_block(b, n) == b.end - b.cur >= Rounded(n)

\* Mutant: the block's own header is not counted.
NewSizeNoHeader(inc, n) == IF inc < n THEN ((n + inc) \div inc) * inc ELSE inc

\* The size of the block pool_allocate_find adds for a request of n.
NewSize(inc, n) ==
    LET need == n + BlockSize + POOL_ALIGNMENT
    IN  IF inc < need THEN ((need + inc) \div inc) * inc ELSE inc

\* pool_create_block behind the blocks of a pool.
pool_create_block(p, id, size) ==
    [p EXCEPT !.cap = @ + size, !.blocks = Append(@, Block(id, BlockSize, size))]

\* pool_allocate_find: the first block with room (POOL_Alloc tries the first one
\* before), else a new one; [pool, index of the block, bytes malloced], index 0 = NULL.
pool_allocate_find(p, n) ==
    LET fit == {i \in 1 .. Len(p.blocks) : pool_alloc_from_block(p.blocks[i], n)}
        size == NewSize(p.inc, n)
    IN  IF fit # {} THEN [p |-> p, i |-> Min(fit), more |-> 0]
        ELSE IF p.inc = 0 \/ FreshBlock = 0 THEN [p |-> p, i |-> 0, more |-> 0]
        ELSE [p |-> pool_create_block(p, FreshBlock, size), i |-> Len(p.blocks) + 1, more |-> size]

\* PoolCreateInt: the pool's own record and its first block share one allocation.
PoolCreateInt(id, init, inc) ==
    [blocks |-> <<Block(id, PoolSize + BlockSize, init)>>, inc |-> inc, cap |-> init]

\* The cached size class cpool_create_pool rounds an initial size up to.
PoolIndex(init) ==
    IF init <= pool_sizes[START]
    THEN Min({i \in 1 .. START : pool_sizes[i] >= init})
    ELSE Min({i \in START + 1 .. ArraySize : pool_sizes[i] >= init} \cup {ArraySize + 1})

InitSize(init) == IF PoolIndex(init) > ArraySize THEN init ELSE pool_sizes[PoolIndex(init)]

\* reset_pool: all blocks but the first are freed; a pool with one block is left as it is.
reset_pool(p) ==
    LET b == p.blocks[1]
    IN  IF Len(p.blocks) = 1 THEN p
        ELSE [p EXCEPT !.blocks = <<[b EXCEPT !.cur = ALIGN_PTR(b.start)]>>, !.cap = b.end]

BlocksSize(p) == FoldSeq(LAMBDA b, n : b.end + n, 0, p.blocks)

\* POOL_CachingInit; its own pool on the stack serves nothing.
Init ==
    /\ pool = [p \in Pools |-> NoPool]
    /\ used = <<>>
    /\ usedSize = 0
    /\ chunks = {}
    /\ asserted = FALSE

\* cpool_create_pool; the free lists are empty, see cpool_release_pool.
cpool_create_pool(p, init, inc) ==
    /\ p \notin ToSet(used)
    /\ init >= PoolSize + BlockSize
    /\ FreshBlock # 0
    /\ pool' = [pool EXCEPT ![p] = PoolCreateInt(FreshBlock, InitSize(init), inc)]
    /\ used' = <<p>> \o used
    /\ usedSize' = usedSize + InitSize(init)
    /\ UNCHANGED <<chunks, asserted>>

\* POOL_Alloc and POOL_Calloc of n bytes; a chunk that does not fit into the block
\* just made fails assert(p != NULL).
POOL_Alloc(p, n) ==
    /\ p \in ToSet(used)
    /\ LET a == pool_allocate_find(pool[p], n)
           b == a.p.blocks[a.i]
           fits == a.i # 0 /\ pool_alloc_from_block(b, n)
       IN  /\ pool' = [pool EXCEPT ![p] =
                           IF fits THEN [a.p EXCEPT !.blocks[a.i].cur = @ + Rounded(n)] ELSE a.p]
           /\ chunks' = IF fits THEN chunks \cup {[pool |-> p, block |-> b.id, at |-> b.cur, len |-> n]}
                                ELSE chunks
           /\ usedSize' = usedSize + a.more
           /\ asserted' = (asserted \/ (a.i # 0 /\ ~fits))
    /\ UNCHANGED used

\* POOL_Reset by the owner, who gives up every chunk of the pool.
POOL_Reset(p) ==
    /\ p \in ToSet(used)
    /\ pool' = [pool EXCEPT ![p] = reset_pool(@)]
    /\ usedSize' = usedSize - (BlocksSize(pool[p]) - BlocksSize(reset_pool(pool[p])))
    /\ chunks' = {c \in chunks : c.pool # p}
    /\ UNCHANGED <<used, asserted>>

\* Whether a released pool is kept for reuse.
Kept(p) == pool[p].cap <= pool_sizes[ArraySize] /\ pool[p].cap <= CapacityMax

\* cpool_release_pool: PoolDestroyInt frees the blocks.  A pool to be kept would go to
\* the free list of index m_pFactoryData, which cpool_create_pool set to the ADDRESS of
\* its local index: assert(i < POOL_CACHING_ARRAY_SIZE) stops the program there.
cpool_release_pool(p) ==
    /\ p \in ToSet(used)
    /\ used' = SelectSeq(used, LAMBDA q : q # p)
    /\ pool' = [pool EXCEPT ![p] = NoPool]
    /\ usedSize' = usedSize - BlocksSize(pool[p])
    /\ chunks' = {c \in chunks : c.pool # p}
    /\ asserted' = (asserted \/ Kept(p))

\* POOL_CachingDeinit destroys the pools the application forgot.
POOL_CachingDeinit ==
    /\ used # <<>>
    /\ used' = <<>>
    /\ pool' = [p \in Pools |-> NoPool]
    /\ usedSize' = usedSize - MapThenSumSet(LAMBDA p : BlocksSize(pool[p]), ToSet(used))
    /\ chunks' = {}
    /\ UNCHANGED asserted

Next ==
    \/ POOL_CachingDeinit
    \/ \E p \in Pools :
        \/ POOL_Reset(p)
        \/ cpool_release_pool(p)
        \/ \E init \in Inits, inc \in Incs : cpool_create_pool(p, init, inc)
        \/ \E n \in Requests : POOL_Alloc(p, n)

Spec == Init /\ [][Next]_vars

----------------------------------------------------------------------------
(***************************************************************************)
(* Every chunk callers hold is aligned, lies inside a block of its own     *)
(* pool behind the headers, and shares no byte with another chunk, through *)
(* growth, reset and release of pools; no assert() of the code fails (the  *)
(* block made for a request holds it); and the factory's m_szUsedSize is   *)
(* the size of the blocks of its pools, each of which knows its capacity.  *)
(***************************************************************************)
ChunksKept ==
    /\ ~asserted
    /\ \A c \in chunks :
        /\ c.at % POOL_ALIGNMENT = 0
        /\ \E b \in ToSet(pool[c.pool].blocks) :
               b.id = c.block /\ c.at >= b.start /\ c.at + c.len <= b.cur /\ b.cur <= b.end
        /\ \A d \in chunks \ {c} :
               c.block # d.block \/ c.at + c.len <= d.at \/ d.at + d.len <= c.at
    /\ \A p \in Pools : pool[p].cap = BlocksSize(pool[p])
    /\ \A p, q \in Pools : p # q => BlockIds(pool[p]) \cap BlockIds(pool[q]) = {}
    /\ usedSize = MapThenSumSet(LAMBDA p : BlocksSize(pool[p]), Pools)

(***************************************************************************)
(* assert(i < POOL_CACHING_ARRAY_SIZE) when a pool is released             *)
(* (pool_caching.c:200).                                                   *)
(***************************************************************************)
IndexInRange == ~asserted
=============================================================================
