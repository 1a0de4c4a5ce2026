------------------------------ MODULE FifoBuf ------------------------------
(***************************************************************************)
(* The FIFO allocator of oslib (src/oslib/src/fifobuf.c): blocks are cut   *)
(* from a circular memory, each preceded by a word that holds its size,    *)
(* and are freed in the order they were allocated; only the newest one can *)
(* be given back by FIFO_Unalloc.  Offsets stand for pointers, the size    *)
(* word is one unit long.                                                  *)
(***************************************************************************)
EXTENDS Integers, Sequences

CONSTANTS Size,    \* units of memory given to FIFO_Init
          Sizes    \* the sizes callers ask for

SZ == 1

\* What the proofs assume of the constants.
FifoConstants == Size \in Nat \ {0} /\ Sizes \subseteq Nat

VARIABLES fifo,    \* m_pRead, m_pWrite, m_IsFull (m_pStart = 0, m_pEnd = Size)
          blocks,  \* the blocks the callers hold, oldest first: [at, len]
          refused  \* history: FIFO_Free refused the oldest block

vars == <<fifo, blocks, refused>>

Blocks == [at : 0 .. Size, len : {s + SZ : s \in Sizes}]

TypeOK ==
    /\ fifo \in [r : 0 .. Size - 1, w : 0 .. Size, full : BOOLEAN]
    /\ blocks \in Seq(Blocks)
    /\ refused \in BOOLEAN

FIFO_Init == fifo = [r |-> 0, w |-> 0, full |-> FALSE]

\* The largest block FIFO_Alloc could still cut, size word included.
FIFO_GetMaxSize(f) ==
    LET a == IF f.w >= f.r THEN Size - f.w ELSE f.r - f.w
        b == IF f.w >= f.r THEN f.r ELSE f.r - f.w
    IN  IF a < b THEN b ELSE a

\* Where a block of n units (size word included) would start: behind the last block,
\* else in front of the reader; -1 when neither has room.
Place(f, n) ==
    LET start == IF f.w <= f.r THEN f.w ELSE 0
    IN  IF f.full THEN -1
        ELSE IF f.w >= f.r /\ Size - f.w >= n THEN f.w
        ELSE IF f.r - start >= n THEN start
        ELSE -1

\* Mutant: the buffer is never marked full.
CutNotFull(f, at, n) ==
    [f EXCEPT !.w = IF f.w >= f.r /\ Size - f.w >= n /\ at + n = Size THEN 0 ELSE at + n]

\* The write pointer is wrapped only when the block was cut behind the last one.
Cut(f, at, n) ==
    LET w == IF f.w >= f.r /\ Size - f.w >= n /\ at + n = Size THEN 0 ELSE at + n
    IN  [f EXCEPT !.w = w, !.full = (w = f.r)]

FIFO_Alloc(s) ==
    LET n == s + SZ
        at == Place(fifo, n)
    IN  /\ at # -1
        /\ fifo' = Cut(fifo, at, n)
        /\ blocks' = Append(blocks, [at |-> at, len |-> n])
        /\ UNCHANGED refused

\* FIFO_Unalloc of block b: accepted when b ends where the next one would start.
Undone(f, b) ==
    IF b.at + b.len = (IF f.w = 0 THEN Size ELSE f.w)
    THEN [f EXCEPT !.w = b.at, !.full = FALSE]
    ELSE f

\* A caller that undoes its last allocation; when that is refused it keeps the block.
FIFO_Unalloc ==
    /\ blocks # <<>>
    /\ LET b == blocks[Len(blocks)]
           f == Undone(fifo, b)
       IN  /\ fifo' = f
           /\ blocks' = IF f = fifo THEN blocks ELSE SubSeq(blocks, 1, Len(blocks) - 1)
    /\ UNCHANGED refused

\* FIFO_Free accepts the block at the reader, or one at the start of the memory.
Accepted(f, b) ==
    /\ b.at \in {f.r, 0}
    /\ b.at + b.len <= (IF f.w > f.r THEN f.w ELSE Size)

Freed(f, b) ==
    LET r == IF b.at + b.len = Size THEN 0 ELSE b.at + b.len
    IN  IF r = f.w THEN [r |-> 0, w |-> 0, full |-> FALSE]
                   ELSE [r |-> r, w |-> f.w, full |-> FALSE]

FIFO_Free ==
    /\ blocks # <<>>
    /\ LET ok == Accepted(fifo, blocks[1])
       IN  /\ fifo' = IF ok THEN Freed(fifo, blocks[1]) ELSE fifo
           /\ blocks' = IF ok THEN Tail(blocks) ELSE blocks
           /\ refused' = (refused \/ ~ok)

Init == FIFO_Init /\ blocks = <<>> /\ refused = FALSE

Next == FIFO_Unalloc \/ FIFO_Free \/ \E s \in Sizes : FIFO_Alloc(s)

Spec == Init /\ [][Next]_vars

----------------------------------------------------------------------------
Units(b) == b.at .. b.at + b.len - 1

(***************************************************************************)
(* The blocks callers hold lie inside the memory and never share a unit,   *)
(* the oldest block can always be freed, and no block larger than          *)
(* FIFO_GetMaxSize reports could be cut: across wrap-arounds, gaps left at *)
(* the end of the memory, undone allocations and a full buffer.            *)
(***************************************************************************)
FifoBlocksKept ==
    /\ ~refused
    /\ \A i \in 1 .. Len(blocks) :
        /\ Units(blocks[i]) \subseteq 0 .. Size - 1
        /\ \A j \in 1 .. i - 1 : Units(blocks[i]) \cap Units(blocks[j]) = {}
    /\ Place(fifo, FIFO_GetMaxSize(fifo) + 1) = -1
=============================================================================
