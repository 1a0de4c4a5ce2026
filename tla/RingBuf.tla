------------------------------ MODULE RingBuf ------------------------------
(***************************************************************************)
(* The byte ring of oslib (src/oslib/src/ringbuf.c).  A write never fails: *)
(* when it needs more than the free space it runs over the oldest bytes.   *)
(* Full and empty are told apart by the two mirror bits.  The k-th byte    *)
(* ever written is represented by the number k.  Nothing in the repository *)
(* says which bytes such a write drops: Lost states what the code does.    *)
(***************************************************************************)
EXTENDS Integers, Sequences

CONSTANTS MaxSize,     \* the size given to RING_Init
          WrittenMax   \* bound: bytes ever written

\* What the proofs assume of the constants.
RingConstants == MaxSize \in Nat \ {0}

VARIABLES ring,     \* m_pBuffer, m_u32ReadIndex/Mirror, m_u32WriteIndex/Mirror
          written,  \* history: bytes ever written
          taken,    \* history: bytes returned by RING_Read
          lost      \* history: bytes that writes larger than the free space dropped

vars == <<ring, written, taken, lost>>

RING_Init == [buf |-> [i \in 0 .. MaxSize - 1 |-> 0], r |-> 0, rm |-> 0, w |-> 0, wm |-> 0]

RING_GetDataLen(b) ==
    IF b.r = b.w THEN IF b.rm = b.wm THEN 0 ELSE MaxSize
    ELSE IF b.r > b.w THEN MaxSize - (b.r - b.w) ELSE b.w - b.r

RING_GetSpaceLen(b) == MaxSize - RING_GetDataLen(b)

\* The two memcpy's of a write of bytes from, from + 1, ... at the write index.
Copied(b, from, n) ==
    [i \in DOMAIN b.buf |-> LET k == (i - b.w + MaxSize) % MaxSize
                            IN  IF k < n THEN from + k ELSE b.buf[i]]

\* Mutant: the write mirror is not flipped when the index wraps.
RING_WriteNoMirror(b, from, n) ==
    LET w == (b.w + n) % MaxSize
    IN  [b EXCEPT !.buf = Copied(b, from, n), !.w = w,
                  !.r = IF n > RING_GetSpaceLen(b) THEN w ELSE @]

\* A write that reaches the end flips the write mirror; one that runs over the
\* reader moves the read index to the write index, and flips its mirror when wrapped.
RING_Write(b, from, n) ==
    LET wraps == n >= MaxSize - b.w
        runs  == n > RING_GetSpaceLen(b)
        w     == IF wraps THEN n - (MaxSize - b.w) ELSE b.w + n
    IN  [b EXCEPT !.buf = Copied(b, from, n),
                  !.w   = w,
                  !.wm  = IF wraps THEN 1 - @ ELSE @,
                  !.r   = IF runs THEN w ELSE @,
                  !.rm  = IF runs /\ wraps THEN 1 - @ ELSE @]

\* What RING_Read(n) returns, and the ring it leaves.
ReadLen(b, n) == IF RING_GetDataLen(b) < n THEN RING_GetDataLen(b) ELSE n

Bytes(b, n) == [k \in 1 .. n |-> b.buf[(b.r + k - 1) % MaxSize]]

RING_Read(b, n) ==
    LET m == ReadLen(b, n)
    IN  IF m = 0 /\ RING_GetDataLen(b) = 0 THEN b
        ELSE IF m < MaxSize - b.r THEN [b EXCEPT !.r = @ + m]
        ELSE [b EXCEPT !.rm = 1 - @, !.r = m - (MaxSize - @)]

\* How many bytes a write of n drops.  It drops the n - space oldest ones, and the
\* ring is full, if the reader is ahead of the writer or level with it.  A reader
\* behind the writer goes to the next turn with it: the ring is empty, and all
\* that was unread is gone with the bytes of the write itself.
Lost(b, n) ==
    IF n <= RING_GetSpaceLen(b) THEN 0
    ELSE IF b.r < b.w THEN RING_GetDataLen(b) + n
    ELSE n - RING_GetSpaceLen(b)

Init == ring = RING_Init /\ written = 0 /\ taken = <<>> /\ lost = 0

Write(n) ==
    /\ written + n <= WrittenMax
    /\ ring' = RING_Write(ring, written + 1, n)
    /\ written' = written + n
    /\ lost' = lost + Lost(ring, n)
    /\ UNCHANGED taken

Read(n) ==
    /\ ring' = RING_Read(ring, n)
    /\ taken' = taken \o Bytes(ring, ReadLen(ring, n))
    /\ UNCHANGED <<written, lost>>

Next == \E n \in 1 .. MaxSize : Write(n) \/ Read(n)

Spec == Init /\ [][Next]_vars

----------------------------------------------------------------------------
(***************************************************************************)
(* Whatever the order of writes and reads, the bytes in the ring are the   *)
(* newest bytes written, in order and up to the last one, and the bytes a  *)
(* reader got are in writing order.  Every byte written was read, is in    *)
(* the ring or was dropped, and what a write drops is what Lost says: none *)
(* if it fits, the oldest ones if the reader is ahead of the writer, and   *)
(* everything unread, its own bytes included, if it wraps and overruns a   *)
(* reader that is behind the writer, after which the ring reads as empty.  *)
(***************************************************************************)
RingNewest ==
    LET n == RING_GetDataLen(ring)
    IN  /\ Bytes(ring, n) = [k \in 1 .. n |-> written - n + k]
        /\ \A k \in 1 .. Len(taken) - 1 : taken[k] < taken[k + 1]
        /\ Len(taken) + n + lost = written
=============================================================================
