------------------------------ MODULE DelayBuf ------------------------------
(***************************************************************************)
(* The delay buffer of amio/delay/delaybuf.c.  Every call holds the lock,  *)
(* and is one step.  The circular buffer and WSOLA are outside the         *)
(* repository: the buffer is its length in samples, and WSOLA may erase    *)
(* fewer samples than it is asked to, or fail to save or to make a frame.  *)
(***************************************************************************)
EXTENDS Integers

CONSTANTS
    Spf,        \* samples_per_frame
    Channels,   \* channel_count
    Ptime,      \* in ms
    MaxDelay,   \* max_delay, at least Ptime
    RecalcTime, \* RECALC_TIME
    Wsola,      \* FALSE with PJMEDIA_DELAY_BUF_SIMPLE_FIFO
    LevelMax    \* bound: calls of one kind in a row

\* What pjmedia_delay_buf_create sees to: a max_delay below the frame time is
\* replaced.  RECALC_TIME is 2000.
DelayConstants ==
    /\ Spf \in Nat \ {0} /\ Ptime \in Nat \ {0} /\ Channels \in Nat \ {0}
    /\ RecalcTime \in Nat \ {0}
    /\ MaxDelay \in Nat /\ MaxDelay >= Ptime
    /\ Wsola \in BOOLEAN

VARIABLES
    len,     \* samples in circ_buf
    eff,     \* eff_cnt
    level, last_op, recalc, max_level

vars == <<len, eff, level, last_op, recalc, max_level>>
learning == <<eff, level, last_op, recalc, max_level>>

MaxCnt == (Spf * MaxDelay) \div Ptime
RoundUp(n) == ((n + Channels - 1) \div Channels) * Channels

Init ==
    /\ len = 0 /\ eff = MaxCnt \div 2 /\ level = 0 /\ last_op = "put"
    /\ recalc = RecalcTime /\ max_level = 0

\* AGC: fast increase, slow decrease.
Agc(cur, target) == IF cur < target THEN (cur + target * 3) \div 4
                    ELSE (cur * 3 + target) \div 4

\* update: the burst level while op repeats, and at a switch the new eff_cnt.
Update(op) ==
    IF op = last_op
    THEN level < LevelMax /\ level' = level + 1 /\ UNCHANGED <<eff, last_op, recalc, max_level>>
    ELSE LET top  == IF level > max_level THEN level ELSE max_level
             left == recalc - ((level * Ptime) \div 2)
         IN  /\ last_op' = op /\ level' = 1
             /\ IF left <= 0
                THEN eff' = RoundUp(Agc(eff, top * Spf)) /\ max_level' = 0 /\ recalc' = RecalcTime
                ELSE max_level' = top /\ recalc' = left /\ UNCHANGED eff

\* shrink_buffer: the lengths that n may be erased to.
Shrunk(l, n) == {l - k : k \in 0 .. (IF n < l THEN n ELSE l)}

\* The lengths update leaves: at a switch to put, a buffer above eff_cnt and
\* one frame loses half a frame.
Adjusted(op) ==
    IF Wsola /\ op = "put" /\ last_op # "put" /\ len > Spf + eff'
    THEN Shrunk(len, Spf \div 2) ELSE {len}

\* The overflow check of put, for a buffer of l samples; what WSOLA does not
\* erase is dropped.
FittedLate(l) == {l}                                             \* mutant
Fitted(l) ==
    IF l + Spf <= MaxCnt THEN {l}
    ELSE {IF k + Spf > MaxCnt THEN MaxCnt - Spf ELSE k :
            k \in IF Wsola THEN Shrunk(l, l + Spf - MaxCnt) ELSE {l}}

\* If WSOLA cannot save the frame, put ends there: update may have shrunk the
\* buffer by then, and nothing is written.
Put ==
    /\ IF Wsola THEN Update("put") ELSE UNCHANGED learning
    /\ \E l \in Adjusted("put") :
          \/ Wsola /\ len' = l
          \/ \E k \in Fitted(l) : len' = k + Spf

Get ==
    /\ IF Wsola THEN Update("get") ELSE UNCHANGED learning
    /\ IF len >= Spf THEN len' = len - Spf
       ELSE \/ Wsola /\ len' = len   \* a frame is made: returned, or written and read
            \/ len' = 0              \* all there is, and zeroes

Reset ==
    /\ recalc' = RecalcTime /\ len' = 0
    /\ UNCHANGED <<eff, level, last_op, max_level>>

Next == Put \/ Get \/ Reset
Spec == Init /\ [][Next]_vars

----------------------------------------------------------------------------
\* The circular buffer never takes more than it holds, also when put drops
\* samples and when get puts a made frame behind the samples that are left,
\* whatever a put that fails after update has taken from the buffer; put never
\* has to drop samples that are not there.
DelayFits == len >= 0 /\ len <= MaxCnt /\ (len < Spf => len + Spf <= MaxCnt)
============================================================================
