----------------------------- MODULE UnitProofs -----------------------------
(***************************************************************************)
(* The properties of the units side by side, for every value of their      *)
(* constants.  A unit runs alone in its variables, so that each property   *)
(* follows from the theorem of its component: a behaviour of another unit  *)
(* satisfies it trivially, and a behaviour of the unit is one of the       *)
(* component.                                                              *)
(***************************************************************************)
EXTENDS Units, TLAPS

\* The unit starts as its component does.
LEMMA UnitStarts ==
    Init =>
      /\ unit = "gki" => BufG!Gki!Init
      /\ unit = "aki" => BufA!Aki!Init
      /\ unit = "ring" => BufG!Ring!Init
      /\ unit = "blocks" => BufG!Fifo!Init
      /\ unit = "rtsp v" => RtspV!Init
      /\ unit = "rtsp av" => RtspAV!Init
      /\ unit = "session" => Session!Init
      /\ unit = "negan" => MediaN!Neg!Init
      /\ unit = "driver" => MediaN!Drv!Init
      /\ unit = "port" => MediaN!Bus!Init
      /\ unit = "null" => MediaN!Str!Init
      /\ unit = "audio" => MediaA!Str!Init
      /\ unit = "video" => MediaV!Str!Init
      /\ unit = "delay" => MediaN!Delay!Init
      /\ unit = "simple" => MediaA!Delay!Init
  BY DEF Init

\* Every step is one of the unit's component, or leaves its variables alone.
LEMMA UnitRuns ==
    [Next]_vars =>
      /\ unit = "gki" => (unit = "gki")' /\ [BufG!Gki!Next]_(BufG!Gki!vars)
      /\ unit = "aki" => (unit = "aki")' /\ [BufA!Aki!Next]_(BufA!Aki!vars)
      /\ unit = "ring" => (unit = "ring")' /\ [BufG!Ring!Next]_(BufG!Ring!vars)
      /\ unit = "blocks" => (unit = "blocks")' /\ [BufG!Fifo!Next]_(BufG!Fifo!vars)
      /\ unit = "rtsp v" => (unit = "rtsp v")' /\ [RtspV!Next]_(RtspV!vars)
      /\ unit = "rtsp av" => (unit = "rtsp av")' /\ [RtspAV!Next]_(RtspAV!vars)
      /\ unit = "session" => (unit = "session")' /\ [Session!Next]_(Session!vars)
      /\ unit = "negan" => (unit = "negan")' /\ [MediaN!Neg!Next]_(MediaN!Neg!vars)
      /\ unit = "driver" => (unit = "driver")' /\ [MediaN!Drv!Next]_(MediaN!Drv!vars)
      /\ unit = "port" => (unit = "port")' /\ [MediaN!Bus!Next]_(MediaN!Bus!vars)
      /\ unit = "null" => (unit = "null")' /\ [MediaN!Str!Next]_(MediaN!Str!vars)
      /\ unit = "audio" => (unit = "audio")' /\ [MediaA!Str!Next]_(MediaA!Str!vars)
      /\ unit = "video" => (unit = "video")' /\ [MediaV!Str!Next]_(MediaV!Str!vars)
      /\ unit = "delay" => (unit = "delay")' /\ [MediaN!Delay!Next]_(MediaN!Delay!vars)
      /\ unit = "simple" => (unit = "simple")' /\ [MediaA!Delay!Next]_(MediaA!Delay!vars)
  BY DEF Next, MsgReads, vars,
         BufG!Gki!vars, BufA!Aki!vars, BufG!Ring!vars, BufG!Fifo!vars, RtspV!vars, RtspAV!vars, Session!vars, MediaN!Neg!vars,
         MediaN!Drv!vars, MediaN!Bus!vars, MediaN!Str!vars, MediaA!Str!vars, MediaV!Str!vars, MediaN!Delay!vars, MediaA!Delay!vars

\* The unit stays the same.
LEMMA UnitStays ==
    [Next]_vars =>
      /\ ~(unit = "gki") => ~(unit = "gki")'
      /\ ~(unit = "aki") => ~(unit = "aki")'
      /\ ~(unit = "ring") => ~(unit = "ring")'
      /\ ~(unit = "blocks") => ~(unit = "blocks")'
      /\ ~(unit = "rtsp v") => ~(unit = "rtsp v")'
      /\ ~(unit = "rtsp av") => ~(unit = "rtsp av")'
      /\ ~(unit = "session") => ~(unit = "session")'
      /\ ~(unit = "negan") => ~(unit = "negan")'
      /\ ~(unit = "driver") => ~(unit = "driver")'
      /\ ~(unit = "port") => ~(unit = "port")'
      /\ ~(unit = "null") => ~(unit = "null")'
      /\ ~(unit = "audio") => ~(unit = "audio")'
      /\ ~(unit = "video") => ~(unit = "video")'
      /\ ~(unit = "delay") => ~(unit = "delay")'
      /\ ~(unit = "simple") => ~(unit = "simple")'
  BY DEF Next, MsgReads, vars

\* The counts and lists of the buffer pools of GKI and AKI are exact after any
\* calls (gki_buffer.c, aki_buffer.c).
THEOREM UnitPoolsAccounted == Spec => []BufferPoolsAccounted
  <1>1. BufG!Gki!Init /\ [][BufG!Gki!Next]_(BufG!Gki!vars) => []BufG!Gki!BufferPoolsAccounted
    BY BufferConstants, BufG!GkiPoolsAccounted DEF BufG!Gki!Spec
  <1>2. BufA!Aki!Init /\ [][BufA!Aki!Next]_(BufA!Aki!vars) => []BufA!Aki!BufferPoolsAccounted
    BY BufferConstants, BufA!AkiPoolsAccounted DEF BufA!Aki!Spec
  <1> QED
    BY <1>1, <1>2, UnitStarts, UnitRuns, UnitStays, PTL
    DEF Spec, BufferPoolsAccounted

\* GKI and AKI implement Pools, the specification of buffer pools: initially
\* nothing is out, and each of their calls is one of Pools or leaves its state
\* alone (gki_buffer.c, aki_buffer.c).
THEOREM UnitImplementsPools == Spec => BufferPoolsImplementPools
  <1> DEFINE Step == /\ unit = "gki" => [BufG!Gki!Abstract!Next]_(BufG!Gki!Abstract!vars)
                     /\ unit = "aki" => [BufA!Aki!Abstract!Next]_(BufA!Aki!Abstract!vars)
             Inv == /\ unit = "gki" => BufG!GkiInv
                    /\ unit = "aki" => BufA!AkiInv
  <1>1. Init => /\ Inv
                /\ unit = "gki" => BufG!Gki!Abstract!Init
                /\ unit = "aki" => BufA!Aki!Abstract!Init
    BY BufferConstants, UnitStarts, BufG!GkiInit, BufA!AkiInit
  <1>2. Inv /\ [Next]_vars => Inv' /\ [Step]_vars
    <2> SUFFICES ASSUME Inv, [Next]_vars
                 PROVE  Inv' /\ Step
      OBVIOUS
    <2>1. ASSUME unit = "gki"
          PROVE  BufG!GkiInv' /\ [BufG!Gki!Abstract!Next]_(BufG!Gki!Abstract!vars)
      BY <2>1, BufferConstants, UnitRuns, BufG!GkiStep
    <2>2. ASSUME unit = "aki"
          PROVE  BufA!AkiInv' /\ [BufA!Aki!Abstract!Next]_(BufA!Aki!Abstract!vars)
      BY <2>2, BufferConstants, UnitRuns, BufA!AkiStep
    <2> QED BY <2>1, <2>2, UnitStays
  <1> HIDE DEF Step, Inv
  <1>3. Spec => [][Step]_vars
    BY <1>1, <1>2, PTL DEF Spec
  <1> QED BY <1>1, <1>3 DEF Spec, BufferPoolsImplementPools, Step

\* What a ring buffer returns are the newest bytes, in order (ringbuf.c).
THEOREM UnitRingNewest == Spec => []RingNewest
  <1>1. BufG!Ring!Init /\ [][BufG!Ring!Next]_(BufG!Ring!vars) => []BufG!Ring!RingNewest
    BY BufferConstants, BufG!RingReadsNewest DEF BufG!Ring!Spec
  <1> QED
    BY <1>1, UnitStarts, UnitRuns, UnitStays, PTL
    DEF Spec, RingNewest

\* The blocks of a fifo buffer do not overlap and it takes back the oldest
\* (fifobuf.c).
THEOREM UnitBlocksKept == Spec => []FifoBlocksKept
  <1>1. BufG!Fifo!Init /\ [][BufG!Fifo!Next]_(BufG!Fifo!vars) => []BufG!Fifo!FifoBlocksKept
    BY BufferConstants, BufG!FifoBlocksStay DEF BufG!Fifo!Spec
  <1> QED
    BY <1>1, UnitStarts, UnitRuns, UnitStays, PTL
    DEF Spec, FifoBlocksKept

\* The objects of the RTSP server refer to live ones (rtsp_demo.c).
THEOREM UnitServerLinked == Spec => []RtspLinked
  <1>1. RtspV!Init /\ [][RtspV!Next]_(RtspV!vars) => []RtspV!RtspLinked
    BY ServerConstants, RtspV!ServerLinked DEF RtspV!Spec
  <1>2. RtspAV!Init /\ [][RtspAV!Next]_(RtspAV!vars) => []RtspAV!RtspLinked
    BY ServerConstants, RtspAV!ServerLinked DEF RtspAV!Spec
  <1> QED
    BY <1>1, <1>2, UnitStarts, UnitRuns, UnitStays, PTL
    DEF Spec, RtspLinked

\* No reader of a stream queue is overtaken or goes back (rtsp_demo.c,
\* stream_queue.c).
THEOREM UnitServerReads == Spec => []RtspReadsForward
  <1>1. RtspV!Init /\ [][RtspV!Next]_(RtspV!vars) => []RtspV!RtspReadsForward
    BY ServerConstants, RtspV!ServerReads DEF RtspV!Spec
  <1>2. RtspAV!Init /\ [][RtspAV!Next]_(RtspAV!vars) => []RtspAV!RtspReadsForward
    BY ServerConstants, RtspAV!ServerReads DEF RtspAV!Spec
  <1> QED
    BY <1>1, <1>2, UnitStarts, UnitRuns, UnitStays, PTL
    DEF Spec, RtspReadsForward

\* A late answer to a numbered call answers no other call of an RTMP session;
\* only playlists, sent without a number, share one (rtmp.c).
THEOREM UnitAnswersMatched == Spec => []RtmpAnswersMatched
  <1>1. Session!Init /\ [][Session!Next]_(Session!vars) => []Session!AnswersMatched
    BY ServerConstants, Session!AnswersAreMatched DEF Session!Spec
  <1> QED
    BY <1>1, UnitStarts, UnitRuns, UnitStays, PTL
    DEF Spec, RtmpAnswersMatched

\* A pass of NEG_doEvent serves live clients in order and loses no byte
\* (negan.c).
THEOREM UnitServesAll == Spec => []NegServesAll
  <1>1. MediaN!Neg!Init /\ [][MediaN!Neg!Next]_(MediaN!Neg!vars) => [](MediaN!Neg!WalkInOrder /\ MediaN!Neg!BoundToLive /\ MediaN!Neg!BytesKept)
    BY ServerConstants, MediaN!PassAlways
  <1> QED
    BY <1>1, UnitStarts, UnitRuns, UnitStays, PTL
    DEF Spec, NegServesAll

\* AMIO_DevLookup leads to the channel it was asked for (amio_drv.c).
THEOREM UnitLookupRight == Spec => []AmioLookupRight
  <1>1. MediaN!Drv!Init /\ [][MediaN!Drv!Next]_(MediaN!Drv!vars) => []MediaN!Drv!AmioLookupRight
    BY MediaConstants, MediaN!LookupIsRight DEF MediaN!Drv!Spec
  <1> QED
    BY <1>1, UnitStarts, UnitRuns, UnitStays, PTL
    DEF Spec, AmioLookupRight

\* Stopping or destroying a stream is final, for each kind of device
\* (amio_drv.c and its drivers).
THEOREM UnitStopIsFinal == Spec => []AmioStopIsFinal
  <1>1. MediaN!Str!Init /\ [][MediaN!Str!Next]_(MediaN!Str!vars) => []MediaN!Str!AmioStopIsFinal
    BY MediaConstants, MediaN!StopAlways
  <1>2. MediaA!Str!Init /\ [][MediaA!Str!Next]_(MediaA!Str!vars) => []MediaA!Str!AmioStopIsFinal
    BY MediaConstants, MediaA!StopAlways
  <1>3. MediaV!Str!Init /\ [][MediaV!Str!Next]_(MediaV!Str!vars) => []MediaV!Str!AmioStopIsFinal
    BY MediaConstants, MediaV!StopAlways
  <1> QED
    BY <1>1, <1>2, <1>3, UnitStarts, UnitRuns, UnitStays, PTL
    DEF Spec, AmioStopIsFinal

\* The delay buffer never takes more than it holds (delaybuf.c).
THEOREM UnitDelayFits == Spec => []DelayFits
  <1>1. MediaN!Delay!Init /\ [][MediaN!Delay!Next]_(MediaN!Delay!vars) => []MediaN!Delay!DelayFits
    BY MediaConstants, MediaN!DelayBufferFits DEF MediaN!Delay!Spec
  <1>2. MediaA!Delay!Init /\ [][MediaA!Delay!Next]_(MediaA!Delay!vars) => []MediaA!Delay!DelayFits
    BY MediaConstants, MediaA!DelayBufferFits DEF MediaA!Delay!Spec
  <1> QED
    BY <1>1, <1>2, UnitStarts, UnitRuns, UnitStays, PTL
    DEF Spec, DelayFits

\* Ports stand in the slots they remember, lose them only to a port that was
\* destroyed, and are called in order (port.c).
THEOREM UnitPortsInOrder == Spec => []PortTreeSound
  <1>1. MediaN!Bus!Init /\ [][MediaN!Bus!Next]_(MediaN!Bus!vars) => [](MediaN!Bus!SlotsAgree /\ MediaN!Bus!OwnSlots /\ MediaN!Bus!DispatchInOrder)
    BY MediaConstants, MediaN!PortsInOrder DEF MediaN!Bus!Spec
  <1> QED
    BY <1>1, UnitStarts, UnitRuns, UnitStays, PTL
    DEF Spec, PortTreeSound
=============================================================================
