-------------------------------- MODULE Units --------------------------------
(***************************************************************************)
(* The components that share no state with others, side by side.  A        *)
(* behaviour picks one of them, the unit, and runs it in the variables v1  *)
(* .. v9, whose meaning is given by the INSTANCE of the unit.  Most units  *)
(* are instances of the module that proves the component's theorems, whose *)
(* definitions they share; the constants of a unit are the fields of a     *)
(* record that is a constant here.                                         *)
(***************************************************************************)
EXTENDS Integers, Sequences

CONSTANTS
    Running,                                 \* the units of a run
    gki, aki, circular, pool,                \* gki and aki, fifo and ring, memory pools
    rtspV, rtspAV, rtspMsg, rtpEnc, session,        \* RTSP and RTMP
    negan, drivers, null, audio, video,      \* the session server, amio and its three streams
    delay, simple, ports,                    \* the delay buffer with and without WSOLA, the ports
    None

VARIABLES unit, v1, v2, v3, v4, v5, v6, v7, v8, v9

vars == <<unit, v1, v2, v3, v4, v5, v6, v7, v8, v9>>

----------------------------------------------------------------------------
\* Storage.  The circular buffers run in the instance of GKI.
BufG == INSTANCE BufferProofs WITH
    NPools <- gki.NPools, BufSize <- gki.BufSize, BufMax <- gki.BufMax, Mask <- gki.Mask,
    Sizes <- gki.Sizes, Counts <- gki.Counts, Queues <- gki.Queues, Memories <- gki.Memories,
    freeq <- v1, pool_list <- v2, start <- v3, memory <- v7, restricted <- v4,
    unlinked <- v5, queue <- v8,
    Size <- circular.Size, Lengths <- circular.Lengths,
    MaxSize <- circular.MaxSize, WrittenMax <- circular.WrittenMax,
    fifo <- v1, blocks <- v2, refused <- v3,
    ring <- v1, written <- v2, taken <- v3, lost <- v4

BufA == INSTANCE BufferProofs WITH
    NPools <- aki.NPools, BufSize <- aki.BufSize, BufMax <- aki.BufMax, Mask <- aki.Mask,
    Sizes <- aki.Sizes, Counts <- aki.Counts, Queues <- aki.Queues, Memories <- aki.Memories,
    freeq <- v1, pool_list <- v2, start <- v7, memory <- v3, restricted <- v4,
    unlinked <- v5, queue <- v6,
    Size <- circular.Size, Lengths <- circular.Lengths,
    MaxSize <- circular.MaxSize, WrittenMax <- circular.WrittenMax,
    fifo <- v1, blocks <- v2, refused <- v3,
    ring <- v1, written <- v2, taken <- v3, lost <- v4

Pool == INSTANCE PoolCaching WITH
    Pools <- pool.Pools, PoolSize <- pool.PoolSize, BlockSize <- pool.BlockSize,
    pool_sizes <- pool.pool_sizes, START <- pool.START, Inits <- pool.Inits,
    Incs <- pool.Incs, Requests <- pool.Requests, CapacityMax <- pool.CapacityMax,
    BlockMax <- pool.BlockMax,
    pool <- v1, used <- v2, usedSize <- v3, chunks <- v4, asserted <- v5

----------------------------------------------------------------------------
\* RTSP and RTMP.
RtspV == INSTANCE RtspServerProofs WITH
    Clients <- rtspV.Clients, Sessions <- rtspV.Sessions, Tracks <- rtspV.Tracks,
    NbPkts <- rtspV.NbPkts, Ports <- rtspV.Ports, MaxPkts <- rtspV.MaxPkts,
    q <- v1, listed <- v2, cc <- v3, open <- v4, turn <- v5, ub <- v6

RtspAV == INSTANCE RtspServerProofs WITH
    Clients <- rtspAV.Clients, Sessions <- rtspAV.Sessions, Tracks <- rtspAV.Tracks,
    NbPkts <- rtspAV.NbPkts, Ports <- rtspAV.Ports, MaxPkts <- rtspAV.MaxPkts,
    q <- v1, listed <- v2, cc <- v3, open <- v4, turn <- v5, ub <- v6

Msg == INSTANCE RtspMsg WITH
    Scripts <- rtspMsg.Scripts, BufMax <- rtspMsg.BufMax, SdpLen <- rtspMsg.SdpLen,
    LineMax <- rtspMsg.LineMax, HdrMax <- rtspMsg.HdrMax,
    script <- v1, wire <- v2, buf <- v3, conn <- v4, got <- v5, replies <- v6

Rtp == INSTANCE RtpEnc WITH
    Units <- rtpEnc.Units, Caps <- rtpEnc.Caps, NbPkts <- rtpEnc.NbPkts, Codecs <- rtpEnc.Codecs,
    codec <- v1, cap <- v2, units <- v3, frame <- v4, start <- v5, rest <- v6,
    first <- v7, pkts <- v8, pc <- v9

Session == INSTANCE RtmpSessionProofs WITH
    Setups <- session.Setups, Window <- session.Window,
    r <- v1, app <- v2, down <- v3, srv <- v4, got <- v5, made <- v6, link <- v7

----------------------------------------------------------------------------
\* Media.  There is an instance for each of the three streams; the delay buffers,
\* the driver table, the ports and the session server run in the first two.
MediaN == INSTANCE MediaProofs WITH
    Drivers <- drivers.Drivers, Chnls <- drivers.Chnls, ListMax <- drivers.ListMax,
    init <- v1, total <- v2, factory <- v3, drv <- v4, list <- v5, claimed <- v6,
    Spf <- delay.Spf, Channels <- delay.Channels, Ptime <- delay.Ptime,
    MaxDelay <- delay.MaxDelay, RecalcTime <- delay.RecalcTime,
    Wsola <- delay.Wsola, LevelMax <- delay.LevelMax,
    len <- v1, eff <- v2, level <- v3, last_op <- v4, recalc <- v5, max_level <- v6,
    Ports <- ports.Ports, SlotMax <- ports.SlotMax,
    subs <- v1, master <- v2, slot <- v3, todo <- v4, called <- v5, failed <- v6, own <- v7,
    Clients <- negan.Clients, Sessions <- negan.Sessions, MsgLen <- negan.MsgLen,
    BufMax <- negan.BufMax, Sent <- negan.Sent,
    sessions <- v1, clients <- v2, peer <- v3, cc <- v4, walk <- v5, crashed <- v6,
    Driver <- null.Driver, Chans <- null.Chans, Lookup <- null.Lookup,
    ch <- v1, st <- v2, port <- v3, call <- v4, ub <- v5

MediaA == INSTANCE MediaProofs WITH
    Drivers <- drivers.Drivers, Chnls <- drivers.Chnls, ListMax <- drivers.ListMax,
    init <- v1, total <- v2, factory <- v3, drv <- v4, list <- v5, claimed <- v6,
    Spf <- simple.Spf, Channels <- simple.Channels, Ptime <- simple.Ptime,
    MaxDelay <- simple.MaxDelay, RecalcTime <- simple.RecalcTime,
    Wsola <- simple.Wsola, LevelMax <- simple.LevelMax,
    len <- v1, eff <- v2, level <- v3, last_op <- v4, recalc <- v5, max_level <- v6,
    Ports <- ports.Ports, SlotMax <- ports.SlotMax,
    subs <- v1, master <- v2, slot <- v3, todo <- v4, called <- v5, failed <- v6, own <- v7,
    Clients <- negan.Clients, Sessions <- negan.Sessions, MsgLen <- negan.MsgLen,
    BufMax <- negan.BufMax, Sent <- negan.Sent,
    sessions <- v1, clients <- v2, peer <- v3, cc <- v4, walk <- v5, crashed <- v6,
    Driver <- audio.Driver, Chans <- audio.Chans, Lookup <- audio.Lookup,
    ch <- v1, st <- v2, port <- v3, call <- v4, ub <- v5

MediaV == INSTANCE MediaProofs WITH
    Drivers <- drivers.Drivers, Chnls <- drivers.Chnls, ListMax <- drivers.ListMax,
    init <- v1, total <- v2, factory <- v3, drv <- v4, list <- v5, claimed <- v6,
    Spf <- simple.Spf, Channels <- simple.Channels, Ptime <- simple.Ptime,
    MaxDelay <- simple.MaxDelay, RecalcTime <- simple.RecalcTime,
    Wsola <- simple.Wsola, LevelMax <- simple.LevelMax,
    len <- v1, eff <- v2, level <- v3, last_op <- v4, recalc <- v5, max_level <- v6,
    Ports <- ports.Ports, SlotMax <- ports.SlotMax,
    subs <- v1, master <- v2, slot <- v3, todo <- v4, called <- v5, failed <- v6, own <- v7,
    Clients <- negan.Clients, Sessions <- negan.Sessions, MsgLen <- negan.MsgLen,
    BufMax <- negan.BufMax, Sent <- negan.Sent,
    sessions <- v1, clients <- v2, peer <- v3, cc <- v4, walk <- v5, crashed <- v6,
    Driver <- video.Driver, Chans <- video.Chans, Lookup <- video.Lookup,
    ch <- v1, st <- v2, port <- v3, call <- v4, ub <- v5

----------------------------------------------------------------------------
\* The constants of the units are those their theorems are about.
ASSUME BufferConstants ==
    /\ BufG!Gki!GkiConstants /\ BufA!Aki!AkiConstants
    /\ BufG!Fifo!FifoConstants /\ BufG!Ring!RingConstants

ASSUME ServerConstants ==
    /\ RtspV!RtspConstants /\ RtspAV!RtspConstants
    /\ Session!SessionConstants /\ MediaN!Neg!NeganConstants

ASSUME MediaConstants ==
    /\ MediaN!Drv!AmioDrvConstants /\ MediaN!Bus!PortConstants
    /\ MediaN!Str!AmioConstants /\ MediaA!Str!AmioConstants /\ MediaV!Str!AmioConstants
    /\ MediaN!Delay!DelayConstants /\ MediaA!Delay!DelayConstants

----------------------------------------------------------------------------
\* What a unit with three, four, five, six or seven variables leaves alone.
Rest7 == <<v8, v9>>
Rest6 == <<v7, v8, v9>>
Rest5 == <<v6, v7, v8, v9>>
Rest4 == <<v5, v6, v7, v8, v9>>
Rest3 == <<v4, v5, v6, v7, v8, v9>>
Zero7 == v8 = 0 /\ v9 = 0
Zero6 == v7 = 0 /\ Zero7
Zero5 == v6 = 0 /\ Zero6
Zero4 == v5 = 0 /\ Zero5
Zero3 == v4 = 0 /\ Zero4

Init ==
    /\ unit \in Running
    /\ \/ unit = "gki"     /\ BufG!Gki!Init   /\ Zero5
       \/ unit = "aki"     /\ BufA!Aki!Init   /\ Zero6
       \/ unit = "ring"    /\ BufG!Ring!Init  /\ Zero4
       \/ unit = "blocks"  /\ BufG!Fifo!Init  /\ Zero3
       \/ unit = "pool"    /\ Pool!Init      /\ Zero5
       \/ unit = "rtsp v"  /\ RtspV!Init     /\ Zero6
       \/ unit = "rtsp av" /\ RtspAV!Init    /\ Zero6
       \/ unit = "msg"     /\ Msg!Init       /\ Zero6
       \/ unit = "rtp"     /\ Rtp!Init
       \/ unit = "session" /\ Session!Init   /\ Zero7
       \/ unit = "negan"   /\ MediaN!Neg!Init  /\ Zero6
       \/ unit = "driver"  /\ MediaN!Drv!Init  /\ Zero6
       \/ unit = "port"    /\ MediaN!Bus!Init  /\ Zero7
       \/ unit = "null"    /\ MediaN!Str!Init  /\ Zero5
       \/ unit = "audio"   /\ MediaA!Str!Init /\ Zero5
       \/ unit = "video"   /\ MediaV!Str!Init /\ Zero5
       \/ unit = "delay"   /\ MediaN!Delay!Init  /\ Zero6
       \/ unit = "simple"  /\ MediaA!Delay!Init /\ Zero6

MsgReads == unit = "msg" /\ Msg!Reads /\ UNCHANGED <<unit, Rest6>>
AudioCall == unit = "audio" /\ MediaA!Str!CallNext /\ UNCHANGED <<unit, Rest5>>
AudioThread(n) == unit = "audio" /\ MediaA!Str!ThreadNext(n) /\ UNCHANGED <<unit, Rest5>>

Next ==
    \/ unit = "gki"     /\ BufG!Gki!Next   /\ UNCHANGED <<unit, Rest5>>
    \/ unit = "aki"     /\ BufA!Aki!Next   /\ UNCHANGED <<unit, Rest6>>
    \/ unit = "ring"    /\ BufG!Ring!Next  /\ UNCHANGED <<unit, Rest4>>
    \/ unit = "blocks"  /\ BufG!Fifo!Next  /\ UNCHANGED <<unit, Rest3>>
    \/ unit = "pool"    /\ Pool!Next      /\ UNCHANGED <<unit, Rest5>>
    \/ unit = "rtsp v"  /\ RtspV!Next     /\ UNCHANGED <<unit, Rest6>>
    \/ unit = "rtsp av" /\ RtspAV!Next    /\ UNCHANGED <<unit, Rest6>>
    \/ MsgReads
    \/ unit = "msg"     /\ Msg!RecvFails /\ UNCHANGED <<unit, Rest6>>
    \/ unit = "rtp"     /\ Rtp!Next       /\ UNCHANGED unit
    \/ unit = "session" /\ Session!Next   /\ UNCHANGED <<unit, Rest7>>
    \/ unit = "negan"   /\ MediaN!Neg!Next  /\ UNCHANGED <<unit, Rest6>>
    \/ unit = "driver"  /\ MediaN!Drv!Next  /\ UNCHANGED <<unit, Rest6>>
    \/ unit = "port"    /\ MediaN!Bus!Next  /\ UNCHANGED <<unit, Rest7>>
    \/ unit = "null"    /\ MediaN!Str!Next  /\ UNCHANGED <<unit, Rest5>>
    \/ unit = "audio"   /\ MediaA!Str!Next /\ UNCHANGED <<unit, Rest5>>
    \/ unit = "video"   /\ MediaV!Str!Next /\ UNCHANGED <<unit, Rest5>>
    \/ unit = "delay"   /\ MediaN!Delay!Next  /\ UNCHANGED <<unit, Rest6>>
    \/ unit = "simple"  /\ MediaA!Delay!Next /\ UNCHANGED <<unit, Rest6>>

\* The application keeps calling rtsp_do_event, and the calls and the threads of
\* a stream are scheduled (README, Fairness).
Fairness ==
    /\ WF_vars(MsgReads)
    /\ WF_vars(AudioCall)
    /\ WF_vars(AudioThread(1)) /\ WF_vars(AudioThread(2))

Spec == Init /\ [][Next]_vars /\ Fairness

----------------------------------------------------------------------------
\* The counts of every buffer pool agree with its free list and with the
\* buffers that are out or queued, each of which is in one place, and the list
\* of pools names each existing pool once and orders them by buffer size, so
\* that the first fit is the best fit: whatever pools were made and deleted
\* (GKI_getbuf .. GKI_delete_pool, AKI_GetPackage .. AKI_BufferDestroyPool).
BufferPoolsAccounted ==
    /\ unit = "gki" => BufG!Gki!BufferPoolsAccounted
    /\ unit = "aki" => BufA!Aki!BufferPoolsAccounted

\* GKI and AKI implement Pools: no buffer is handed out twice, and no memory
\* goes away while one of its buffers is out.
BufferPoolsImplementPools ==
    /\ unit = "gki" => BufG!Gki!Abstract!Init
    /\ unit = "aki" => BufA!Aki!Abstract!Init
    /\ [][/\ unit = "gki" => [BufG!Gki!Abstract!Next]_(BufG!Gki!Abstract!vars)
          /\ unit = "aki" => [BufA!Aki!Abstract!Next]_(BufA!Aki!Abstract!vars)]_vars

\* The ring holds the newest bytes written, in order, and every byte written was
\* read, is in the ring or was dropped by a write larger than the free space, as
\* RingBuf!Lost counts them: a write that wraps over a reader behind the writer
\* leaves the ring empty (ringbuf.c:93-97).
RingNewest == unit = "ring" => BufG!Ring!RingNewest

\* The blocks FIFO_Alloc handed out do not overlap and stay in the memory, and
\* FIFO_Free accepts the oldest (fifobuf.c).
FifoBlocksKept == unit = "blocks" => BufG!Fifo!FifoBlocksKept

\* The memory that pool allocations return is inside its block and shared with
\* no other allocation, and no assert of pool.c fails.
PoolChunksKept == unit = "pool" => Pool!ChunksKept

\* RTSP: sessions, client connections, RTP connections, stream queues and UDP
\* sockets refer only to each other's live ones, after any requests, deletions
\* and lost peers (rtsp_demo.c).
RtspLinked ==
    /\ unit = "rtsp v"  => RtspV!RtspLinked
    /\ unit = "rtsp av" => RtspAV!RtspLinked

\* RTSP: a playing client sends from a place of the stream queue that the
\* writer has not overtaken, what it sends next is newer than all it sent
\* (rtsp_tx_video, rtsp_tx_audio, streamq_*).
RtspReadsForward ==
    /\ unit = "rtsp v"  => RtspV!RtspReadsForward
    /\ unit = "rtsp av" => RtspAV!RtspReadsForward

\* RTSP: whatever pieces the stream arrives in, the messages taken from it are
\* those that were sent, and each request is answered once with its own CSeq
\* (rtsp_recv_msg, rtsp_msg_parse_from_array).
RtspTakenInOrder == unit = "msg" => Msg!TakenInOrder

\* RTSP: well-formed messages that fit into the buffer are all taken from it in
\* the end, unless the peer closes or the socket fails before that, which
\* deletes the connection with the messages that are still in the buffer
\* (rtsp_recv_msg, rtsp_do_event).
RtspAllTaken == (unit = "msg" /\ Msg!AllFit) => <>(unit = "msg" /\ Msg!Settled)

\* RTP: no packet exceeds its buffer, and a receiver puts together every unit
\* that was sent, in order and complete; base64_encode is base64 (rtp_enc.c,
\* rtsp_tx_video, utils.c).
RtpReassembles == unit = "rtp" => Rtp!Reassembles /\ Rtp!Base64Right

\* negan: a pass of NEG_doEvent goes on with the client after the one it serves
\* and never with one that it freed, a bound client's session is listed, and
\* every byte that was read is in a handled message or in the buffer (negan.c,
\* negan_adapt.c).
NegServesAll == unit = "negan" => MediaN!Neg!WalkInOrder /\ MediaN!Neg!BoundToLive /\ MediaN!Neg!BytesKept

\* amio: the index of AMIO_DevLookup leads to the channel it was asked for if its
\* device was ever activated, else to the device activated first or to none,
\* after any loading, activation and refreshing of drivers (amio_drv.c).
AmioLookupRight == unit = "driver" => MediaN!Drv!AmioLookupRight

\* amio: no frame reaches a port that was stopped or destroyed, no thread works
\* on a freed stream, and audio stays on only for a running thread (amio_drv.c
\* and its drivers).
AmioStopIsFinal ==
    /\ unit = "null"  => MediaN!Str!AmioStopIsFinal
    /\ unit = "audio" => MediaA!Str!AmioStopIsFinal
    /\ unit = "video" => MediaV!Str!AmioStopIsFinal

\* amio: every call that waits for a stream's thread returns, unless undefined
\* behaviour was met before.
AmioCallsReturn ==
    (unit = "audio" /\ [](unit = "audio" => v5 = None))
        => []<>(unit = "audio" => v4 = MediaA!Str!NoCall)

\* The delay buffer's circular buffer never takes more than it holds
\* (delaybuf.c).
DelayFits ==
    /\ unit = "delay"  => MediaN!Delay!DelayFits
    /\ unit = "simple" => MediaA!Delay!DelayFits

\* port: a port stands in the one slot it remembers, of the master it remembers, a
\* port that was connected keeps its slot unless a port that is not connected is
\* destroyed, and a dispatch calls every port that is still connected when it comes
\* to it once, a master before its slots, whatever the handlers destroy (port.c).
PortTreeSound == unit = "port" => MediaN!Bus!SlotsAgree /\ MediaN!Bus!OwnSlots /\ MediaN!Bus!DispatchInOrder

\* RTMP: an answer on its way can be taken only for an answer to the call it
\* answers, also after a reconnection; only playlists share a number, the 0 they
\* are all sent with (HandleInvoke, SendPlaylist, CloseInternal).
RtmpAnswersMatched == unit = "session" => Session!AnswersMatched

\* RTMP: the application is given every media packet once and in order,
\* through pauses and resumptions (RTMP_GetNextMediaPacket).
RtmpMediaOnce == unit = "session" => Session!MediaOnce
=============================================================================
