# TLA+ models of zhangxy

`zhangxy` is a set of C libraries for embedded media servers: a portability
layer (`oslib`), an epoll I/O queue with completion callbacks (`ioqueue`, in the
style of PJLIB), buffer pools (`gki`, `aki`), a media bus with devices and
streams (`port`, `amio`), a small session server (`negan`), an RTSP server
(`rtsp_lib`), and the protocol and file parsers they are used with (`http`,
`rtmp_lib`, `iniparse`).  This directory models them, checks the models with TLC
and proves with TLAPS, for every value of the constants, the safety of the I/O
queue, the timer heap, the buffer managers, the ring and fifo buffers, the RTSP
server, the session server, RTMP's remote calls, the amio streams and driver
tables, the delay buffer and the port tree; and that the timer heap and the buffer
managers implement their abstract specifications.

Contents

1. Inventory of the system
2. Modules and how they correspond to the code
3. Runs: questions, bounds, results
4. Fairness
5. What is proved
6. Disagreements between the code and what it says
7. What is not modelled
8. Plan

## 1. Inventory

| component | state | operations | interacts with | hard part | correct when |
|---|---|---|---|---|---|
| `ioqueue` (`ioqueue_epoll.c`, `ioqueue_common_abs.c`) | a fixed table of keys on three lists (free, active, closing), per key a reference count, a closing flag, lists of pending reads, writes and accepts, a recursive lock; one queue lock; the kernel's epoll set | register, unregister, recv, send, accept, connect, post completion, poll, connect timeout, set concurrency | sockets, callbacks into the application (which call back into the queue), `lock.c` | several pollers, callbacks with and without the key's lock, unregistration at any moment, recycling after a delay | a key is never recycled while in use, no operation is lost or completed twice, no callback after the unregistration, no deadlock |
| timer heap (`oslib/src/timer.c`) | a binary heap of entries, a table from timer ids to slots whose free ids form a list through it | schedule, cancel, poll, growth | callbacks, the clock, `pool.c`, `lock.c` | removal from the middle, growth, callbacks without the lock that schedule and cancel | it behaves like a set of armed entries from which the earliest due one is taken |
| `gki` buffers (`gki_buffer.c`) | pools of fixed-size buffers with counts and free lists, the list of pools by size, an access mask | create and delete pools, get from any or one pool, free, change the mask | one thread (its locks are empty macros) | the fallback to another pool, deleting a pool by its counts | every buffer is in one place; counts match |
| `aki` buffers (`aki_buffer.c`) | the same over the application's memory, and queues of packages | the same, and enqueue, dequeue, remove | one thread (built without `AKI_USE_LOCK`) | a package between pools and queues | the same |
| `port` (`port.c`, a copy in `amio`) | a tree of ports, each with slots for those below | connect, destroy, dispatch | `amio` streams | a handler that fails in the middle of a dispatch | a dispatch reaches every port once, in order |
| `amio` (`amio_drv.c`, `amio_dev.c`, `dev/`) | the tables of drivers and channels; streams with a thread each; what is switched on in the hardware | load, activate, freeze and refresh devices, look up channels, create, start, stop and destroy streams | drivers, `port`, pthreads | order of the life cycle, joins of threads, failures of the hardware | a lookup leads to the right channel; a stopped stream's thread is gone |
| delay buffer (`amio/delay/delaybuf.c`) | a circular buffer of samples, a learned level, the direction of the last call | put, get, reset, level recalculation | two media threads, a lock, WSOLA | level learning, shrinking, sizes that are not whole frames | the buffer never takes more than it holds |
| `negan` (`negan.c`, `negan_adapt.c`) | sessions and clients on lists, receive buffers | new and deleted sessions, the event loop | sockets, the protocol's callbacks | a client freed while the loop walks the list | no client is left out, none is used after it was freed, no byte is lost |
| `rtsp_lib` server (`rtsp_demo.c`, `stream_queue.c`) | sessions, connections, RTP connections with their UDP ports, a packet queue per track | OPTIONS, DESCRIBE, SETUP, PLAY, PAUSE, TEARDOWN, the event loop, transmit, deletion | sockets, the encoder | sessions and clients bound both ways and deleted in any order; readers overtaken by the writer | everything refers to live objects; a reader never goes back or reads an overwritten packet |
| `rtsp_lib` messages and RTP (`rtsp_msg.c`, `rtp_enc.c`, `utils.c`) | a receive buffer | frame, parse, build, answer; find NAL units, fragment | server | pieces of any size, interleaved frames, fragment boundaries | messages arrive as sent, each is answered once; fragments make the unit |
| `oslib` pools (`pool.c`, `pool_caching.c`) | blocks with a current pointer, free lists of pools per size | create, alloc, reset, release | everything that allocates | size classes, alignment, malloc failures | allocations do not overlap and lie in their block |
| `oslib` ring and fifo buffers | read and write positions with mirror bits; start and end of the used region | write, read; alloc, unalloc, free | none | full against empty, wrap-around, overrun | what is read is what was written, in order; blocks do not overlap |
| `oslib` containers (`rbtree.c`, `hash.c`, `dl_list.h`) | trees, tables with iterators, lists | insert, find, erase, iterate | none | relinking on erase, iteration over a changing table | they behave like ordered sets, functions, sequences |
| `http` (`http_parser.c`) | the automaton's state, counters, flags, marks | execute, pause, parse a URL | callbacks | pieces that end anywhere, pauses in callbacks, numbers at their limit | the callbacks do not depend on the pieces and describe the messages |
| `iniparse` (`iniparser.c`, `dictionary.c`) | a dictionary of slots | load, get, set, unset, dump | files | continued lines, quotes, growth, reused slots | what was written is found, also after a dump and a reload |
| `rtmp_lib` (`rtmp.c`) | per channel the last packet in each direction; the call queue, the play and pause state | send and read packets, connect, open, play, pause, seek, close | server, sockets | compressed headers, interleaved messages, answers matched by number, skipping after a resume | messages arrive as sent; answers belong to their calls; media are delivered once |
| `oslib` locks, threads, text, sockets; `rtc`; `amf.c`, handshake and hashes of `rtmp_lib`; `nl` | wrappers, encodings, registers | - | - | - | not modelled, see section 7 |

`PROJECT.json` lists the same components with their status, and under
`hazards` the places, by line, where the modelled ones can go wrong in a way a
test would hardly reach.

## 2. Modules

| module | role |
|---|---|
| `Ioqueue` | the I/O queue: keys, pollers, dispatch, callbacks, API calls, kernel |
| `MCIoqueue` | its instances for TLC |
| `IoqueueProofs` | theorems about `Ioqueue`: reference counts, locks, life cycle of keys |
| `IoqueueOpsProofs` | theorems about `Ioqueue` that need its data too: operations, `count`, `EPOLLOUT`, deadlock |
| `Timers` | what a timer heap promises |
| `TimerHeap` | the timer heap as it is implemented; `ImplementsTimers` is the refinement |
| `MCTimerHeap` | its instances for TLC |
| `TimerHeapProofs` | theorems about `TimerHeap`, the refinement of `Timers` among them |
| `Pools` | what a set of buffer pools promises |
| `GkiBuffer`, `AkiBuffer` | the two buffer managers; both implement `Pools` |
| `RingBuf`, `FifoBuf`, `PoolCaching` | the ring, the fifo allocator and the memory pools of `oslib` |
| `BufferProofs` | theorems about the managers, the refinement of `Pools` among them, the ring and the fifo |
| `RbTree`, `HashTable` | the containers of `oslib` |
| `RtspServer`, `RtspMsg`, `RtpEnc` | the RTSP server with its stream queues, RTSP messages on a byte stream, RTP packetisation |
| `RtspServerProofs` | theorems about `RtspServer` |
| `Negan` | the session server |
| `AmioDrv`, `AmioStream`, `DelayBuf`, `Port` | amio's driver tables, the streams and threads of a device, the delay buffer, the tree of ports |
| `MediaProofs` | theorems about these four and `Negan` |
| `HttpParser`, `HttpWords` | the HTTP parser, and the words it knows |
| `IniParser` | ini files and their dictionary |
| `RtmpChunk`, `RtmpSession` | RTMP messages as chunks; an RTMP client above them |
| `RtmpSessionProofs` | theorems about `RtmpSession` |
| `Units` | the buffers, RTSP and RTMP, the session server and the media chain side by side, with the properties the runs check |
| `MCUnits` | the small instances of the units |
| `UnitProofs` | those properties as theorems about `Units` |
| `MCHttpMessages`, `MCLibraries` | HTTP streams with the callbacks they should cause; the parsers and the containers on small instances |

The components of `Units` and `MCLibraries` do not call each other.  Such a
module has a variable `unit`, chosen by `Init`, and variables `v1`, `v2` ... that
carry the state of the chosen component: the `INSTANCE` of each component says
which of its variables they stand for.  A run is therefore the disjoint union of
the components' state spaces, and each property is guarded by the unit it is
about.  In `Units` the constants of a component are the fields of a record that is
a constant itself (`gki`, `rtspV`, `ports` ...), and the instances are those of
the modules with the components' theorems, where there is one: `BufG!Gki` is
`GkiBuffer` as `BufferProofs` instantiates it, `MediaA!Str` the `AmioStream` of
the audio device.  `Units` therefore has the theorems at hand, and `UnitProofs`
derives from them, for every value of the records, what `MCUnits` checks for one.

### Ioqueue

State.  Per key: `list` (free, active, closing, or *lost* after a failed
`EPOLL_CTL_ADD`), `ref_count`, `closing`, `fd` (sockets are numbered by
registration, so that a recycled key can be told from the old one), `pending`
(the read, write and accept lists), `connecting`, `allow_concurrent`, the lock's
owner and depth; `free_due` and `connect_due` say that a stored time has come.
For the queue: `qlock`, `count`.  For the kernel: `polled`, `want_out`, `rx`,
`conn`.  Per thread: a program counter `pc`, the events `epoll_wait` returned
(`evs`), the `queue[]` of `pj_ioqueue_poll`, the completion being delivered
(`cb`), the API call in progress (`call`), and whether `errno` holds `EAGAIN`.
Three history variables record outstanding operations, a lost datagram and
assertions of the source that evaluated to false (an assertion is a record, not
a guard: the program goes on as with `NDEBUG`).

Granularity.  A critical section that takes one lock, neither blocks nor calls
back, is one step guarded by the lock being free.  Sections that take a second
lock or call the application (the unregistration, the walk of
`ioqueue_connect_timeout`, a callback under the key's lock, the collecting loop)
keep the lock in the state and are split.  System calls made outside any lock
(`recv`, `send`, `accept`, `connect` of the API calls) are steps of their own:
what they found may be stale when the operation is queued.

Correspondence.

| code | actions |
|---|---|
| `pj_ioqueue_create` | `Init` |
| `pj_ioqueue_register_sock2`, `ioqueue_init_key` | `Register`, `InitKey`, `CountAfterAdd` |
| `increment_counter`, `decrement_counter`, `scan_closing_keys` | `IncrementCounter`, `Decrement`, `Scanned`, `ScanFails` |
| `pj_ioqueue_unregister` | `UnregLock`, `UnregDel`, `UnregClose`, `UnregDecrement`, `UnregUnlock` |
| `pj_ioqueue_poll` | `PollWait`, `PollLock`, `Collect`, `PollUnlock`, dispatch, `PollDecrement`, `PollReturn`, `PollScan` |
| `ioqueue_dispatch_read_event`, `..._write_event`, `..._exception_event` | `DispatchRead`, `DispatchWrite`, `DispatchConnect`, `DispatchNothing` and the callback's `CbCheck`, `CbEnter`, `CbReturn`, `CbEnd` |
| `ioqueue_connect_timeout` | `ConnectTimeoutBegin`, `ConnectTimeoutKey`, `ConnectTimeoutEnd` |
| `pj_ioqueue_recv(from)`, `send(to)`, `accept`, `connect` | `RecvTry`, `SendTry`, `AcceptTry`, `QueueOp`; `ConnectTry`, `ConnectQueue` |
| `pj_ioqueue_post_completion`, `set_concurrency` | `PostCompletion`, `SetConcurrency` |
| kernel and clock (external) | `Arrive`, `ConnectResolves`, `Ready`, `FreeDelayPasses`, `ConnectDelayPasses` |

What is assumed of the application (`Held`, `BeginCall`): it uses a key only
from its registration until the free delay after its unregistration is over,
does not submit an `op_key` again while it is outstanding, and posts a
completion only to a key it has not unregistered.  Its callbacks may submit
operations on, and unregister, the key they are called for.

What is assumed of time: `PJ_IOQUEUE_KEY_FREE_DELAY` (500 ms) outlasts the API
calls, the callbacks and the `epoll_wait` results that met the key before it was
unregistered.  This is the purpose of the delay, and it is a guard of
`FreeDelayPasses`.  It does *not* cover the keys a poller has collected into
`queue[]`: these are protected by their reference count, and that they are is
what `ActiveIffReferenced` and `HeldKeyKeepsSocket` say.

Data left out: bytes (a write is sent or fails as a whole), addresses, flags,
user data, group locks (compiled out).

### TimerHeap and Timers

`h` is the `T_TimerHeap` record together with the two fields it keeps in the
entries (`id`, `value`): `heap` and `ids` are the arrays, `free` the head of the
list of free ids, which runs *through* `ids` as negated numbers, `cur` the
number of entries.  `CopyNode`, `PopFreelist`, `PushFreelist`, `ReheapDown`,
`ReheapUp`, `RemoveNode`, `GrowHeap`, `InsertNode`, `ScheduleEntry` and
`Cancelled` are the static functions of the same names as operators on this
record.  The lock is held everywhere except around a callback and before the
test of `TIMER_HeapSchedule`, so the actions are `Schedule` (the test and the
expiry), `ScheduleInsert` (the rest), `Cancel`, `Poll` (up to the first
callback), `CallbackReturns` (to the next one, or to the end of the poll) and
`Tick`.

`Timers` has a function `due` from entries to times, a clock and the entries
whose callbacks run; its `Fire` demands that the entry is armed, due, and not
due later than another.  The refinement mapping reads `due` off the entries that
are in the heap.

### GkiBuffer, AkiBuffer and Pools

A buffer is the pool and the offset of its header; `freeq` holds per pool the
sizes, the counts (`cur_cnt`, `max_cnt`) and the free list, `pool_list` the
order in which `GKI_getbuf` and `AKI_GetPackage` search.  Each public call is
one action, error returns included.  The queue operations of `aki` move packages
between `unlinked` and `queue`.  `Abstract` maps to `Pools` the buffers whose
headers are laid out in the memory of the pools that exist (`Laid`, a function
of the sizes and counts, not of the free lists) as those that exist, and those
that are with the application or in a queue as those that are out.

### RingBuf, FifoBuf, RbTree, HashTable, PoolCaching

Each is a record that the operators named like the C functions map to a new
record; the actions apply them and keep, next to it, what the user of the
component knows: the bytes written, taken and lost (`Lost` says how many a write
that is larger than the free space drops), the blocks handed out, the keys
inserted, the values set and the entries an iteration has met, the chunks
allocated.  The tree keeps every link, the sentinel's parent and colour
included, because `delete_fixup` writes them.  A deleted hash entry keeps its
`next`, because an iterator that stands on it follows it.

### RtspServer, RtspMsg, RtpEnc

One thread serves everything.  The turn of a connection in `rtsp_do_event` is
split into `TurnBegins`, the handlers of the requests in its buffer, and
`TurnEnds`, because the turn keeps the pointers it read at its beginning.
`rtsp_tx_video` and `rtsp_tx_audio` allocate slots of the ring of packets, drop
the oldest ones under slow readers and then send to every playing client, each
of which may block.  `ub` records the use of a freed RTP connection and ends the
behaviour.  `RtspMsg` models the byte stream in front of it: framing, parsing,
the answers, and the receive buffer with its limit.  The peer may close, or the
socket fail, between any two steps (`RecvFails`); the connection is then deleted
with what its buffer holds, complete messages included.  `RtpEnc` cuts frames into
NAL units and these into packets, byte by byte, and drops the ADTS header of audio.

### Negan

A pass of `NEG_doEvent` is `Accept` or `NoAccept`, and then a walk over the
clients with the two pointers `cc1` (served) and `cc` (next) of the C loop.
Peers write and close between any two steps; a client is dropped when its peer
has closed, the socket fails or a frame is invalid (`RecvClosed`).

### AmioDrv, AmioStream, DelayBuf, Port

`AmioStream` has the application's thread, which is in one call at a time
(`call`: which one, for which channel, how far), and per stream a thread that
runs between creation and `m_bQuit`.  `Driver` selects which of the three
drivers' code the stream operations are.  Reading a freed stream and joining no
thread are recorded in `ub`, after which nothing is claimed.  A refresh whose
thread cannot be created goes on without it, as the code does.  The drivers do
not test that a stream to be started is not running; `StreamStart` leaves that to
the caller.  `DelayBuf` keeps lengths instead of samples; a put may fail after
`update` has shrunk the buffer, when the frame cannot be saved for WSOLA.
`AmioDrv!DevLookup` answers for every device whose names are known, listed or not.

`Port` makes `PORT_Dispatch`'s recursion a stack; `Below` is the set of ports
below one, in a tree of any height.  `PORT_Destroy` clears the slot the port
remembers whoever stands in it, also for a port that was refused for want of a
slot or was destroyed before.  The history `own` keeps the ports whose
connection succeeded and whose place nobody took that way.  Handlers may destroy
ports while the dispatch goes on.  Ports are connected while no dispatch runs (the
comment beside `T_PortHandle` asks for that), when they stand nowhere and not
below themselves; this is the caller's part, and without the last `PORT_Dispatch`
would not end.

### HttpParser, IniParser

Characters are kept, words are shortened: a method or a header name has the two
to four letters that tell it from the others, so that a piece of input can still
end within it.  `Execute` applies one step of the automaton per character, with
the `goto reexecute` of the code; callbacks are a log in which adjacent pieces
of the same element are joined.  `Feed`, `Unpause` and `Eof` are the application's
calls, with pieces of any length and pauses in any callback.  `IniParser` keeps
the slots of the dictionary and its count, and the text of lines.

### RtmpChunk, RtmpSession

`RtmpChunk` has the two ends of a chunk stream: what each keeps per channel
(`m_vecChannelsOut`, `m_vecChannelsIn`, `m_channelTimestamp`), the chunk sizes,
and the wire, on which the chunks of different channels may be interleaved.
Timestamps are counted modulo `TsMod` and the 24-bit limit is `Ts24`, so that
extended timestamps and the wrap happen.  `RtmpSession` has the client's `RTMP`
record and a server that answers late, several times or not at all, sends media
in any amounts and may close the connection.  Calls are numbered by
`m_numInvokes`, except playlists, which are all sent and queued under number 0.

## 3. Runs

| run | instance | question |
|---|---|---|
| `ioqueue_life` | 2 pollers, 1 application thread, 1 key, 2 sockets over time, callbacks under the lock, posted completions, `EPOLL_CTL_ADD` may fail | does a key survive register, read, dispatch, unregister (also by its own callback) and recycling? |
| `ioqueue_io` | 1 poller, 1 application thread, 1 key, 2 operations, concurrency switched at run time, ADD, DEL and `send` may fail | is a pending write always polled, and every operation completed once? |
| `ioqueue_connect` | 2 pollers, 1 application thread, 1 key, connects that succeed, fail, time out; fairness | does every unregistration return and every closed key leave the active list, without deadlock? |
| `timer_heap` | 6 entries, 2 expiry values, table growing twice | heap order, ids |
| `timer_threads` | 3 threads, 2 entries, 4 instants, callbacks that re-arm; fairness | refinement of `Timers` under interleaving; every due entry leaves |
| `storage` | 3 gki and 2 aki pools, a ring of 4, a fifo of 10, 2 memory pools | is memory handed out once and never lost, and is what was written read? |
| `streaming` | 2 clients and a session with 1 track, 1 client with 2 tracks; 7 scripts of messages; frames of 1 and 2 units in 4 codecs; 6 kinds of RTMP session; 2 negan clients; 2 drivers; 2 streams of each of 3 kinds of device; 2 delay buffers; 4 ports; fairness | is nothing dangling used, nothing sent lost or reordered, does an answer go to its call, and is a stopped stream stopped? |
| `libraries` | HTTP streams cut anywhere with a pause; 6 ini files with changes; 3 RTMP messages on 2 channels; 5 tree keys; 4 hash keys | do parsers report what was sent, and do the containers contain what was put in? |
| `*_bug_*` | see section 6 | |

What the properties say:

- `RefCountExact`: `ref_count` is one for the registration plus one per poller
  that has the key in its `queue[]`.
- `ActiveIffReferenced`, `HeldKeyKeepsSocket`: a key leaves the active list when
  and only when nobody refers to it, and the socket behind a collected key does
  not change.
- `LifecycleAsserts`: the source's assertions on counts and closing flags hold.
- `CountExact`: `ioqueue->count` is the number of sockets in the epoll set, also
  half way through an unregistration.
- `NoLateLockedCallback`: without concurrency, no callback starts on a key that
  is closing.
- `NoDeadlock`: no two threads wait for each other's locks (there are only two
  levels of locks, so longer cycles go through the queue's one lock).
- `OneCustodian`: every outstanding operation is in exactly one pending list or
  in the hands of exactly one thread.
- `PendingWriteIsPolled`: a key with a pending write has `EPOLLOUT` armed.
- `UnregisterReturns`, `ClosedKeyReleased`: liveness.
- `IdsSound`, `HeapOrdered`, `ImplementsTimers`, `DueEntryLeaves`: for the heap,
  as named.
- `BufferPoolsAccounted`: counts, free lists and the places of buffers agree,
  and the first fit is the best fit.  `BufferPoolsImplementPools`: both managers
  implement `Pools`.
- `RingNewest`: the ring holds the newest bytes, what was read came in order, and
  every byte was read, is in the ring, or was dropped by a write larger than the
  free space: the oldest bytes, or all of them when the write wraps and overruns a
  reader behind the writer.  `FifoBlocksKept`: blocks do not overlap, the oldest
  can be freed.  `RbOrdered`: walks visit the inserted keys in order, back links
  right.  `HashSound`: the table is a map, and a walk meets every entry that
  stays exactly once.  `PoolChunksKept`: chunks lie in their block and apart.
- `RtspLinked`: no reference to a freed session, client, RTP connection, queue
  or port.  `RtspReadsForward`: a playing client's position was not overtaken.
  `RtspTakenInOrder`: messages are taken as sent and answered once.
  `RtspAllTaken`: if all fit into the receive buffer, all are taken in the end,
  unless the connection is lost.  `RtpReassembles`: packets fit and make the units.
- `NegServesAll`: the walk goes on with the right client, a bound client's
  session exists, and no byte is lost.
- `AmioLookupRight`: a listed device's index leads to that device and channel; one
  that is known but not listed leads to the same channel of the device listed
  first, or to none.  `AmioStopIsFinal`: after a stop, a destruction or a freeze the
  thread is gone and nothing is switched on.  `AmioCallsReturn`: these calls
  return.  `DelayFits`: the buffer never holds more than its capacity, also after a
  put that gave up half way.  `PortTreeSound`: a port in a slot remembers it, a
  connected port keeps its slot until it is destroyed or a port that is not
  connected is (`OwnSlots`), and a dispatch calls every port once, in order.
- `HttpCutsInvisible`: neither the cuts nor a pause change callbacks, error or
  final state.  `HttpMessagesReported`: well-formed messages are reported as
  what they were put together from, and a length above the limit is refused.  `IniReadsBack`: the getters find what the
  author and the program wrote, and a dump reloads.
- `RtmpDelivered`: messages arrive whole with their absolute timestamps.
  `RtmpAnswersMatched`: an answer fits only a call of the kind it
  answers, and no two calls but playlists wait under one number.  `RtmpMediaOnce`: packets
  are delivered once, in order.

Bounds.  Two pollers are enough for two simultaneous dispatches of one key, the
race every reference count is about; a third thread unregisters meanwhile.  Two
sockets over time (`MaxFd = 2`) let a key be recycled once and reused.  One
datagram (`MaxRx = 1`) and two pollers give the case of a wake-up without data.
The operations are symmetric in `ioqueue_io`, and so are the keys; that run
checks invariants only, for which symmetry is sound.  In `timer_heap` six
entries are the smallest heap in which `remove_node` moves an entry *up* (the
last entry must be in another subtree than the removed one); two expiry values
suffice since only comparisons matter, and the clock stands still at 0 so that
entries of delay 0 are due and those of delay 1 are not.

In `storage` one static gki pool is restricted and one size fits two pools, so
that the fallback and the mask matter; pools are created in both size orders.
The ring of 4 bytes is written 14, three times around with every mix of reads.
A fifo of 10 units takes blocks of 2 to 4 with their headers: gaps at the end,
the wrap and an exact fill happen.
In `streaming` a queue of a few packets is overrun by two frames under a reader
that is blocked; scripts hold more than one message so that one piece can end in
the middle of the next; unit lengths are one less than, equal to and more than a
packet; negan's buffer holds one and a half messages; the delay buffers have
maxima that are no whole number of frames, with and without WSOLA; an RTMP
session plays nine packets in windows of four, which is two pauses.  In
`libraries` numbers are capped at 63 instead of 2^64 - 1, so that lengths at, and
one above, the limit fit into two digits; the dictionary starts with two slots
and doubles; timestamps run modulo 16 with the extended form from 7 on, chunk
sizes are 1, 2 and 3, and three messages suffice for a header compressed against
a compressed one.  Five tree keys reach every case of both fix-ups.  The hash
keys contain two that are equal without case and two that share a row.

`CHECK_DEADLOCK` is off for the timers and the three combined runs: with every
bound used up (entries scheduled, bytes written, script read), or after an
undefined step, nothing is left to do.  It is on in all passing runs of the
queue.

## 4. Fairness

`Ioqueue`: strong fairness for a thread's steps in `pj_ioqueue_poll` and in API
calls, because they wait for mutexes and no mutex starves a thread for ever
under the pthread implementations the code is built for; weak fairness for
callbacks, which the application must let return; weak fairness for the passing
of the free delay.  Nothing is assumed of arriving data, of connections being
answered, or of the application making another call.

`TimerHeap`: weak fairness for finishing a schedule call, for callbacks, for
polling, which is the caller's loop, and for time.

`Units`: weak fairness for reading the stream of RTSP messages, which the
server's loop around `rtsp_do_event` does as long as the connection is readable,
and for the steps of a call and of each thread of the hisiv audio device, which
the scheduler runs (`THREAD_Join` waits for a thread whose loop tests `m_bQuit`
after every frame).  Nothing is assumed of the application making calls.

## 5. What is proved

### The life cycle of keys

`IoqueueProofs` proves, for every finite set of threads and keys, every set of
operations, every assignment of calls to threads, both concurrency defaults and
every set of failing system calls:

| theorem | statement |
|---|---|
| `Invariance` | `Spec => []IInv` |
| `TypeCorrect` | `Spec => []TypeOK` |
| `RefCountIsExact` | `Spec => []RefCountExact` |
| `NoEarlyRecycling` | `Spec => []ActiveIffReferenced` |
| `AssertionsHold` | `Spec => []LifecycleAsserts` |
| `LockedCallbacksInTime` | `Spec => []NoLateLockedCallback` |
| `SocketsAreStable` | `Spec => HeldKeyKeepsSocket`, an action property |

Assumptions: the named `ASSUME`s of `Ioqueue` (finitely many threads and keys,
`None` is none of them, calls and faults come from the listed sets, bounds are
natural numbers), which TLC evaluates on every run.

The argument.  `TypeOK` is not inductive: that `ref_count` and the lock depth do
not go below zero depends on who holds what.  `IInv` strengthens it by

- `FrameInv`: which completion and call records a thread has set up at each
  point of its program;
- `LockInv`: the depth of a key's recursive lock is what its owner's program
  point says (one for a callback under the lock, one for an unregistration), so
  that at most one thread at a time is inside an unregistration of a key;
- `QueueLockInv`: the holder of `ioqueue->lock`, and the connect-timeout walk;
- `QueueInv`: `queue[]` is in use from collecting to the last
  `decrement_counter`, and the entry being dispatched is still in it;
- `ListInv`: the lists agree with the flags, and nobody is busy with a key whose
  free delay is over (this is where the timing assumption enters);
- `RefInv`: the two reference-count properties.

Most actions change the life cycle of a key little and data a lot.  The proof
therefore first projects every action onto the *core* variables (`CoreStep`),
where the reads, writes, accepts and connects collapse into a few shapes, and
then has one lemma per part of the invariant with one case per core action.

### Operations, counts and locks of the queue

`IoqueueOpsProofs` builds on `Invariance`.  Its theorems have hypotheses on the
instance, because without them the code does not do what they say.

| theorem | statement | hypothesis, and what happens without it |
|---|---|---|
| `CountIsExact` | `CountExact`, and the assertion `count > 0` holds | `EPOLL_CTL_DEL` does not fail: `pj_ioqueue_unregister` decrements `count` before the call (`ioqueue_epoll.c` 273) and returns -1 without restoring it when the call fails |
| `PendingWritesArePolled` | `PendingWriteIsPolled` | the application does not connect: a connect that ends takes `EPOLLOUT` away whether or not a write is pending |
| `DeadlockFreedom` | `NoDeadlock`, and every chain of waiting threads ends at one that can go on (`LockChainsEnd`) | callbacks call nothing, or always run under their key's lock and do not unregister.  `ioqueue_connect_timeout` calls back while it holds `ioqueue->lock`, which is not recursive, so an unregistration there waits for itself, and a callback there that waits for the lock of its key can wait for a thread that holds that lock and waits for `ioqueue->lock` |
| `OperationsHaveOneCustodian` | `OneCustodian` | no `pj_ioqueue_post_completion`: a post that was waiting for the lock of a key searches the lists of the key after the unregistration too, finds there an operation the application has meanwhile submitted for another registration, and completes it a second time (15 steps, one key) |

The instances of the runs that check these properties satisfy the hypotheses.

Each invariant is strengthened.  `CountExact` needs to know which sockets are
polled half way through register and unregister (`PolledInv`).  Deadlock freedom
needs who holds `ioqueue->lock` (`HolderInv`), that a call made by a callback is
about the callback's key (`NestedInv`) and that callbacks that make calls hold
their key's lock (`CbLockInv`).  `OneCustodian` is proved place by place
(`Custody`: two places of the same operation are the same place, and whatever has
a place is outstanding), with which calls carry an operation at all (`CallInv`) and that a key that was
never registered has nothing pending (`FreshInv`).

### The other components

| theorem | module | statement | hypothesis |
|---|---|---|---|
| `GkiPoolsAccounted` | `BufferProofs` | `GkiBuffer!BufferPoolsAccounted` | `GkiConstants` |
| `AkiPoolsAccounted` | `BufferProofs` | `AkiBuffer!BufferPoolsAccounted` | `AkiConstants` |
| `GkiImplementsPools`, `AkiImplementsPools` | `BufferProofs` | both specifications imply `Pools!Spec` under the refinement mapping | the same |
| `FifoBlocksStay` | `BufferProofs` | `FifoBlocksKept` | `FifoConstants` |
| `RingReadsNewest` | `BufferProofs` | `RingNewest` | `RingConstants` |
| `TimerIdsSound`, `TimerHeapOrdered` | `TimerHeapProofs` | `IdsSound`, `HeapOrdered` | `~Shared` |
| `TimerHeapImplementsTimers` | `TimerHeapProofs` | `ImplementsTimers`: the specification implies `Timers!Spec` under the refinement mapping | `~Shared` |
| `ServerLinked`, `ServerReads` | `RtspServerProofs` | `RtspLinked`, `RtspReadsForward` | `RtspConstants` |
| `AnswersAreMatched` | `RtmpSessionProofs` | `AnswersMatched` | `SessionConstants` |
| `StopIsFinal` | `MediaProofs` | `AmioStopIsFinal` | `AmioConstants` |
| `LookupIsRight` | `MediaProofs` | `AmioLookupRight` | `AmioDrvConstants` |
| `DelayBufferFits` | `MediaProofs` | `DelayFits`, and the length is a natural number | `DelayConstants` |
| `PortsInOrder` | `MediaProofs` | `SlotsAgree`, `OwnSlots` and `DispatchInOrder` | `PortConstants` |
| `PassServesAll` | `MediaProofs` | `WalkInOrder`, `BoundToLive` and `BytesKept` | `NeganConstants` |

The hypotheses say what kind of values the constants are (sizes are natural
numbers, `None` is no session, channels are numbered from 1) and are definitions
of the modules; `Units` assumes them of its records, so TLC evaluates them.
`~Shared` excludes two threads that schedule the same entry, for which the code
has no theorem to offer: `timer_bug_twice` is what happens then.  Two more say
something of the code.  `GkiConstants` and `AkiConstants` exclude the
few sizes next to the largest one for which the 16-bit `act_size` with its header
wraps to 0, when every buffer of a pool would have the same address.
`DelayConstants` has room for one frame (`MaxDelay >= Ptime`), which
`delaybuf.c` 66-67 makes true, a frame of at least one millisecond, without
which line 69 would divide by zero, at least one channel and a recalculation time
that is not 0.  `PortConstants` has at least one slot.

### The units

`UnitProofs` states about `Units` what the runs `storage` and `streaming` check
of it, for every value of its records that satisfies the assumptions of the
components, and every set `Running`:

| theorem | property of `Units` | from |
|---|---|---|
| `UnitPoolsAccounted`, `UnitImplementsPools` | `BufferPoolsAccounted`, `BufferPoolsImplementPools` | `GkiPoolsAccounted`, `AkiPoolsAccounted`; the steps `GkiStep`, `AkiStep` |
| `UnitRingNewest`, `UnitBlocksKept` | `RingNewest`, `FifoBlocksKept` | `RingReadsNewest`, `FifoBlocksStay` |
| `UnitServerLinked`, `UnitServerReads` | `RtspLinked`, `RtspReadsForward` | `ServerLinked`, `ServerReads`, for both instances |
| `UnitAnswersMatched` | `RtmpAnswersMatched` | `AnswersAreMatched` |
| `UnitServesAll` | `NegServesAll` | `PassServesAll` without its fairness |
| `UnitLookupRight`, `UnitDelayFits`, `UnitPortsInOrder` | `AmioLookupRight`, `DelayFits`, `PortTreeSound` | `LookupIsRight`, `DelayBufferFits`, `PortsInOrder` |
| `UnitStopIsFinal` | `AmioStopIsFinal` | `StopIsFinal` without its fairness, for the three kinds of device |

The argument is the same for each: a behaviour of `Units` keeps its `unit`
(`UnitStays`), starts as the unit's component does (`UnitStarts`) and takes only
its steps (`UnitRuns`), so either it is a behaviour of the component, or the
property's guard is false for ever.

The inductive invariants:

- `GkiInv`, `AkiInv`: `PoolsOk` says of every pool that its free list holds
  distinct headers laid out in its memory, that those not in it are exactly the
  ones that are out, and that `cur_cnt` and `total` count them; and that the
  list of pools has each created pool once, by size.  The two managers share the
  lemmas about taking a buffer, giving it back, laying out and removing a pool;
  for `aki` a package is out when it is unlinked or at one place of one queue
  (`QueuesOk`).  A deletion is allowed by `cur_cnt = 0` alone, so the refinement
  (no pool goes while a buffer of it is out) rests on the counts being exact.
- `FifoInv`: the blocks form two runs, one that starts at the read position and
  one that starts at 0 and ends at the write position, `Shape`; `FifoBlocksKept`
  alone does not say where the next block may go.  `m_IsFull` tells the full
  buffer from the empty one.
- `RingInv`: from positions and mirrors to the number `Filled` of bytes in the
  ring; these are the newest ones, in place (`Content`), all that was taken is
  older (`Order`), and with what was lost they make up all that was written.
- `ServerInv`: `LinkInv` (a connection's session is listed, and its RTP
  connections have a queue there), `PortsInv` (every open pair of ports belongs
  to one RTP connection), `QueueInv` (packets are numbered without gaps),
  `ReaderInv` (where a reader can be, also one that is not playing, since it may
  play again) and `TurnInv`, which ties the pointers the turn has kept to the
  connection.
- `StopInv`: what the call in progress has done so far (`CallInv`), which states
  of a channel, a stream and a thread occur together (`ChanInv`, `AgainInv`) and
  what is switched on in them (`OnInv`), for all three drivers.
- `DrvInv`: every listed channel of a driver lies in the run that starts at its
  `m_u32StartIdx` (`Placed`), a driver that is not listed still has start index and
  count 0, and the driver at the head of the list starts at 0; the last two are what
  a lookup of an unlisted device meets.
- `DelayInv`: `DelayFits`, and that the learned count `eff_cnt` is at least half a
  frame, so that a buffer which `update` shrinks holds more than it erases, that the
  levels are natural numbers and that the time to the next recalculation is positive.
- `PortInv`: the properties themselves are not inductive, because what a dispatch
  still has to call (`todo`) is only right if the tree below the ports it names
  does not change under it and has no cycle.  `TreeInv` says that a connected
  port stands in the one slot it remembers; `OrderInv` that `called` and `todo`
  together are the walk of the tree from the dispatched port, each port once, and
  which ports it still misses; and there is a ranking of the ports in which a
  master comes before the ports below it, and the dispatched port before all it
  reaches, so that nothing is below itself.  The last part of `PreOrder`, that the
  ports to come stand in the reverse order of their masters, is for a port that
  is destroyed before the dispatch comes to it: the one behind it takes its place.
- `NegInv`: the client list has no client twice, the two pointers of a pass stand
  on list members that follow each other (`GetNext`), a listed client's session
  is listed, and the bytes it was sent are counted (`Counted`).  That deleting
  clients keeps all of this rests on what `Unlinked` leaves of a list
  (`UnlinkedIs`): the clients that stay, each once, in their order.
- `TimerInv`: the slots of `heap` and the numbers of `ids` point at each other
  (`Full`), the free ids form one chain, `Chain`, that meets each of them once and
  ends at the size of the table, and the heap is `Ordered`; the lemmas about
  `ReheapUp` and `ReheapDown` say what of this holds while one slot is being moved.
  An entry that a thread is about to insert has no id yet, and no other thread
  is about to insert it (`Armings`): this is where threads that share an entry
  break it.
- `SessionInv`: the answers that are under way (`down`, the packets the server
  still sends) and the calls that are waiting carry transaction numbers from 0 to
  `m_numInvokes`, a call has number 0 exactly if it is a playlist (`Zero`), no two
  waiting calls have the same other number, and a request on its way up
  (`AsksFor`) or an answer on its way down (`Matched`) carries the name of the
  waiting call that has its number; a connection that closes empties both
  sides, and only then are the numbers counted from 0 again.  A handler is a
  composition of operations on the record `r`, so the proof has one lemma per
  operation (it keeps a record `Sound`, and `Keeps` the calls that others wait
  for) and composes them as the code does.

Recursion is written with recursive functions and proved about by induction over
the natural numbers in the form of the least counterexample: the set of numbers
that refute a claim, were it not empty, would have a least element
(`WFMin` of the library), which the claim for smaller numbers excludes.
The library's induction theorems themselves take an operator as a parameter and
cannot be used, but a set can be named; the loops of `ReheapUp` and `ReheapDown`,
`SubsUpTo` and `Unlinked` are treated so, and so is every choice of a smallest
element: the entry that is due first, a mixer's first free slot, the
first free pair of UDP ports, the first waiting call that an answer matches.

### Only model-checked

- Liveness and everything under fairness: `UnregisterReturns`,
  `ClosedKeyReleased`, `DueEntryLeaves`, `RtspAllTaken`, `AmioCallsReturn`.
- `RbTree`, `HashTable` and `HttpParser`, whose operators are `RECURSIVE`, which
  the prover does not accept; they walk structures (trees with rotations, rows
  under an iterator, an automaton of 60 states) that a theorem would have to
  describe from scratch.
- `PoolCaching` (the sums over blocks), `IniParser` (text), `RtspMsg` and `RtpEnc`
  (what parsing or reassembling a whole input gives), `RtmpChunk` (what a chain of
  compressed headers means): each property compares the result of a fold over a
  whole input with that input, an induction over data for every one of the
  operators.
- `RtmpSession!MediaOnce`, which depends on how the server (external) answers
  pauses with positions.

## 6. Disagreements between the code and what it says

Each of these is a run that is expected to find a violation; `findings` in
`PROJECT.json` quotes the lines.

- `ioqueue_bug_free_list`: `count` drops at unregistration but the key returns to
  the free list 500 ms later; a registration in between trips the assertion that
  the free list is not empty.
- `ioqueue_bug_late_callback`: with concurrency (the default) a callback may
  start after the unregistration has returned, which the test
  `unregister_test` excludes.
- `timer_bug_twice`: the test that an entry is not running is made outside the
  lock; two threads can insert it twice.
- `rtmp_bug_repeat`: a packet that repeats the timestamp of its channel is sent
  with the minimum header, and the reader adds the channel's last delta again.

The modules state more properties that the code does not have, without a run:

- `Ioqueue`: `ReadFailureReported` (a failed `recv` in the dispatcher is
  reported as a full buffer), `NoDatagramDropped` (`pj_ioqueue_recv` looks at a
  stale `errno` after a successful `recv`, and drops what it read),
  `ClosedKeyRecycled` (closed keys are recycled only when `epoll_wait` times out;
  a socket that stays readable prevents it for ever).
- `RtspServer`: `NoStaleRtp` (`rtsp_demo.c` 1478-1531 keeps the pointers to the
  RTP connections over the requests of the turn, a SETUP or TEARDOWN among which
  frees them).
- `RtspMsg`: `FullIsRefused` (the header limit of 1024 bytes is one more than the
  buffer holds, so that a longer message is never refused and blocks the
  connection).
- `HttpParser`: `HeaderLimit` (a pause in most callbacks returns without saving
  `nread`, so that headers above the limit may pass).
- `IniParser`: `EveryDumpReloads` (`iniparser_dump_ini` drops keys without a
  section when there are sections, and values that need quotes change).
- `AkiBuffer`: `PoolFitsMemory` (the number of packages is computed from the
  unaligned size and their places from the aligned one; with sizes that are not
  aligned the last ones lie beyond the memory).
- `PoolCaching`: `IndexInRange`, when the factory has a capacity (a released pool
  that grew past the largest size class meets the assertion of
  `pool_caching.c:200`).
- `AmioDrv`: `ActiveIsListed` (activating a device again after its hardware
  failed does nothing and reports success).

Other observations made while modelling:

- `ioqueue`: `pj_ioqueue_post_completion` does not test whether the key is
  closing, and an unregistration does not complete what is pending.  An
  application that submits an operation again after the unregistration, while a
  post for it still waits for the old key's lock, has it completed twice (the
  hypothesis of `OperationsHaveOneCustodian`).  A key whose `EPOLL_CTL_ADD` failed is
  on none of the lists afterwards and is never registered again
  (`ioqueue_epoll.c` 184-190; `list` is *lost*): each such failure costs a handle.
  `ioqueue_epoll.c` 294 and `ioqueue_common_abs.c` 960-981 test `key->grp_lock`, which
  nothing initialises (`ioqueue_common_abs.c` 121-126 is `#if 0`, and the pool does
  not clear memory); the model takes it for NULL.
- `rtsp_lib`: the comment at `rtsp_demo.c:1605` says slow readers move to the
  tail, the code moves them to the head; `rtsp_set_video` resets the RTP sequence
  numbers under playing clients; `rtsp_find_aac_adts` does not advance.
- `port`: a port that found no slot keeps its master and slot 0, and a destroyed
  port keeps both; destroying it (again) clears that slot whoever stands there, and
  a connected port is no longer dispatched to.  `test/port.c` 107-110 connects
  ports without looking at the result.  `OwnSlots` says that a connected port loses
  its slot in no other way.
- `rtsp_lib` messages: a connection that its peer closes is deleted with the complete
  messages that are still in the buffer (`rtsp_demo.c` 1144-1151), so that a client
  that sends its requests at once and closes may get no answer to the last ones.
  A message of more than 1023 bytes is never taken, nor is what follows it.
- `negan`: when one `recv` brings the end of one message and another whole one, the
  second stays in the buffer until the peer writes again (`negan_adapt.c` 105).
- `amio`: a device whose names are known although its activation failed, or that
  was only refreshed, has start index 0, and a lookup of its channels leads to the
  device that was listed first (`amio_drv.c` 45).  The drivers start a stream that
  is running a second time (`null_dev.c` 282, `hiaudio.c` 498, `hivideo.c` 537).
- `amio`: `hivideo_stream_destroy` reads the stream after its pool is destroyed;
  a stop of a null stream before its start joins no thread; the channel list has
  no bound check.  The first two are `ub` in `AmioStream`.
- `oslib`: a `RING_Write` that wraps and overruns a reader behind the writer
  flips both mirrors, and the ring reads as empty: `Lost` counts everything unread
  and the write's own bytes; `RBTREE_Erase` keeps the order
  but not the balance; the pool factory's used size is updated without its lock.
- `aki`: `AKI_QueueRemove` on an empty queue takes a header in front of NULL
  (`aki_buffer.c` 538-541); that the queue holds the package is the caller's part.
- `iniparse`: when the dictionary cannot grow, the part that was read is returned
  as if it were the file; a line `[]` shortens the section before it.
- `rtmp_lib`: playlists are sent and queued under number 0 (`rtmp.c` 2285, 2303), so
  that several wait under the same number; their answers cannot be told apart, and
  no other call has it.  `m_inChunkSize` survives a close; `m_bPlaying` is set again after
  Play.Complete has closed the connection, so that the next
  `RTMP_ConnectStream` returns at once; the packet that ends a pause does not
  update `m_mediaStamp`, so that it comes twice when it is alone between two
  pauses.  `RtmpDelivered` and `RtmpMediaOnce` leave these cases out, as their
  comments say.

## 7. What is not modelled

Of the modelled components: `pj_ioqueue_destroy` and the trivial setters;
partial sends (a partial `send` of a queued write is counted as complete);
a key with both a connect and queued writes; `TIMER_HeapSetLock`,
`TIMER_HeapDestroy`, the dump, the value of `next_delay` and allocation failure
in `grow_heap`; the wrap of gki's 16-bit `act_size` for sizes near 65535, which
the operators model and the runs do not reach; RTCP, and the bytes of RTP over
TCP (a header that is sent again after the packet would block); negan's sending;
the settings given to the HiSilicon library; the lenient mode of the HTTP parser
and callbacks that return errors; its fast loop over a header's value
(`http_parser.c` 1500-1515), which skips a character at its end only in headers that
are over the limit already; a failed `strdup` in `dictionary_set`
(`dictionary.c` 296-299), which leaves a slot without a key that is counted; the
typed ini getters; RTMPT, RTMP as FLV, URL
and option parsing and authentication strings of `rtmp_lib`.

Out of scope: `amf.c`, `handshake.h` and `hashswf.c` of `rtmp_lib`, byte
encodings and cryptography without lasting state; text processing of `oslib`
(console, json, scanner, strings); `lock.c`, `os_unix.c`, `sock.c`, wrappers of
pthreads and system calls whose semantics the models assume; the `rtc` driver,
which writes registers; the vendored `nl` tests and the other test programs.

## 8. Plan

The components are modelled as far as sections 1 and 7 say, and the invariants
of most are proved.  Left, in this order:

1. `PoolCaching`: `ChunksKept`.  Chunks of a block are cut from `cur` upwards, so
   that the invariant is one of intervals; the sums that `IndexInRange` and the
   factory's used size need come second.
2. `RtmpSession`: `MediaOnce`, for which the invariant has to relate the server's
   position, the packets under way and `m_mediaStamp`.
3. `Ioqueue`: weaker hypotheses for `DeadlockFreedom`, namely callbacks that
   receive or connect without concurrency, for which TLC finds no deadlock.

The rest of section 5's last list stays with TLC.
