# A verification project for extlib

TLA+ models of the parts of extlib that carry state over time, TLC
configurations that check them on small instances, and TLAPS proofs of the
properties that matter most. Source paths are relative to the repository root.

## 1. Inventory

| Component | State | Operations | Hard about it |
|---|---|---|---|
| message bus (`src/apix.c`) | lists of requests, responses, topic messages, stations, topics, sinkfds | `apibus_poll` = poll sinks, parse, `handle_request`, `handle_response`, `handle_topic_msg`, `clear_unalive_station` | peers connect, send and vanish between any two steps; descriptor numbers outlive connections; timeouts; deletion during iteration; newest-first lists |
| posix sinks (`src/apix-posix.c`) | `fd_set`, `nfds` (static), list of sinkfds, the serial line's settings | enable, disable, open, close, ioctl, accept, recv, send, poll | descriptor exhaustion, SIGPIPE, reuse of numbers after `apibus_close`, `fd_set` and `nfds` that outlive descriptors and buses |
| receive buffer (`src/atbuf.c`) | `rawbuf`, `size`, two offsets | write, read, peek, advance, tidy, realloc | compaction, growth, failed growth, exact fill, NUL termination |
| SRRP codec (`src/srrp.c`) and framing (`parse_packet`) | the bytes in the receive buffer, time of the last byte | read/write packets, find the next packet | fragmentation, loss, resynchronisation, timeouts |
| task (`src/posix/task.c`) | `t_state`, `t_control`, a thread | start, suspend, resume, stop, destroy | two threads, plain ints |
| ring buffer (`src/ringbuf.c`) | `rawbuf`, two offsets | write, peek, read, advance | full and empty look the same, wrap-around |
| timers (`src/posix/timer.c`) | per-thread lists of timers | new, start, stop, trigger, destroy, loop | handlers that change the list, timeval arithmetic, unlocked global list |
| module loader (`src/posix/module.c`) | list of loaded modules, their names and handles | load, unload, from a directory, all, rename | init and exit functions that call the loader while it walks its list |
| service hub (`src/svcx.c`) | list of services | add, delete, deal | prefix matching, headers cut at 64 bytes |
| options, json, log, err, crc16, `list.h`, string helpers | none that evolves, or static tables | pure functions and output | - |

Interactions: a sink's `poll()` receives into a sinkfd's `rxbuf`
(AtBuf); `parse_packet()` cuts packets out of it (SrrpStream) and queues them; the
handlers route them by bare descriptor number through `apibus_send()` and the
sink's `send()`. All of this runs on the one thread that calls `apibus_poll()`
in a loop; concurrency comes from the peers and the clock. Tasks, timers, ring
buffers, the module loader and the service hub are independent of the bus and
of one another.

What makes each component correct is stated by the properties in section 3; the
things that are hard to test, line by line, are the `hazards` of PROJECT.json.

## 2. Modules

| Module | Models | State |
|---|---|---|
| `ByteQueue` | what a byte buffer promises: a FIFO queue | `q`, `io`, `dead` |
| `AtBuf` | `src/atbuf.c` and the `recv()` into it | `buf` is `struct atbuf`; `io` the bytes the last write took or the last read copied out; `aborted` after a failed `assert` |
| `RingBuf` | `src/ringbuf.c` | the three fields of the struct, `io`, `dead` |
| `SrrpStream` | `src/srrp.c` and `parse_packet()` on one byte stream | `line`, `buf`, clock, `delivered` (texts), `lost`, and a history variable `clean` |
| `Apibus` | `apibus_poll()` with `unix_poll()`, and the peers | the bus's lists as sequences, descriptor table, channels, and history variables `asked`, `got`, `told` |
| `PosixSink` | `src/apix-posix.c` and the parts of `src/apix.c` that open, close, enable and destroy | the kernel's descriptor table and unix paths, `sinkfds`, `fds`, `nfds`, the sinks still to poll, `unix_poll()`'s `recvfds`, `nr_recv_fds` and the rest of its list, and histories of what was closed |
| `SerialLine` | `serial_ioctl()` | `cflag` as a set of bits, `speed`, and `asked` (history) |
| `Timer` | `src/posix/timer.c`, one thread | `timers`, `timer`, the clock, `timer_loop()`'s `now`, `next`, `pos`, `n` |
| `TimerLoops` | the list `_loops` that all threads share, with `list_add` and `list_del` of `src/list.h` | the cells' `after` and `before`, each thread's location |
| `ModuleLoader` | `src/posix/module.c` | `modules`, `name`, `refs` (the counts inside `dlopen`), `err`, and the `stack` of calls under way |
| `SvcHub` | `src/svcx.c` | `services`, and `meant` (history) |
| `Task` | `src/posix/task.c` | `t_state`, `t_control`, program location `at`, the owner's location |
| `MCAtBuf`, `MCApibus`, `MCSrrpStream` | values of the constants for TLC | - |
| `MCComponents` | AtBuf, RingBuf, SvcHub, SerialLine, TimerLoops, Timer and ModuleLoader in one model | theirs, and `subject`: which of them the behaviour is about |
| `ApibusProofs`, `PosixSinkProofs`, `SrrpStreamProofs`, `ModuleLoaderProofs`, `TimerProofs` | theorems and proofs about the module of that name (those of `Task` are few and stand at its end) | - |
| `ComponentsProofs` | the properties of the run `components` as theorems: those of the loader and the timers carried over, those of the other parts, the receive buffer first, proved here | - |
| `ListLemmas` | what the proofs need of sequences: parts, removal, least elements, and what `FlattenSeq` computes | - |

`AtBuf` and `RingBuf` are shown to implement `ByteQueue` (refinement mapping:
the queue is the bytes between the two offsets). `SrrpStream` uses the queue that
AtBuf implements and its terminating NUL; `Apibus` uses whole packets, which is
what `SrrpStream` delivers. `PosixSink` takes the descriptor numbers that `Apibus`
routes by as its subject: its `NamesLast` is why `Apibus` may assume that a
number once accepted goes on naming its connection. `Timer` uses the loop that
`TimerLoops` finds.

### How actions correspond to code

*AtBuf.* One action per public call, the call as a whole; the C functions are
operators on the struct. `WriteGrows` and `WriteNoMemory` are the two outcomes of
`realloc()` in `atbuf_write()`; cells it does not initialise hold `Junk`.
`RecvInto` is `recv(fd, atbuf_write_pos, atbuf_spare)` plus
`atbuf_write_advance`.

*SrrpStream.* `Recv(n)` takes any prefix of what is on the line; each iteration
of `parse_packet()` is a step (`ParsePacket`, `ParseWait`, `ParseDiscard`,
`ParseDone`). A byte is abstracted to the packet it belongs to and its place in
it: leader, first digit, what `sscanf()` insists on (commas, seat, the value of the
length), a digit it can do without, the header up to `?{`, data, stop byte. `"%4x"`
and `"%x"` match fewer digits than the writers put, and the length field is compared with
the measured header and data plus the fields' constant widths (`MeasuredLen`,
`src/srrp.c:52`, 94 and 135), so a packet that has lost such a digit is accepted.
`atbuf_read_advance()` then takes as many bytes as the length field says, one of the next
packet included. Assumed: data contains neither a
leader followed by a digit nor a second `?{`. The clock is finer than `time(0)`:
`Expired` rounds down as the code does. A buffer is read the way the C string
functions read it, up to the first NUL.

*Apibus.* One round of `apibus_poll()` is the sequence of phases in `pc`, and
inside a phase one message or descriptor per step, in list order. `Select` takes
the snapshot of readable descriptors, `Accept`, `AcceptFails`, `Recv` and `Hangup` are
the branches of `unix_poll()`; `ParsePacket` the queueing part of
`parse_packet()`; `Request*`, `Response*`, `Subscribe*`, `Unsubscribe*` and `Publish*` the
branches of the handlers; `PollEnd` is `clear_unalive_station()`. `told` counts
the answers sent to a connection: a response, "request timeout" or "STATION NOT FOUND". `sinkfd_destroy()` frees the sinkfd but
does not `close()`: the descriptor stays occupied. Undefined behaviour:
`SubscribeDies` (a null pointer goes to `strlen`) ends the process;
`UnsubscribeUnknown` (the list head is used as a topic) goes on or ends it;
sending to a vanished peer may raise SIGPIPE and end it.

*Task.* Each load and store of `t_state` and `t_control` is a step, also in
`task_suspend()` and `task_resume()`, whose assertion loads `t_state` (`Asserts`) before
`t_control` is stored (`Command`). The owner is one thread that starts the task once and
makes these calls only when the assertion holds.

*PosixSink.* One action per call of the application; `apibus_poll()` is the
sequence of the three sinks' polls, each a `select()` and then one entry of the sink's
list per step, readable or not (`Skip`), until the list ends or `nr_recv_fds` has come down
to 0 (`Continue`). The kernel hands out the lowest free number, also to the application's own
files (`AppOpen`). `sinkfds` is `bus->sinkfds`; a sink's own list is the part of it
with that sink, in the same order, since both are always changed together.
`fds` and `nfds` are static in the code and survive `apibus_destroy()` in the model.
`remembered` are the numbers that requests, stations and topics may hold.

*Timer.* `Spec` is safety, `FairSpec` adds that `timer_loop()` is called again. `LoopBegin`, then one list entry per step (`NotSet`, `NotDue`, `Fire`),
`LoopEnd`. While a handler runs it may make any of the calls. Time passes between any
two steps. A timeval keeps its two parts separate, as `timer_start()` leaves it.
`Reschedule` is the `do ... while` loop. `Sleep` is what is stored in `*next`: whole
milliseconds, with the seconds and the microseconds subtracted apart and the latter
divided by 1000 rounding towards zero (`Truncated`), so that a negative difference makes
the sleep longer. A tick is half a millisecond in the run. Reading a freed timer or a freed list head
ends the process or the walk; `misused` records the calls that lead there.

*TimerLoops.* Each store of `__list_add()` and `__list_del()` that another thread can
see is a step, and so is each element `find_timer_loop()` looks at. Stores are taken to
become visible in program order.

*ModuleLoader.* A step runs up to the next call of an init or exit function, or its
return. The calls under way are frames of a stack, so that the functions may
call the loader again: `init`, `exit`, `dir` (a directory being read) and `all`
(`unload_all_modules()` with its `n`). Unloading marks the frames that have lost
what they return to. `dlclose()` inside `assert()` is taken to be executed.

*SvcHub, SerialLine.* One action per call. Bits are numbered as in Linux.

Operators whose comment says "fault" are not part of the models: they are
plausible bugs, each of which makes one property fail.

## 3. Runs

| Run | Shows | Bounds |
|---|---|---|
| `components` | `TypesOK` of all parts; for the receive buffer `Terminated` (which includes `OffsetsInside`), `RoomReclaimed` and `FifoQueue` (refinement of ByteQueue) | 4 bytes growing to 8, chunks up to 2, two byte values; both conditions under which `atbuf_tidy` compacts decide on their own: too little room only at 8 bytes, where one spare byte is less than a quarter |
| | for the ring buffer `RingFifo` (refinement of ByteQueue) | 4 bytes, callers leave one spare |
| | for the service hub `HubActsAsTable` | 7 headers, some prefixes of others or equal up to the length kept, 3 services |
| | for the serial line `LineSetAsAsked` | every combination of settings |
| | for the shared list of loops `LoopFoundUnlessOverlapped` | 2 threads, 3 loops |
| | for timers `TimerDiesOnlyMisused`, `TimerNotEarly`, `TimerKeepsRhythm`, `TimerNoOversleep`, `TimerDueRuns` | 2 timers, seconds of 4 ticks and milliseconds of 2, timeouts and periods of 2 ticks (so that a carry is lost and a negative difference is rounded), the clock runs from second 1 almost to second 2 |
| | for modules `LoaderOpenOnce`, `LoaderOrderly`, `LoaderDirLoaded`, `LoaderAllUnloaded` | a library in two directories, one without exit function, one without init function, a file that is no library; calls nested 3 deep |
| `sink` | `OwnsLive` (with the type invariant), `AllWatched`, `SelectSound`, `Reachable`, `NamesLast`, `CountdownSound`, `Served` | 3 descriptors, one address of each kind, one number given back |
| `srrp` | `TypeOK`, `GenuineInOrder`, `NothingLost`, `Drained` | 4 packets of 6 to 8 bytes of three kinds, any fragmentation, entry at any byte of the first packet, one byte lost anywhere |
| `bus_requests` | `Entitled`, `AnsweredOnce`, `AllForwarded`, `StationHeld` | 3 connections, 2 descriptors, two claim the same station, 2 packets each |
| `bus_topics` | `TypeOK`, `Entitled` | 2 connections that may both quit, 2 packets each out of subscribe, unsubscribe, publications to a topic, to its prefix and to none, a request to nobody |
| `bus_live` | `RequestsSettled`, `InputTaken` | 3 connections and 2 descriptors, so that one may never be accepted; the requester may quit; the station sends 2 packets, the others 1; requests time out and stations expire after a tick |
| `task` | `NoUseAfterFree`, `QuietWhenPending`, `StopReturnsUnlessOverwritten`, `SuspendObeyed` | 5 suspend/resume commands |
| `atbuf_assert`, `srrp_stop`, `bus_sub_twice`, `bus_stale`, `task_lost` | a disagreement between code and what the repository says of it, see below | as above |

The parts in `components` have nothing to do with one another: `NextAll` lets only the
subject move, so the run is the sum of the parts' state spaces and not their
product. `MCComponents` instantiates `ModuleLoaderProofs` and `TimerProofs`, which
extend the parts they are about, so that `ComponentsProofs` can cite their
theorems. `PartsAssumption` collects what the parts assume of their constants, and
TLC evaluates it. A property of a part is stated in `MCComponents` under the part's name and
is the part's own definition.

Why the bounds are enough: the buffers treat bytes alike and depend on sizes only
through comparisons with size/4 and size, which come out either way at four and eight
bytes; the framing looks at one packet and the one after it; the bus's handlers
treat one message at a time, and two connections are enough for one to get
what belongs to the other, the third is there to exhaust the descriptors. A sink needs a
listener and a connection, and a third number that somebody else has or gave back;
`timer_loop()` looks at one timer and remembers the next; an init function
nested in a directory nested in an init function is as deep as the loader's
own bookkeeping goes (`MaxDepth = 3`; a third library with both functions adds states but
no new ones in kind). The
theorems of section 5 have no bounds.

Fairness: the application calls `apibus_poll()` in a loop (as in `demos/` and
`tests/test_apix.c`), so a step of the bus that stays possible is taken; the
clock advances; a thread with timers comes back to `timer_loop()` and its handlers
return; the task's thread is scheduled, its function and `sleep()`
return. Nothing is assumed of peers, lines and owners. `send()` is taken not to
block. Deadlock is not checked where the process may end (`aborted`, `dead`,
`up = FALSE`).

## 4. Where the code differs from what it says

With a run (details in PROJECT.json, `findings`):

* `atbuf_assert`: a chunk that exactly fills the buffer fails
  `assert(self->offset_in + len < self->size)`; both `atbuf_write()` and the
  sinks' `recv()` allow one.
* `srrp_stop`: a packet whose stop byte is not there yet is accepted; the stop
  byte arrives later, makes the buffer unreadable, and everything received behind
  it is dropped after the timeout.
* `bus_sub_twice`: a subscription while any topic exists ends the process.
* `bus_stale`: a station that reconnects renews the entry that holds its old
  descriptor; requests to it go nowhere and the entry never expires.
* `task_lost`: `t_control = TASK_C_NONE` can wipe out a stop request;
  `task_stop()` then waits for ever. `StopReturnsUnlessOverwritten` shows that
  this is the only way.

Refuted by TLC when the named property is added to a configuration (for the
parts in `MCComponents` through their instances, as `TimerList!LoopFound`):

* `LastCommandWins` (`MCApibusTopics.cfg`): subscribe and unsubscribe received in
  one poll take effect in reverse, as `list_add()` queues newest first.
* `Patient` (`MCSrrpStream.cfg`): `PARSE_PACKET_TIMEOUT 1000 /*ms*/` is measured
  in whole seconds; an unfinished packet may be discarded after a millisecond.
* `Undamaged` (`MCSrrpStream.cfg`): a packet that has lost one byte is not always refused.
  If the byte was a digit of the source or of the checksum, or a zero that leads the length,
  the packet still has the length it announces; it is delivered altered, with another
  source for instance, and the leader of the next packet goes with it. `srrp.h` puts a crc16
  behind every packet, the code has none. `GenuineInOrder` shows that this is all that one
  lost byte can do. (Two are not modelled: they can put `?{` before the first `:/`, for which
  the header length is negative and the code undefined.)
* `WriteCounted` (RingBuf with `LeaveGap = FALSE`): filling the ring
  buffer empties it.
* `ReadsReturn` (RingBuf): reading part of a wrapped ring buffer
  computes a negative length.
* `AutoClosed` (`MCPosixSink.cfg`): "apibus_destroy(bus); // auto close all fds"
  (`demos/apix_unix_tcp_serial.c`); it closes none.
* `AllWatched` without its condition (`MCPosixSink.cfg`): after a descriptor has been closed,
  opening an address on the lower number sets `nfds` below the others, which are
  then never read. `SelectSound` without its exception: a closed descriptor stays in
  `fds` and `select()` fails until the number is in use again.
* `LoopFound` (TimerLoops): `tests/test_timer.c` makes timers in two threads; when both
  link their loops at once one of them is lost and `assert(loop)` fails.
* `DiesOnlyMisused` without its exception (Timer): "do nothing after call handler as
  current timer will be killed in handler" (`src/posix/timer.c:156-159`). A handler may destroy
  its own timer, but when that is the thread's last one `timer_destroy()` frees the loop as
  well, and the walk goes on to read the freed list head. A handler that destroys the next timer
  does the same harm, and triggering a timer without a handler calls a null pointer.
* `NoOversleep` without its last case (Timer): 0.5 ms before a deadline in the next second
  `timer_loop()` returns 1 ms; the caller wakes up late, by less than a millisecond.
* `TimerNotEarly` without its exception: a `tv_usec` above a million compares as
  earlier than it is.
* `LineSetAsAsked` without its exception: 7 bits with parity become 8, since `ISTRIP`
  and `INPCK` are put into `c_cflag`.
* `LoaderOrderly` without its exception: an exit function that unloads the
  module after its own during `unload_all_modules()`.

## 5. Proofs

| Theorem | Establishes |
|---|---|
| `ComponentsProofs!BufferTypeCorrect`, `MemorySafe`, `DrainedIsEmpty`, `BufferIsQueue` | `TypeOK`; `OffsetsInside`, `Terminated`, `ContentsWritten`; `RoomReclaimed`; `FifoQueue` |
| `ApibusProofs!TypeCorrect`, `RoutingCorrect`, `StationsHeld`, `NoRequestSkipped`, `RequestsAnsweredOnce` | `TypeOK`, `Entitled`, `StationHeld`, `AllForwarded`, `AnsweredOnce` |
| `SrrpStreamProofs!TypeCorrect`, `GenuineDelivery`, `NothingIsLost`, `ParseLoopEnds` | `TypeOK`; `GenuineInOrder` on a line that loses at most one byte; `NothingLost`; that the loop of `parse_packet()` ends |
| `Task!TypeCorrect`, `FreeIsSafe`, `SuspendedIsQuiet`, `StopRequestKept`, `StopReached`, `SuspendReached` | `TypeOK`, `NoUseAfterFree`, `QuietWhenPending`; the variants behind `StopReturnsUnlessOverwritten` and `SuspendObeyed` |
| `PosixSinkProofs!SinksOwnTheirFiles`, `NothingOverlooked`, `SelectFailsOnlyAfterClose`, `ListenersReachable`, `NumbersKeepTheirMeaning`, `WalkNotCutShort` | `OwnsLive` (with `TypeOK`), `AllWatched`, `SelectSound`, `Reachable`, `NamesLast`, `CountdownSound` |
| `ModuleLoaderProofs!TypeCorrect`, `OpenedOnce`, `OrderlyCalls`, `DirectoryLoaded`, `EverythingUnloaded` | `TypeOK`, `OpenOnce`, `OrderlyUnlessMisused`, `DirLoaded`, `AllUnloaded` |
| `TimerProofs!TypeCorrect`, `WalkSurvives`, `FiresNotEarly`, `RhythmKept`, `SleepNotTooLong` | `TypeOK`, `DiesOnlyMisused`, `NotEarly`, `KeepsRhythm`, `NoOversleep` |
| `ComponentsProofs!PartsTypeCorrect`, `RingIsQueue`, `HubIsTable`, `LineAlwaysAsAsked`, `TimerLoopFound` | `TypesOK`, `RingFifo`, `HubActsAsTable`, `LineSetAsAsked`, `LoopFoundUnlessOverlapped` |
| `ComponentsProofs!LibrariesOpenedOnce`, `ModulesCalledInOrder`, `WholeDirectoryLoaded`, `NoModuleLeft`, `TimerWalkSurvives`, `TimersNotEarly`, `TimersKeepRhythm`, `SleepersWakeInTime` | the loader's and the timers' properties in the run's own names |

They hold for all values of the constants under the named assumptions of the
modules (`AtBufAssumption`, `RingBufAssumption`, `ApibusAssumption`,
`SinkAssumption`, `SrrpAssumption`, `TaskAssumption`, `TimerAssumption`, `LoopsAssumption`,
`LoaderAssumption`, `HubAssumption`), which say no more than that sizes and times are
numbers, that the special values differ from the ordinary ones, that a packet has at
least its leader, fields, delimiter and stop byte and, for the bus,
that the listener's descriptor is not handed out again. In `ComponentsProofs` the
hub's names, the loader's paths and its directory are those of `MCComponents`; the
proofs look at them only through `HubAssumption` and the theorems of
`ModuleLoaderProofs`, which is about any paths and any directory.

*AtBuf.* The inductive invariant `IInv` adds to the offsets' order that the stored cells
are bytes, that the cell behind them is NUL and that equal offsets are both 0.
Lemmas say what each C function does to a sound buffer; `atbuf_tidy()` restores
the NUL and the zero offsets whatever the caller did to the offsets. The byte reserved for the NUL
comes from the assertion of `atbuf_write_advance()`, which is why a build
without assertions is not covered. For the refinement `Held(b)` is the queue a struct
stands for; a lemma for each function says what it does to it (compaction, tidying and
`realloc()` nothing, storing appends, `atbuf_read_advance()` drops a prefix), and every
action is then one step of ByteQueue or a stutter.

*RingBuf.* `Contents` is the queue, `Slot` the cell of its i-th byte, `Distance` the
room between the offsets modulo the size. The callers' spare byte keeps the
distance below the size, so that writing never meets the read offset and the
i-th byte keeps its slot. The type invariant is inductive as it stands.

*SrrpStream.* The proofs turn bytes into positions. `StreamParts` says once where each
packet starts in the stream (`Start`); a byte then tells its own position, and what the
buffer and the line hold together, `Rest`, is a range of positions. `InStream`, the
strengthening for `GenuineInOrder`, says that at most one position is missing from
it (`Follows`) and that the packets delivered lie before it, the stop byte of the last
one perhaps excepted (`Passed`): the buffer is parsed before that byte has come, too. A text that
is accepted then lies in one packet (`Accepted`): its first three bytes are at places 1, 2
and 3 and at most one byte is missing, so they are neighbours. It is whole, or lacks
byte 4 and nothing else: a missing header is noticed, and a byte missing after it
either brings the stop byte into a text of the length announced or was the stop byte itself, and
the text runs into the next packet and is too long. What the packet takes off the buffer may then
include the next leader, but never more (`Passed` is kept). For `NothingLost` `CInv` says that in a clean run the
packets delivered are exactly the first ones of the stream and `Rest` what comes
after them. `clean` excludes buffers that end just before a stop byte, because then
the NUL of the receive buffer passes for it and `atbuf_read_advance()` drops the packet
without it; the byte itself comes later and is garbage. Dropping from the front does not
change how a buffer ends (`SameEnd`), so this needs to be excluded on arrival only.
That the packets concatenated are what the recursive function in
`FlattenSeq` computes is shown for any sequences by least counterexample
(`ListLemmas!FlattenIsJoin`).

*Apibus.* `Entitled` speaks of what was sent; it is inductive only together with
where everything the bus keeps came from. `PInv` says so: each packet in a
receive buffer, request or topic message was sent by the connection its
descriptor refers to; a station's descriptor refers to a connection that
introduced itself with that id; a topic's subscribers sent a subscription with its
header. The argument rests on one fact, `Grows`: a descriptor once accepted
refers to its connection for ever, because `sinkfd_destroy()` never closes it.
The mutant that closes it breaks `Entitled`: whoever fixes the descriptor leak
has to clean up requests, stations and topics as well. For `AnsweredOnce` the
requests of a connection are counted where they can be: on the line, in the receive buffer,
in `bus->requests` (`Pending`) and among the answers (`told`). `AInv` says that the sum is what
was asked, and at most that once the peer has closed. `WInv` is needed because an
answer reaches only a connection whose descriptor is listed: until its peer closes each connection
has at most one descriptor, which is in `bus->sinkfds` (`OneDescriptor`, `OpenListed`), and only
closed peers are hung up on (`ReadyReadable`). Because of `Grows` no request changes its owner.

*PosixSink.* `IInv` says that the records have distinct numbers and that the file
behind each is the one it was made for, and that the poll in progress belongs to an
enabled bus. For `SelectSound` the strengthening is `Orphans`: the application may
have its own file behind a watched number meanwhile, and may close it again, so the
claim has to cover foreign files, not only closed ones. For `AllWatched` it is
`WInv`: as long as no number was given back, the kernel hands out ascending numbers,
so setting `nfds` is as good as raising it. `CountdownSound` compares a cardinality with the
countdown: `select()` counts at least what the list holds of it, and both lose the same descriptor.

*ModuleLoader.* The invariant is about every frame of the stack, not only the top:
no frame mentions a module that is not listed (`Linked`), the module of an init frame
is not up and no older call knows it (`Fresh`), and without misuse no frame has lost
anything and a module being unloaded is awaited by nobody else (`Unharmed`).
`AllInv` says of each `unload_all_modules()` that what it has still to unload lies at or
behind its `n`; `DirInv` of each directory that every file passed is answered
to by a module no pending init function can still make fail.

*Timer.* `IInv` bounds the timevals (`tv_usec` stays below two seconds' worth, and
is reduced when `timeradd()` carries) and says where the walk's cursors are; `WInv`
that every timer the walk has left behind was counted into `next`, unless a handler
touched it. That the rounding adds less than a millisecond, and only across a second's
boundary, is arithmetic on `Truncated`. The rescheduling loop is a recursive function; that it ends within the
model's bound, with the first multiple that has not passed, is shown by least
counterexample (`ListLemmas!LeastNat`), since induction with an operator
parameter is not available to the prover.

*TimerLoops.* While no two threads have met inside `timer.c` the loops in use have
ranks such that `next` always leads to the loop of the next higher rank
(`Ranked`); `list_add()` gives the new loop the lowest rank, `list_del()` joins two
neighbours. A thread that looks for its loop has not passed it, because its rank is
not below the cursor's (`Busy`). The half-done stores of `__list_add()` and
`__list_del()` are spelled out there, too; `prev` pointers are right except at the one
cell a thread is mending (`Backs`).

*SvcHub, SerialLine.* While no two headers have been prefixes of one another the list is
`meant`, entry by entry, and headers differ within the length kept (`ToldApart`). The
line's settings are a case analysis of `serial_ioctl()`, which clears what it sets.

*Task.* While a suspend is the last command and the state is pending, the thread is
in the part of its loop that leads back to `sleep()`; "stopped" is written only
after `pthread_join()`. Of the two liveness properties everything but scheduling is proved:
a stop request stays where it is unless an acknowledged resume wipes it out (`StopKept`),
and while a request stays each step of the thread lowers the number of steps left
(`StopDrawsNear`, `SuspendDrawsNear`).

Only model-checked: everything under fairness (`RequestsSettled`, `InputTaken`,
`Drained`, `StopReturnsUnlessOverwritten`, `SuspendObeyed`, `Served`, `TimerDueRuns`),
which is out of the prover's reach: it has no rules for `WF` and `ENABLED`. (For the
task and for `parse_packet()` the step-by-step part of the argument is a theorem.) Every
invariant and every action property that a passing run checks is a theorem.

## 6. Plan

Done: all modules of section 2 with their runs, and the proofs of section 5.

## 7. Not modelled

The stm32 sink (calls into firmware that is not in the repository), option and
json parsing, logging, error texts, crc16 and string helpers: no
state that evolves, or formatting only. Of `list.h` the operations the library
uses are modelled in TimerLoops; hash lists, splicing and the other iterators are
unused. In the bus: the idle sleep and log output. In the sinks: `select()`
interrupted by a signal, enabling the sinks twice (the second call resets the
sinks' lists under the sinkfds), several buses at once. In the module
loader: parameters, aliases, descriptions and versions, which it keeps and does
not look at. Memory exhaustion is modelled for `atbuf_realloc()` only; the other
allocations are unchecked in the code and taken to succeed.
