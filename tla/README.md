# nethello in TLA+

nethello (`src/`) is a network test tool: a client and a server exchange text,
measure throughput, or transfer a file, over TCP, UDP, raw Ethernet or KCP. It
is built on a small event-driven network library (pollers, sockets, servers,
clients) kept in the same repository. This directory models the parts of it
that decide whether it is correct: what happens between threads, between a
timer and an event, and between the two ends of a connection.

## The system

| part | state it keeps | operations | how it meets the others |
|---|---|---|---|
| Event loop (`event/EventLoop`, `PipeWrap`) | `_list_task`, `_list_swap`, the pipe, `_event_map`, `_event_cache_expired`, `_exit_flag` | `async`, `async_first`, `runLoop`, `onPipeEvent`, `addEvent`, `delEvent`, `modifyEvent`, the destructor | everything that happens to a socket happens in a callback or a task of one loop thread; other threads hand tasks in |
| Timers (`doDelayTask`, `event/Timer`) | `_delay_task_map` | `doDelayTask`, `getMinDelay`, `flushDelayTask`, `~Timer` | sets the timeout of `epoll_wait`; started by servers, sockets and tests |
| Sockets (`net/Socket`, `SockFD`, `SockNum`) | the descriptor, `_err_emit`, `_con_timer`, the receive buffer, the send buffer of `send_b` | `connect`, `listen`, `bindUdpSock`, `onAccept`, `onRead`, `emitErr`, `closeSock`, `send_i`, `send_b` | calls the callbacks of sessions and clients, on the loop thread |
| Message framing (`net/StickyPacket`, `Buffer`) | the receive buffer of a TCP socket | `StickyPacket` | from `onRead` to the handlers of messages |
| Servers and sessions (`net/TcpServer`, `UdpServer`) | `_session_map`, `_last_session`, `_is_on_manager` | accepting, the manager timer, removal on error, `sendclientdata`, `GetRcvInfo` | own the sessions; the main thread sends through `_last_session` |
| Clients (`net/TcpClient`, `UdpClient`, `TcpSafeClient`) | the socket, `_bVaildSnd`, `_fd` | `create_client`, `onSockConnect`, `SendData` | |
| File transfer (`core/file`) | `FileSend::_status`; `FileRecv::_status`, `_write_file`, `_write_size`, `_filesize` | one handler per message, `StartTransf`, the send loop | client and server exchange REQ, RSP, DATA, END |
| Pressure test (`core/press`, `core/raw`, `core/npcap`) | packet counters of sessions, totals of the model, `_bsending`, npcap's send queue | `onManagerModel`, `prepare_exit`, `start_client_press`, `tcp_client_press` | timer on one thread, receiver and sender on others, signal handler |
| KCP (`depend/kcp/ikcp.c`, `core/raw/KcpClient`) | the control block: queues, buffers, windows, probes | `ikcp_send`, `ikcp_input`, `ikcp_update`, `ikcp_flush`, `ikcp_recv` | carries the messages of a file transfer over raw frames |
| Logger (`base/Logger`, `base/Semaphore`) | the pending messages, `_exit_flag`, the slices of `FileChannel` on disk | `write`, `run`, `flushAll`, `~AsyncLogWriter`, `changeFile`, `clean` | every thread logs; exits, signals and midnight meet its thread |
| Text mode (`core/text`) | | one send per line of input | the poller |
| Clock (`base/TimeThread`) | the millisecond counters | `getCurrentMillisecond` | timers, tickers |
| Utilities, command line | | | wrappers of system calls, sequential startup |

What is hard: tasks handed in while the loop drains its pipe or is being
destroyed; timers added, repeated and cancelled by callbacks of a running
flush; messages cut anywhere by TCP; a transfer whose peer, connection or file
fails at any step, with one process serving all sessions; closures that outlive
what they were posted for; counters read and reset by one thread and increased
by another. `PROJECT.json` lists these hazards with their lines and the
properties that watch them.

What makes each part correct:

- *Event loop*: no task is lost or run twice, `async` keeps the order, a
  sleeping loop wakes up, tasks never run on two threads at once, the
  destructor returns.
- *Timers*: none is lost, early, or slept past.
- *Framing*: the messages that were sent come out whole, once, in order, as
  soon as they are there, and the buffer never passes for an end of stream.
- *File transfer*: a file declared complete is the source file, if no other
  session wrote it; nothing is lost or repeated on the way; a failed sender is heard; no handler uses a file
  pointer that is not one.
- *Sockets*: one answer per connect, an event reaches only the socket it
  happened to, a descriptor number is free again only when nothing is
  registered under it, none is left open, accepting and the report of an end go
  on whatever happens.
- *UDP server*: the datagrams of a peer reach its session once and in order
  although they come through two sockets.
- *Pressure test*: every packet is counted in exactly one period, the totals are
  complete and are those of what was sent, the loss is a loss, the limit holds,
  the process ends with the first report after its duration.
- *KCP*: the messages arrive whole, once and in order whatever the network does,
  and all of them when it stops failing; windows hold and do not stay closed.
- *Buffered sending*: the stream is the bytes given, a timeout is a timeout, and
  what was given does not stay in the buffer for ever.
- *Logger*: a message that was written is not lost at an exit, the files have no
  gap, and the exit ends.

## Modules

| module | models | extends or instantiates |
|---|---|---|
| `TaskExecutor` | abstract: what `async` and `async_first` promise | |
| `EventLoop` | `async_l`, `PipeWrap`, `runLoop`, `onPipeEvent`, `~EventLoop` | `TaskExecutor` as `Executor` |
| `EventLoopProofs` | theorems about `EventLoop` and `DelayTasks` | both, `TLAPS` |
| `DelayTasks` | `doDelayTask`, `getMinDelay`, `flushDelayTask`, `Timer` | |
| `MessageStream` | abstract: what the receiver of a TCP connection is promised | |
| `StickyPacket` | `StickyPacket`, `Buffer`, the read loop of `Socket::onRead` | `MessageStream` as `Stream` |
| `FileTransfer` | `FileSend`, `FileRecv`, the connections between them, all processes | |
| `FileTransferProofs` | theorems about `FileTransfer` | `FileTransfer`, `TLAPS` |
| `Sockets` | `addEvent`, `delEvent` and the dispatch of events, `Socket`'s connect, accept, error and end, `SockFD`, `SockNum` | |
| `SocketsProofs` | theorems about `Sockets` | `Sockets`, `TLAPS` |
| `UdpServer` | `UdpServer`, its sessions and their sockets | |
| `UdpServerProofs` | theorems about `UdpServer` | `UdpServer`, `TLAPS` |
| `PressTest` | the receiving side: `PressModel`, `PressSession`, `GetRcvInfo`, the SIGINT handler | |
| `PressSender` | the sending side: `PressModel`, `RawPressModel`, `NpcapPressModel` and their clients | |
| `PressProofs` | theorems about `PressSender` and `PressTest` | both, `TLAPS` |
| `SendBuffer` | `send_b`, `timer_b`, `flush_b` of `Socket`, `BufferAuto`, `send_once_tcp` | |
| `StreamProofs` | theorems about `StickyPacket` and `SendBuffer` | both, `TLAPS` |
| `Kcp` | `ikcp.c` with the settings of `KcpClient`, two ends and a network | `MessageStream` as `Stream(p)` |
| `KcpProofs` | theorems about `Kcp` | `Kcp`, `TLAPS` |
| `KcpRestart` | a client of `RawFileModel` that is started again | `Kcp` |
| `LogFiles` | the slices of `FileChannel`, file by file | |
| `Logger` | `AsyncLogWriter`, `Semaphore`, `Logger`, the ways a process ends | `LogFiles` |
| `LoggerProofs` | theorems about `Logger` and `LogFiles` | `Logger`, `TLAPS` |
| `MC...` | small constants for TLC | the module each is named after |

### EventLoop

Each thread's place is a variable: `writing` is the set of threads between the
unlock of `_mtx_task` and the write to the pipe, `loop` the place of the loop
thread, `owner` that of the thread in the destructor. `AsyncPush` is the locked
section, `PipeWrite` the write (a full pipe drops the byte), `DrainRead`,
`DrainEmpty` and `SwapTasks` are the steps of `onPipeEvent`, which other
threads interleave with. The pipe is registered edge-triggered: `edge` is its
place on epoll's ready list. A poller may have no loop thread (`hasThread`),
as the second one of `FileSend` has not.
`TaskExecutor` promises little of `async_first`: the task may be put anywhere in the
queue. `_list_task.push_front` puts it ahead of what waits in the list, which is
in the middle of all that waits when the loop is running a batch.

### DelayTasks

`tasks` is `_delay_task_map`; a flush moves it to `copy`, as the code does, and
callbacks meanwhile add to `tasks`. `ref` is the `now_time` a delay is reckoned
from: it is stale by the time `epoll_wait` is entered, and time passes between
any two steps.

### StickyPacket

A byte is its position in the stream. The buffer holds the positions from
`front` to `read`, so `Size` is their difference and `Align` moves `front`; the
pieces a stream arrives in are the arguments of `Recv`. A header read where no
message starts could have any length; the invariants show that never happens.
`SetCapacity` (`StickyPacket.cpp:38`) is taken to find its memory.

### FileTransfer

A DATA message is an interval of positions of the file and what the server
wrote is a sequence of positions, so that "exact" can be said without bytes.
`uint32_t` is arithmetic modulo `Word`. Each client has sizes of its own
(`Sizes`) and those of `Faulty` meet every fault: a killed process, a reset, a
send given up half-way, a source file resized by another program. The others
share the server with them. `files` is the server's directory and `path` the name
each client asks for (`StartTransf` sends `-D` and the name of its source).
`procTranReq` opens it with "wb" whoever else is writing it: `FileOpened` empties
the file, each stream goes on at its own offset (`Stored`), and both sessions are
told END(SUCCESS), for the receiver counts bytes and compares none. `fwrite` may
fail, and so may `fclose`, whose result `FileRecv.cpp:255` does not look at: the
end of the file is lost and END(SUCCESS) is sent all the same (`FileCut` in
`Complete`). `bytes` is what a file holds once its streams are flushed: a byte is
there from its `fwrite` on, and what a failed `fwrite` or `fclose` loses is what its
own message added, although the stream may buffer more than one. `Exact` says what
is left of a promise: what a session gave to `fwrite` is the source file, whatever
the others do, and the file holds it if it is the session's own and no write of
it failed (`OwnFile`). `exit(1)` of the server ends all sessions
(`ServerExit`), as in the code. A send given up leaves a message that is not
whole and a stream out of step (`RecvGarbled`, `RecvUnframed`); `told` says
whether END went out after all. The bandwidth limit only delays the sender and
is left out; that an open file stays open when its session goes is modelled but
no property is about it.

### Sockets

A Socket and its open file have one name, the descriptor number is `fd[s]`, and
`CloseFile` frees it. Who keeps the file open follows the `shared_ptr`s of the
code: `sockFd` is the SockNum in `_sock_fd` ("removed" after
`closeSock(false)`), the callback in `eventMap` holds another, and a running
callback a third, which is why a file closes in `Return` and not where the
socket is let go. `Alive` says whether a `weak_ptr` to the Socket can be locked.
The deleter of `createSocket` hands a Socket another thread let go to the loop
(`LetGo`, `RunDelete`). `Connect` may come while the loop waits and, as a task of the pipe's
event, in the middle of a batch, with a number an earlier event of it freed.
`batch` is the array of `epoll_wait`, taken in any order
because the kernel's ready list may have any; `run` records which file an event
happened to besides which Socket handles it. `emplace` on `_event_map` is a
plain assignment, as the number is always free there (`MapMatchesEpoll`).

### UdpServer

The kernel's choice of a socket is `Dest`: the connected one, or while a second
socket of the port is bound only, one of the two by a hash (`flow`). `loop` is
"create" between bind and connect, where datagrams come in. `buf` is the
`_buffer` of each socket, which whoever takes the data has to reset. A failing
`connect`, and a failing `attachEvent` after it, are left out. The room of a buffer
is counted in datagrams: the code has 2048 bytes, and a datagram that does not fit
behind a stray left there is cut (`Socket.h:820`).

### PressTest

`udp` is the protocol of the test, chosen at the start. `num` and `seq` are the
counters of a session. An increment is two steps
(`OnRecv` loads, `CountPacket` stores), and so is `GetPktNum` in the signal handler
(`Ask`, `Clear`); on the loop thread nothing comes between them, and `Collect`
is one step. `main` is "gone" when the duration ended the process and "killed"
when a signal did. Byte counts go with packet counts and are left out, as are
the client's own reports and the difference to the last report.

### PressSender

`interval` is `reporter_interval` (option `-i`, a second when it is less): the timer
runs `onManagerModel` that often, and the duration is looked at there and nowhere
else (`PressModel.cpp:261`). A test ends with the first report that finds its
duration over (`LastReport`): with `-i 3 -t 10` after 12 seconds, with `-i 60 -t 10`
after 60, where the `README.md` of the repository says of `-t` (line 136) that it is
the time to transmit for. `EndsOnTime` is stated for what the code does.
`ReceiveOnly` is a raw or npcap process with a `blksize` of 0.
`mode` selects one of the four senders, which share their actions where the
code repeats itself. Time is in ticks, `wake` is the end of the `usleep` a
thread is in. A thread that can run does so before the next tick, except that a
send may block for any time: without some such assumption nothing can be said
about a rate or a deadline, and this one is what an idle machine gives. The
handler of a signal runs on the main thread between any two of its steps.
`TotalsAreTrue` and `EndsOnTime` name what the code does not promise: a raw
sender that is paused never starts again within the test, a signal leaves up to
20 packets of npcap's queue counted and unsent, a queue whose transmission
fails is dropped, `PressClient::onError` exits after 100 ms without a summary.
Two threads may print and exit side by side. The overflow of the bytes of a
window (`uint32_t`, from 4096 MB/s on) is not modelled.

### SendBuffer

A byte is a number, so `given`, `sent` and `buf` say what became of each. One
`Flush` is one call of `flush_b`: the kernel takes a part of what it is offered
(`Room`) or refuses. `timer_b` is `Timer`, `elapsed` the ticker of the send
timeout, which is left running while there is nothing to send, and `waited`,
a history variable, the time the kernel has really taken nothing. Nothing in the
program calls `SetSndType` (the call in `PressModel.cpp:97` is commented out), so
this is the behaviour of the library, not of the tool. Two things it does that
no comment rules out are modelled and not judged: `flush_b` uses `_sock_fd`
without a look (`crashed`, `Socket.cpp:1207`), and the buffer outlives its
connection, so that its rest goes to the next peer. `_sendable` is always true:
nothing calls `startWriteAbleEvent`.

### Kcp

A segment's data is `<<i, j>>`, fragment j of message i. Time is what is due:
`Expire` lets the `resendts` of a segment pass and `ProbeExpire` `ts_probe`;
timestamps and round trip times only say how soon. `KcpClient` turns the
congestion window off (`nocwnd = 1`), so `cwnd` is left out. Sequence numbers are
modulo `SnMod` and begin below a wrap. The network loses, duplicates, overtakes
and delays, `MaxFaults` times. Counters that are only compared with a limit
(`fastack`, `xmit`) are counted no further than that limit. `ParseFastack` leaves out
the comparison of timestamps (`ikcp.c:633`, `810`): the model resends early in more
cases than the code. `SendMsg` is one step. In the program the client's request goes
through `ikcp_send` on the main thread (`RawFileModel.cpp:49`, `KcpClient.cpp:109`)
while the timer of the poller may be in `ikcp_update`, without a lock: what the
properties say of that first message holds when the two do not meet.

### KcpRestart

One more action on `Kcp`: a client process ends after a transfer and another is
started, with `NewKcb`, while the server keeps its control block.

### Logger and LogFiles

`LogFiles` is the directory: for each day and slice the messages in it, with
`changeFile` (a new slice or a new day), the scan of the directory at the start,
and `clean`. `Logger` adds the threads. A message is made (with its time),
locked, queued, posted; the writer's thread waits, swaps and writes. `exiter` is
the thread in `exit()`, which destroys the writer: the main thread, another one,
the poller, or the handler that interrupted the main thread. The process may be
killed, and started again on the same files. What `FileChannel` leaves out here:
more than 99 slices a day, whose names sort wrongly ("%02d"), and a `maxDay` of
one, with which `clean` would delete the open file at midnight (`MaxDay > 1` is
assumed). Two threads that log at midnight may have made their messages in one
order and queue them in the other (`mixed`), and a handler that interrupts the
main thread inside the writer may wait for a mutex its own thread holds
(`Interrupted`); both are excepted by name. `~Logger` resets `_writer` while
other threads may be about to use it (`Logger.cpp:88`); this is left out.
`Write` makes a message durable at once: the code flushes the stream of a file for
messages with a line feed only (`Logger.cpp:434`), and a `FileChannel` whose file
cannot be opened (`Logger.cpp:579`, `629`) drops messages; neither is modelled.
nethello itself adds console channels and the base of `FileChannel` only.

## Runs

| run | bounds | shows |
|---|---|---|
| `event_loop` | two callers, three tasks, a pipe of 2 bytes read 1 at a time, one other descriptor | no lost wakeup, one runner, order, all tasks run, the destructor returns, the refinement of `TaskExecutor` |
| `delay_tasks` | two timers, delays 1 and 3, time up to 5 | none lost, early or overslept (`TimersKept`), each runs |
| `sticky_packet` | four messages of lengths 2 (a bare header), 3, 5 (more than the buffer), 7 (too long); buffer 4, limit 6 | `Framing`, the refinement of `MessageStream`, delivery |
| `file_transfer` | two clients, `Word` = 4, chunks of 2, a window of 2; one has a file that is empty, a chunk and a half, or longer than `Word` (three chunks), resized once, and meets every fault; the other a file of one chunk, sent to the same path or to another | the file pointer, exactness (`Exact`), the end of a transfer, a failed sender is heard |
| `sockets` | one socket that connects, one that is accepted, one descriptor number for both, data once | events, registrations and descriptors stay together (`DescriptorsKept`), one answer per connect and no connect without, one end reported and none unreported, accepting resumes |
| `udp_server` | two peers, three datagrams each, a buffer of two, one refused reply | order, nothing lost in the server, nothing handed to the wrong session but strays (`Accounted`), all read while no reply is refused |
| `press` | two clients of a UDP or a TCP server, two packets each, end by duration or Ctrl+C | counted once and complete UDP totals (`Counted`), real loss, sessions leave the map |
| `press_sender` | all four senders with and without a limit, windows of 3 ticks, a second of 8, two seconds of test with a report every 8 or 12 ticks, five packets, two received, a send or the connection fails | true totals, the limit, the end at the first report after the duration |
| `send_buffer` | packets of 1 and 3 bytes, buffers of 2, room for 2 in the kernel, 8 bytes over two connections, a timeout after 4 periods | the stream, real timeouts, nothing stays in the buffer |
| `kcp` | two messages of one or two segments one way, windows of 3, two faults anywhere, sequence numbers that wrap | nothing forgotten (`Retained`), windows, reliability (each direction a `MessageStream`), arrival |
| `log` | two logging threads and a handler, three messages, three days, slices of one message, two slices kept, two lives of the process | nothing lost, no gap, the exit ends |
| `kcp_restart` | as `kcp`, no faults, the client restarted once | the finding: the next file is acknowledged and thrown away |

Why the bounds are enough: a pipe of two bytes is full, part-drained and empty
within a run; two callers and the loop give every pair of threads that can meet
at the list; three tasks fill a batch while another waits. Two timers are enough
for one to be added, repeated or cancelled during the callback of the other.
Four messages of four lengths put every boundary (header cut, body cut, buffer
exactly full, larger, refused) next to every other. A file of three chunks has
a first, a middle and a last message, and with a window of two the sender
blocks before the end.

One descriptor number for two sockets makes every close followed by a connect or
an accept reuse it, with the event of the closed file still in the array, and
makes accept run out of descriptors; two peers are enough for one to be the
stray in the other's socket; two sessions are enough for one to leave while the
other is asked, and for one to fail while the other transfers.

Two messages of two segments fill the window of three and leave one waiting; two
faults are enough to lose a segment and then its retransmission, or the
acknowledgment of a segment and then the message that opens the window. A
packet that is larger than the buffer and the room of the kernel is cut twice.
Three messages with slices of one are enough to go over the slices that are
kept, and two lives to find those of the first.

`kcp_restart` is reported as a finding. It is the only run that is expected to
fail.

The models behave like the code in other places where it does not do what a
comment beside it says, and the properties are stated so that they hold there:

- `assert(times)` in the receiver (`FileRecv.cpp:265`) is on whole milliseconds,
  and a short file takes none: a debug build aborts.
- A datagram of another peer is left in the buffer and handed on with the next
  (`UdpServer.cpp:272`): `Accounted` excepts strays.
- The totals of a TCP test lack the sessions that ended (`PressModel.cpp:160`):
  `Counted` is about the periods, and the totals over UDP.
- `FileSend` gives the send loop to a second `EventLoop` that was never started,
  so `async` runs it on the epoll thread (`FileSend.cpp:157`): a reply of the
  server waits until the loop ends.
- Two clients that name one path write over each other and are both told that
  their file is complete (`FileRecv.cpp:165`), and so is one whose file `fclose`
  could not finish (`FileRecv.cpp:255`): `Exact` excepts both by `OwnFile`.
- The duration of a test is looked at in the reports only (`PressModel.cpp:261`):
  `EndsOnTime` is about the first report after it.
- A send that stopped half-way counts as whole (`FileSend.cpp:225`), and
  `st_size` goes into a `uint32_t` (`FileSend.cpp:51`): `Expected` leaves out
  both.
- `ECONNREFUSED` ends the read loop of an edge-triggered socket
  (`Socket.cpp:333`): `QueuesDrained` is stated without refused replies.
- The signal handler works on the counters and the map beside the loop thread
  (`PressSession.cpp:94`, `TcpServer.cpp:229`): `Counted` is stated for the
  time before the signal.
- The loss of a period is an unsigned difference (`PressModel.cpp:239`), which
  wraps when a packet comes one period late; `LossIsReal` is about the total.

`CHECK_DEADLOCK FALSE` is given for the file transfer, whose processes end or
wait for ever when a transfer is over, and for the log, whose process ends or,
when `Interrupted`, hangs. The other models run on, or say explicitly that they
have ended (`Destroyed`, `Stopped`).

## Fairness

- `EventLoop`: a thread inside `async` finishes it, the loop thread and a
  destructor once begun go on. Nobody is obliged to call or to destroy.
- `DelayTasks`: time passes, the loop runs. `RunPosted` is strongly fair: the
  pipe is reported along with whatever else is ready, so other sockets do not
  keep it waiting (shown in `EventLoop`, where one `epoll_wait` reports all).
- `StickyPacket`: the loop goes on reading while there is something to read.
  Edge-triggered epoll justifies it because `onRead` reads until `EAGAIN`.
- `FileTransfer`: the epoll threads run, one of the clients' at least: fairness
  is of all steps together. Faults are never obliged to happen.
- `Sockets`: the loop goes on. `EpollWait` is strongly fair because the retry of
  an accept comes 100 ms later and cannot keep the loop from waiting for events;
  `RunDelete` because the pipe is reported with whatever else is ready. A sender
  lets go of the session it locked. The network and the owners need do nothing.
- `UdpServer`, `PressTest`: the loop thread reads, runs tasks and timers.
- `SendBuffer`: the timer fires, time passes, a peer that reads makes room. One
  that stalls need not: that is what the timeout is for.
- `Kcp`: the timer calls `ikcp_update`, the handler `ikcp_input`, the
  application `ikcp_recv`, and time passes. The first three are written as
  `[]<>~Can \/ []<><<Act>>_vars`, which is weak fairness with `ENABLED` spelled
  out as the condition it amounts to. Faults stop after `MaxFaults`.
- `Logger`: the writer's thread runs, and each thread goes on once it has begun
  a call; mutexes are not assumed fair.
- `PressSender` has no fairness: `EndsOnTime` is a bound on its clock.

## Proofs

`EventLoopProofs` holds for any sets of threads and tasks and any pipe:

- `EventLoopTypeOK`: `TypeOK` is inductive.
- `EventLoopNoLostWakeup`: `NoLostWakeup` speaks of the moment before
  `epoll_wait` only. The inductive `WakeupInv` says where the wakeup is at any
  moment: while the list is not empty, a thread is about to write, or the pipe
  holds a byte, or the loop has yet to take the list; and a byte in the pipe
  keeps the pipe on the ready list unless the loop is already draining. It is
  here that the order of draining, taking the list, unlocking and writing
  matters.
- `EventLoopSingleRunner`: `RunnerInv` adds that a non-empty batch belongs to
  the loop in its task loop, or to the destructor in its own.
- `EventLoopFifoExactlyOnce`: every step is a step of `TaskExecutor`, or
  stutters, when `waiting` is `batch \o list`. Swapping needs an empty batch,
  which `RunnerInv` gives.

`StreamProofs`, about `StickyPacket`, holds for messages of any lengths, any pieces and any
sizes of the buffer:

- `StickyPacketFraming`: `Framing` needs to know where in the stream the code
  is. The inductive `IInv` adds `Layout` (the messages follow one another, each
  as long as a header says), `Behind` (what was delivered are the first
  messages, and `front + offset` is where the next begins) and `Progress` (there
  is room wherever `onRead` reads, and a dispatch begins with a whole message).
  From `Behind`, `NextHeader` shows that the header the code reads is always that
  of the next message; `Progress` is why the buffer is never full at
  `recvfrom`, whose 0 would pass for the end of the stream.
- `StickyPacketInOrder`: every step is a step of `MessageStream` or stutters.

`StreamProofs`, about `SendBuffer`, holds for any packets, buffers, delays and patience:

- `SendBufferKeepsStream`: `StreamKept` is inductive as it stands; the work is in
  the lemma that cutting a sequence anywhere and joining it again is the
  sequence, whatever part the kernel took.
- `SendTimeoutIsReal`: the inductive `TickerBounded` relates the ticker, the
  clock of the timer and the time really waited.

`EventLoopProofs`, about `DelayTasks`, holds for any timers and any delays that are not zero:

- `DelayTasksKeepTimers`: `TimersKept` is about the moments a timer runs and the
  loop waits. `IInv` adds `Once` (a timer is in one place: posted, in the map, in
  the copy, or running, as its `state` says), `Flushing` (the copy and the running
  task belong to a flush, and what runs is due) and `Reckoned` (what is added in a
  flush is due after it, and the delay the loop waits for ends no later than the
  first entry is due, reckoned from a time that is not later than now). That the first entry of
  a map exists is shown from the order of the naturals.

`FileTransferProofs` holds for any clients, files, chunks and windows:

- `FileTransferNoWildFile`: whether `_write_file` may be used when DATA or END
  comes is decided several messages earlier. `Opened` says it at every moment: a
  client that got an RSP which lets it send, or is in its loop, or has DATA or
  END on the way, has a server whose `fopen` has run. `Fresh` gives it at the
  start of a connection.
- `FileTransferExact`: for a transfer that is as expected, the bytes stand in one
  line: `Wrote` (what the server wrote is a beginning of the file), then the DATA
  messages under way, which join (`Chain`, made of `Linked` and `Ends`), then what
  the client has not read, whose count it keeps (`Counts`). `Stage` and `Purpose`
  say what may stand at the head of the queue in each state of the session, so
  that no check of `procFileData` fails. The work is in sending: whether END
  follows the last whole chunk or one that was cut, the line stays closed. The disk
  comes on top: `DInv` adds `Held`, that a file of a session's own holds what the
  session gave to `fwrite`, and is kept because an `fopen` of one path makes every
  session that has it open a writer, so that no write of another session
  (`DataDisk`) reaches a file of one's own.

`SocketsProofs` holds for any sockets, connections and descriptor numbers:

- `SocketsNoStaleEvent`: `Marked` is the reason `_event_cache_expired` exists: an
  event in the array that was not marked is of the file registered under its
  number, because whatever takes a registration out marks the number, and a
  number is only registered anew while it is free.
- `SocketsDescriptorsKept`: `Watched` says that what is registered has its SockFD,
  so that letting the SockFD go always takes the event out; `Kept` that every
  open file has a Socket that is alive or on its way to the loop to be deleted;
  `Untouched` that a socket not opened yet has none of it. The retries of `accept`
  are bounded by `Retrying`: each stands for an edge of the listener.
- `SocketsHeardOnce`: `Watched` and `InCallback` carry that a socket which waits to
  be connected has had no answer, `Once` that `_err_emit` goes with the report.

`UdpServerProofs` holds for any peers and datagrams:

- `UdpServerAccounts`: `Making` and `Watched` say which socket may have events,
  `Sorted` that the server's socket is read empty before an event of a session
  is looked at, so that none of its datagrams is there when it is removed,
  `Strays` and
  `Foreign` that whatever is left in the buffer of a session had strayed, `Kept`
  where each datagram is.
- `UdpServerInOrder`: the datagrams of a peer stand in one line as well (`Line`):
  what its sessions were handed, the one a session is being made for, what the
  server's socket holds, what its own socket holds, each part in order and below
  the next. It rests on `Sorted`, and on `Aside`: until the kernel gives the peer
  to its own socket nothing is there.

`LoggerProofs` holds for any threads, messages and lives of the process:

- `LoggerLosesNothing`: `Ledger` says that what was accepted is what was written,
  what is being flushed and what is pending, in this order; `Places` which of
  these lists are empty wherever the writer's thread is. `Recent` (no message is
  older than yesterday) and `Bounded` (there is a last slice) are what the types
  of the files need.
- `LoggerHasNoGaps`: the slices cut the end of what was written into `Pieces`, in
  the order of their names, each beginning where the one before it ends. That a
  message keeps them so needs the slice it goes to to be the last (`Opened`; before
  the first message of a process, `First`), which rests on `Rising` (what waits is
  in the order of the days) and `Past` (nothing is of a day to come), and so on
  `~mixed`. `KeptIsTheEnd` says that what `clean` leaves is the end of the order
  and not too much, `Flattened` that slices listed by name are one sequence.

`PressProofs`, about `PressSender`, holds for any packet size, window, budget,
duration and queue, in every mode:

- `PressSenderInvariant`: the inductive `IInv`. `Sums` places the one packet that
  the system took and the code has not counted; `Frames` and `Queue` bound what is
  counted and what npcap holds; `Timed`, `WindowOver`, `Paused` and `Drained` say
  how the clock of the sender and of the poller's thread lie to each other, which
  is what a test cannot fix: at the summary the window in which the sender was
  stopped is over, unless it is paused, and then it sleeps beyond the end.
- `PressSenderTotals` and `PressSenderEnds` follow from it, `Printed` and `Timed`
  being the reasons. The bound of `EndsOnTime` also needs where the reports are:
  every one is a multiple of the interval, and none that finds the duration not
  over lies beyond `LastReport` (`FirstRoundAfter`, `LastReportIsReached`), for any
  interval of a second or more. `PressSenderBandwidth` follows from `Rate`: some number of
  windows is over, each with its ticks, and what was counted fits into them.

`PressProofs`, about `PressTest`, holds for any sessions and packets:

- `ReceiverInvariant`: the inductive `ReceiverInv`. `Given` bounds what the
  sessions received by what has left the network, `IndexCovers` by the
  indices they have seen, summed over the sessions; `OncePerPeriod` says that a packet
  is in the total or in the counter of its session, and that an increment under
  way has loaded a counter nobody has cleared since.
- `ReceiverCounts` and `ReceiverLoss` follow: since the indices cover what was
  received, index less count is never negative, and since they are at most what was
  sent, it never exceeds what is missing. The sums are `Total`s over the set of
  sessions, about which the module proves what it needs (one summand changes, all
  grow, two sums are added) from the definition of `MapThenSumSet`.

`KcpProofs` holds for any two peers, windows, mtu, messages and faults, with
sequence numbers modulo any number large enough for the windows:

- `KcpWindows`: `WindowsHold`, with `TypeOK`. Distances are modular, so the proof
  begins with what `_itimediff` is: of the two distances the one below half of the
  range, additive as long as the sum stays there (`DiffIs`, `DiffTri`,
  `DiffPlus`). In the inductive `Windows` each control block is `Sound`: its
  segments are finitely many, each number occurs once, what is in flight lies
  between `snd_una` and `snd_nxt`, and `snd_nxt` in the window. From this follows
  that `ikcp_shrink_buf` has a first segment to take `una` from, that a segment
  list in the order of the numbers exists, and that moving to `rcv_queue` leaves
  no segment behind the window. `ikcp_input` goes through a datagram, and
  `ikcp_flush` fills datagrams, with a fold; that a fold keeps what its step keeps is
  `InputFold` and `PackFold`, from the recursive function in the definition
  of `FoldLeft`.
- `KcpRetained`: `Retained`, and `KcpReliable`: `Reliable`, the refinement of
  `MessageStream` in each direction. Both have the hypothesis `UsesLessThanHalf`:
  the segments a side sends take less than half of the sequence numbers, for a
  datagram that is delayed until the numbers have gone round once is taken for a
  new one. With 2^32 numbers and `IKCP_WND_RCV` of 128 that is sixteen million
  messages of the greatest size. The run satisfies it (4 of 16 numbers), and its
  numbers pass from 15 to 0.

  The inductive invariant is `Windows` and `Flow`. `Flow` says that there is a
  stream of fragments for each side, into which its messages are `Chopped`, such
  that every place the program keeps a fragment agrees with it: `snd_queue` is
  its end, `snd_buf` and the data under way carry the fragment their number
  stands for, `rcv_queue` is the part from the next message on up to `rcv_nxt`,
  and `rcv_buf` pieces beyond. What has left `snd_buf` has `Arrived`, and so has
  all that `acklist`, or an acknowledgment or `una` under way, claims. That is
  what a late or lost acknowledgment could break, and why neither `Retained` nor
  `Reliable` is inductive alone. The streams are witnesses in the proof, not
  state of the model: they grow in `ikcp_send` and in no other step. `RecvFlow`
  also shows that what `ikcp_recv` merges is the next message that was sent,
  whole, because `frg` is 0 in its last fragment and in no earlier one
  (`TakesMessage`); the step is then `Deliver` of `MessageStream`. By the
  hypothesis, modular distances are differences of offsets in the stream
  (`OffDiff`). TLC cannot enumerate the streams, so `Flow` is no invariant of a
  run; what follows from it is.

The assumptions are those of the `ASSUME`s: distinct threads, `Exit` is no
task of a caller, a pipe with room for a byte; headers of at least a byte and
messages no shorter than one, a first buffer that holds a header; packets that
are not empty; delays that are not zero; chunks and windows of at least one; each client has a set of paths; reports come at
intervals of a second or more; the sums of KCP's windows
below half of the sequence numbers, and two peers; a
socket either connects or is accepted, finitely many are, and descriptors are
numbers; more than one day of logs kept. Each is evaluated by a run.

Only model-checked: liveness (`PostedTasksRun`, `ShutdownCompletes`,
`EveryTaskRuns`, `AllDelivered`, `TransferEnds`, `FailureHeard`, `ConnectAnswered`,
`AcceptResumes`, `EndReported`, `QueuesDrained`, `SessionsRemoved`, `Settled`,
`Arrives`, `ExitEnds`), which is beyond the prover.

## Hazards without a property

`PROJECT.json` lists the hazards with the properties that watch them. These are
known and have none:

- `EventLoop.cpp:82`: when the last reference to a poller is dropped on its own
  loop thread, `join` throws and the thread is detached.
- `PressModel.cpp:309`: the bytes of a window overflow from 4096 MB/s on.
- `StickyPacket.cpp:58`: a header whose `uTotalLen` is 0 never advances the
  offset, and the dispatch does not end. The models send headers of the program.
- `TcpServer.cpp:74`: `_last_session` is written by the loop thread and locked by
  the main thread without a mutex.
- `PressSession.cpp:29`: a UDP client started again on its port begins at index 1
  in the session of the old one.
- `TextModel.cpp:95`: the closure refers to a local string that the caller destroys
  10 ms later. A use after free is undefined, and a model could only repeat that
  the sleep may be too short.
- `Socket.cpp:1207`, `KcpClient.cpp:109`: as noted in `PROJECT.json`.

## Not modelled

- *Startup* (`main.cpp`, `CmdLineParse.cpp`): sequential parsing and the choice of
  a mode. Read with care it shows slips no state machine is needed for: `-T` is
  not in the string of short options, the help names `-s` for what is `-f`, and
  a bad interval of `-i` returns -1 where the other cases return `fail`.
- *Text mode*: one send for a line of input; its one hazard is the use of a
  string after its end, which is undefined.
- *TcpSafeClient*, `modifyEvent`, connecting to a host name, KQUEUE: nothing in the
  program uses them, or they are commented out or another platform's.
- *Raw sockets*, *socket utilities*, `File`, `util`, npcap's adapters: each
  function is one or a few system calls, whose outcomes are inputs of the models.
- *TimeThread*: a loop of arithmetic on the system clock; timers and tickers
  compare values of the one clock it makes.
- *Windows branches* (`select`): the same steps with another call.
- Of sockets: failures of `listen` and exceptions thrown by callbacks. Data races
  on plain counters and pointers are modelled where a property depends on them
  (`PressTest`, `PressSender`), elsewhere not.
- *Vendored code* (`common/`, `depend/npcap-sdk-1.13`): third-party, headers for the
  most part. KCP, though vendored, is modelled: the program's transfer over raw
  frames stands on it.

`PROJECT.json` gives the reason for each component.
