# TLA+ models of starry

starry is a C++20 network library: an epoll event loop per thread, timers, TCP
connections, servers and clients, an RPC layer, and under them a logger and a thread
pool. This directory holds TLA+ models of its concurrent core, the TLC configurations
that check them, and TLAPS proofs of its safety properties. `PROJECT.json` lists the runs, the
mutants that show that each property can fail, the source lines that each definition
models, the hazards the properties are aimed at, and the findings.

Run a configuration with `tlc -config X.cfg M` (`M` is the part of `X` before the first
underscore) and the proofs of a module with `tlapm XProofs.tla`.

## Inventory

| Component | State | Operations | Interaction | What makes it correct |
|---|---|---|---|---|
| EventLoop | `looping_ quit_ callingPendingFunctors_ activeChannels_ pendingFunctors_`, the eventfd | loop, quit, runInLoop, queueInLoop, wakeup, doPendingFunctors | every other class hands it functors, from any thread, under `mutex_` | nothing queued is lost, reordered or left to the 10 s poll timeout; quit ends the loop |
| EventLoopThread | `loop_`, the thread, a condition variable | startLoop, threadFunc, destructor | owns a loop that lives on its thread's stack of calls | startLoop returns a live loop; the destructor returns |
| TimerQueue, Timer, TimerId | `timers_ activeTimers_ cancelingTimers_`, the timerfd, heap objects | addTimer, cancel, handleRead, reset | functors of the loop; callbacks add and cancel timers | the two sets agree; what the loop runs, restarts and deletes is allocated; cancelled timers stay cancelled, and no other timer is cancelled with them; due timers fire |
| TcpConnection, Channel, EpollPoller | `state_ reading_ outputBuffer_`, `events_ index_ revents_` | send, shutdown, forceClose, start/stopRead, handleRead/Write/Close, connectEstablished/Destroyed | io loop, base loop, other threads, the peer | the stream keeps its order, FIN follows the output, one up and one down, removed and deleted once |
| TcpServer | `connections_ started_ nextConnId_` | setThreadNum, start, newConnection, removeConnection, destructor | base loop and io loops | the map, the loops and each connection agree; removed once, destroyed on its own loop, deleted when down |
| Acceptor, EventLoopThreadPool | the listening channel; `loops_ next_`, the threads | listen, handleRead; start, getNextLoop, destructor | feeds TcpServer | every client is served; even load; what happens without descriptors |
| TcpClient, Connector | `connector_ connection_ connect_ retry_`; `state_ connect_ channel_ retryDelayMs_` | connect, disconnect, stop, destructor; retry, handleWrite/Error | loop functors and timers | one attempt at a time, no leaked socket, stop is final, connect succeeds in the end |
| Buffer | `buffer_ readerIndex_ writerIndex_` | append, retrieve, makeSpace, readFd | every connection has two | indices stay in order, contents are kept |
| ThreadPool | `tasks_ stop_ running_ maxQueueSize_`, two condition variables | start, stop, enqueue, setMaxQueueSize | worker threads | no lost notification, FIFO, bound, stop returns |
| AsyncLogging | current, next and full buffers; the thread's spare buffers | append, start, stop, threadFunc | any thread appends | no line lost or reordered; spare buffers suffice |
| LogFile | the open file, `count_ lastRoll_ lastFlush_` | append, flush, rollFile | the thread of AsyncLogging writes to it | lines stay in order over the files when the clock is set back; what happens while no file is open |
| RPC (RpcChannel, codec, RpcServer, RpcService) | `outstandings_ id_` | CallMethod, onMessage, doneCallback | on TcpConnection | every response goes to its call |
| Logger, LogStream, Socket, sockets_ops, InetAddress | none that matters | formatting and system calls | | |
| protoc plugin | none | prints C++ | | |

Hard behaviours: functors that are queued from any thread while the loop swaps its queue;
tests of `state_` on one thread and changes on another; objects whose life ends in a functor
of another loop; condition variables; timers against cancellations and reused addresses;
partial writes and half-closed connections. Asserts are active in the default (debug)
build, and `LOG_FATAL` aborts the process.

## Modules

| Module | Models | State and actions |
|---|---|---|
| `TaskQueue` | what runInLoop and queueInLoop, and ThreadPool::enqueue, promise: a FIFO queue | `queue`, `ran`; Submit, RunNext, RunDirect |
| `EventLoop` | eventloop.cpp | `pc` is the place of the loop's thread; one action per step between two points where another thread can interfere. `queueInLoop` and `quit` on other threads take two steps, since the wakeup comes after the unlock |
| `EventLoopThread` | eventloop_thread.cpp; extends `EventLoop` | owner and thread program counters around the loop's own actions; users may quit the loop, and all outcomes of the destructor's unlocked test of `loop_` are there |
| `TimerQueue` | timer_queue.cpp, timer.cpp | a heap of reusable addresses, a clock, the two sets, the timerfd; `handleRead`, `RunTimer`, `reset` split the batch where callbacks run; `Destruct` is the destructor |
| `TcpConnection` | tcp_connection.cpp with channel.cpp, epoll_poller.cpp and the connection's part of tcp_server.cpp | one connection; io and base loops are FIFO queues, which is what `ImplementsTaskQueue` shows of EventLoop; another thread reads `state_`, writes it and queues in three steps. The variable `usage` says what the program calls from which thread, and whether it calls startRead and stopRead on a connection that is closing or down |
| `ByteStream` | what TcpConnection promises to the sender and the peer: a stream that ends once | `taken`, `sent`, `fin`, `closed`; Take, Send, End, Close, TakeLate |
| `TcpServer` | tcp_server.cpp, acceptor.cpp, eventloop_threadpool.cpp | several connections over a base loop and the loops of the pool; each loop is a FIFO queue, an io loop also has the vector that doPendingFunctors swapped out; a connection is its state and its channel; the destructor takes one step per connection and per thread |
| `TcpClient` | tcp_client.cpp, connector.cpp | the Connector's state machine, retry timers with the abort of TimerQueue::reset, the life of the Connector |
| `ThreadPool` | thread_pool.h | workers, enqueuers and an owner; each critical section and each notification is a step; a worker in `Enqueuers` calls enqueue from its tasks |
| `LogFile` | log_file.cpp | the file, whether it is open, what is on disk and what is still in the stream's buffer as a record; each member function is an operator, the constructor with its rollFile included |
| `AsyncLogging` | async_logger.cpp; extends `LogFile` | LoggingSpec; `appendLine` is `append`; the contents of every buffer and which pointers were moved from, a clock that moves both ways, and the thread's LogFile |
| `ByteQueue` | what Buffer promises: a queue of numbered bytes | `bytes`, `next` |
| `Buffer` | buffer.h, buffer.cpp | the vector and its two indices as a record; each member function is an operator on it and each call an action |
| `RpcChannel` | rpc_channel.cpp, protobuf_codec_lite.cpp, RpcServer::onConnection | both ends of a connection; frames arrive in pieces; CallMethod takes three steps on its thread; a service holds `done` as long as it likes |
| `EventLoopProofs` | proofs about `EventLoop` and `EventLoopThread` | |
| `ThreadPoolProofs`, `TimerQueueProofs`, `TcpConnectionProofs`, `TcpServerProofs`, `TcpClientProofs`, `RpcChannelProofs` | proofs about the module they are named after | |
| `BufferProofs` | proofs about `Buffer`, and about `AsyncLogging` with `LogFile` | it extends both; so the names of AsyncLogging that any module has begin with Logging |
| `MC...` | what TLC runs | |

Definitions keep the source's names. Operators whose comment begins with "Mutant" are not
part of a model: each replaces the definition after it in `PROJECT.json`'s `mutants`.

A failed assert, an abort, and the use of a freed object set a variable (`crash`, or
`pc = "aborted"`) and end the behaviour, so that they can be excluded or exempted explicitly.

## Runs

Passing:

| Run | Shows | Bounds |
|---|---|---|
| `loop_thread` | An EventLoop from startLoop to the destructor of its EventLoopThread. NoLostWakeup: while the loop is in epoll_wait every queued functor (but those its own thread queued before `loop()`) and every quit has a wakeup, present or about to be written. ImplementsTaskQueue: refinement of the FIFO queue. QueuedFunctorRuns and QuitLeavesLoop, without help of the poll timeout. startLoop returns a loop that exists; destroying the object while the thread is inside `loop()` joins it | the owner and one more thread, three functors, one of them queued before `loop()`; users may quit: a functor queued while another runs, one in the swapped-out vector and one by a second thread can coexist |
| `timers` | every allocated timer is in one place, queue, batch or functor, so that the loop's thread runs, restarts and deletes none that was deleted and leaks none, and the two sets agree (NoDanglingTimer; it does not speak of the thread that is in addTimer, see below); a cancelled timer does not come back, and a timer leaves the queue only when it expires or its own id is cancelled (CancelIsExact); the timerfd is never later than the earliest timer; due timers fire | two addresses and three timers, so that an address is reused; clock to 2, one repeating interval, two pending functors |
| `conn` | bytes are neither lost nor reordered and FIN comes after them (StreamOrder), the peer sees the stream of ByteStream (ImplementsByteStream), EPOLLOUT is asked for exactly while there is output (WritesWhileOutput); as long as only the io loop uses the connection, and does not turn reading on or off after the close, no assert fails and the user sees one up and one down (NoAssertFails), and shutdown completes; a closed connection is released | five usages: everything on the loop, or sends, closes or start/stopRead on another thread, or start/stopRead whatever the state, with resets (before epoll_wait and after it) and the server's end; messages of two units, high-water mark 3, four units: partial direct writes, partial handleWrite and a second message behind a first |
| `server` | until the server is destructed connections_, the functors in the loops and the state and channel of each connection agree (ConnectionsAgree); a connection is deleted only when it is down, also by the destructor's for loop (DeletedIsDown); the load of the loops differs by one at most (Balanced); a client that connected is served, a connection whose client closed is released over the three hops between loops | pools of 0 to 2 threads, three clients, two descriptors: both loops get a connection and one gets two, and accept fails |
| `client` | sockets are never leaked; with one call of connect and a client destroyed while none of its functors waits there is one attempt or timer at a time and no assert fails; stop settles; connect succeeds, unless the process aborts: when a retry timer that was the only timer fires, TimerQueue::reset calls timerfd_settime with a negative time (`Aborts`) | the real delays 500 to 30000 ms; two calls of connect; other timers may or may not be in the queue |
| `pool` | while a worker sleeps each waiting task has a worker about to look or a notification to come (NoLostNotification); the bound; FIFO order over restarts; accepted tasks run, enqueue and stop return, unless every worker that is left waits inside enqueue (AllWorkersWait), and enqueue also unless setMaxQueueSize(0) was called while it waited: its predicate `tasks_.size() < maxQueueSize_` is then false for good (BoundedWhileWaiting) | two workers whose tasks enqueue too and one more thread, five tasks, bounds 0, 1, 2, set at any time: an enqueuer that waits, one that steals its place, a sleeping worker beside a busy one, and both workers waiting for each other |
| `logging` | no line lost, repeated or reordered over all files except in buffers that are dropped or written while no file is open (NoLineLost), back() is never called on an empty vector (EnoughToRecycle), lines are written | buffers of two lines, of which one is used (append wants more room than the line takes), drop above two buffers (25 in the code), four lines, files that roll after one line or one second, a clock to 2 that may be set back: full buffers, a drop, a roll refused by the clock, a constructor's roll refused and made up for later, a file opened twice, a restart |
| `buffer` | the readable bytes are those of a plain queue (ImplementsByteQueue); the indices stay inside the vector; the vector stays below twice what was asked for (BoundedGrowth) | header space 1, initial size 4, spare array 2, six bytes: moves, growth, headers, reads across the boundary |
| `rpc` | a response reaches the call it answers (Routed); no call is lost while both ends are connected; nothing is handled after an invalid frame; calls are answered | two calls, any set of known methods, message sizes 255 and 256, one bad frame |

A module's types are the first conjunct of its main invariant (NoDanglingTimer, StreamOrder,
NoLostNotification, EnoughToRecycle, NoSocketLeak, Routed, ReturnedLoopIsLive, ConnectionsAgree,
BoundedGrowth).

Violations, each a disagreement of the code with what its own comments, asserts or
documents say:

| Run | What happens |
|---|---|
| `thread_quit` | `loop()` begins with `quit_ = false`. A `quit()` from `~EventLoopThread` between the publication of `loop_` and `loop()` is erased, and `join()` never returns |
| `conn_forceclose_race` | `forceClose()` on another thread tests `state_` and sets it in two steps. If the loop closes the connection between them, it is closed and removed twice: `assert(n == 1)` |
| `server_destroy` | `~TcpServer` queues connectDestroyed on the io loops and destructs the pool right after. A loop that has swapped its functors already sees `quit_`, leaves `loop()` and is deleted with the functor: `~TcpConnection` runs on an open connection, `assert(state_ == kDisconnected)` |

One more disagreement is with `src/README.md:457`, which says that EPOLLOUT is enabled when outputBuffer_
exceeds the high-water mark. sendInLoop enables it whenever anything is left; the mark decides only about
`highWaterMarkCallback_`. The run `conn` passes for what the code does, with one and two units below the
mark of 3, and the README's rule is the mutant of WritesWhileOutput (`mustEnableAboveMark`): output below the mark
would never be written. `PROJECT.json` lists it as a finding.

The models show further behaviour that has no run of its own; `PROJECT.json`'s hazards name
it: in `TimerQueue::reset` a default-constructed Timestamp is compared with `Timestamp::min()`, so
that `timerfd_settime` gets a negative time and `LOG_FATAL` aborts when the last timer has fired
or the next is due already, which ends most retries of a Connector, whose timer is often the only one; `TcpClient::removeConnection` logs "Reconnecting" and deletes the
Connector; `makeSpace` asserts `kCheapPrepend < readableBytes()` where `readerIndex_` is meant, so
a buffer that is moved with eight or fewer readable bytes aborts; a message of 256 bytes or more
fails in `serializeToBuffer`, which compares its size with a `uint8_t`, and aborts; a service that
answers after the connection is down uses a deleted RpcChannel; an unknown method is never
answered; `shutdown()` has the same race as `forceClose()`; `send()` binds a raw `this`;
`~TcpServer` on a half-closed connection fails `Channel::remove`'s assert, and so does connectDestroyed after a startRead in the callback that tells
of the close; a connection that is closed and whose connectDestroyed is deleted with its io loop fails the assert of `~Channel`; a repeating timer
comes back after a thousandth of its interval (milliseconds are added as microseconds);
`addTimer` on another thread reads `timer->sequence()` after it handed the Timer to the loop, which may have deleted it,
and so may return the id of another timer, which a later cancel then takes; a timer whose functor
never ran is not deleted by `~TimerQueue`; `sockets::accept` calls LOG_FATAL on EMFILE before Acceptor can use its
`idleFd_`; the rollFile in LogFile's constructor is refused unless the clock is later than a moment before, and then every line
is lost until a roll is due by the file's age; tasks that enqueue on a full queue can
leave every worker waiting for the others, and stop() with them; an EventLoopThread whose loop was quit
before its destructor ends the process with a joinable thread; an enqueuer that waits for a
free place while the pool is stopped, or while setMaxQueueSize(0) takes the bound away, is left behind; a functor that the loop's own thread
queues before `loop()` waits for the poll timeout.

### Fairness

- `EventLoopThread`: the owner, inside startLoop and the destructor, and the thread are scheduled,
  and so is a thread that is about to write a wakeup. None for the poll timeout, spurious
  wakeups, or users.
- `TimerQueue`: each iteration polls and runs functors, so both are weakly fair. The clock is
  not: a timer that is not due need not become due.
- `TcpConnection`: epoll_wait reports what is ready, in particular a send buffer that has
  room again, and both loops run their functors. Nothing is assumed of the peer.
- `TcpServer`: the base loop accepts and runs functors, each io loop polls and runs functors.
  Clients need neither come nor close, and nobody need start or destruct the server.
- `TcpClient`: functors run, timers expire, attempts end, and (strong fairness) a server that
  is tried again and again accepts in the end. This is an assumption on the environment, and the property
  allows the aborts.
- `RpcChannel`: both loops run, a thread inside CallMethod goes on, services answer. Nobody need
  call or shut down.
- `ThreadPool`: every thread inside the pool's code is scheduled, and tasks return.
- `AsyncLogging`: the thread is scheduled; wait_for returns, by its timeout at the latest.
  The clock need not move.

Deadlock is checked in `pool` and `logging`. The other systems may stop: an
object is destroyed, the process has aborted, or a bound is reached.

## Proofs

Proved is every safety property of the passing runs: invariants, the action
properties QueueBounded, NothingAfterError and (in CancelIsExact) OnlyOwnIdCancels, and the four refinements. The theorems hold for every value of
the constants that satisfies the modules' ASSUMEs; these ask for natural numbers
(a few of them nonzero), for subsets and for `kInitRetryDelayMs <= kMaxRetryDelayMs`, `ThreadPoolProofs` also for finite sets of threads, `RpcChannelProofs` for at least
one call. The theorems with a hypothesis of their own are OneAttemptCorrect and ClosedOnceWithoutRace. Bounds such as
MaxFunctors occur in the guards but no proof uses that they are small.

Most of the properties are not inductive. Each proof module begins with the invariant that is,
as a conjunction of named parts, then has a section of lemmas on the sequences and functions of the model, one lemma that
`Next` preserves each invariant with one step per action, and the theorems. TLC has checked every
inductive invariant on the run's instance before it was proved.

`EventLoopProofs`, for any sets of threads and functors:

- `TypeCorrect`: `Spec => []TypeOK`. TypeOK is inductive; it ties `callingPendingFunctors_`
  to the place in the loop and says that the local vector is empty outside its for loop,
  which the swap needs.
- `NoLostWakeupCorrect`: `Spec => []NoLostWakeup`. Owed to a wakeup is every functor but those of
  `OutsideTasks`, which the loop's own thread queues outside `loop()`. NoLostWakeup speaks of
  epoll_wait only and is not inductive. The invariant follows a pending functor round the loop: what was queued before
  the swap is taken by it; from the swap on (places run, functor, while, poll) whatever is pending
  was queued by another thread, which writes the wakeup after it queued, or by a functor,
  which finds `callingPendingFunctors_` set; and the eventfd is only read in the for loop
  over the channels, which is followed by the swap. For quit the argument is the same with the
  test of `quit_` in the place of the swap.
- `RefinesTaskQueue`: `Spec => TQ!Spec` with `queue <- functors \o pendingFunctors`. The swap
  is a stutter because the local vector is empty there (TypeOK); a push appends to the
  concatenation and a run takes its head, by lemmas on sequences.
- `ThreadRunsEventLoop`: `ThreadSpec => Spec`. Each action of EventLoopThread is one of EventLoop's or
  leaves its variables alone, so the last two theorems carry over: `ThreadNoLostWakeup`,
  `ThreadRefinesTaskQueue`.
- `ReturnedLoopIsLiveCorrect`: startLoop returns only after the publication, the thread deletes the
  loop only after `loop()` was left, which happens only with `quit_` set, and `quit_` is reset
  only on the way into `loop()` (ThreadInv).

`ThreadPoolProofs`, for any finite sets of workers and enqueuers, which may overlap:

- `NoLostNotificationCorrect`. The property compares the number of tasks with the numbers of awake workers and
  of notifications to come (Covered); it is inductive with TypeInv, the types and that no task is
  in two hands (JobStarted, ArgumentsFresh). The work is in lemmas on
  cardinalities: what one thread's move does to each of these sets.
- `QueueBoundedCorrect`: no step takes the queue beyond `maxQueueSize_`; a woken enqueuer tests again.
- `RefinesTaskQueue`: `push` submits, `Take` runs the oldest, everything else stutters.

`TimerQueueProofs`, for any addresses, intervals and functors:

- `NoDanglingTimerCorrect`. OwnerInv says place by place (activeTimers_, the batch of handleRead, functors
  of addTimer) that it holds live timers under their current sequence, that no two places hold the same one
  and that no live timer is outside them; that the batch exists only while callbacks are called; and that no two functors add
  the same timer.
- `CancelIsExactCorrect`, from CancelledStaysCancelledCorrect and OnlyOwnIdCancelsCorrect. CancelInv adds that a sequence belongs to one address and is older than
  the next to be given, so that a reused address does not match; and that a cancelled timer in the batch is in
  cancelingTimers_, where reset finds it. By OwnerInv a timer that a cancel takes from the sets has
  the address and the sequence of the id. The id itself may be wrong, see addTimer above.
- `TimerfdCoversEarliestCorrect`. TimerfdCoversAll says of every timer what the property says of the earliest,
  and also from the wakeup to the start of handleRead. The earliest exists because `<` on
  the naturals is well-founded.

`TcpConnectionProofs`, for any message lengths, high-water mark, bounds and usage:

- `StreamOrderCorrect` and `WritesWhileOutputCorrect` from StreamInv: wire and output together are the units taken so far in
  order, nothing is in the output once FIN was sent, and EPOLLOUT is on exactly while there is output.
  Each needs the others: sendInLoop writes directly only if the output is empty and EPOLLOUT off.
- `NoAssertFailsCorrect`. ConfinedInv describes the three phases of a connection that only its io loop
  and the server have and that is not told to read once it closes: Fresh before connectEstablished, Open, and Closed, with the functors that can wait in each, the epoll
  registration, and where the removal is (base loop, io loop, done). Each handler's asserts follow from its phase. A
  TypeOK that does not bound the queue was needed: the former bound `MaxFunctors + 3` holds on the run's instance and not for all
  constants.
- `RefinesByteStream`: `Spec => BS!Spec` with `taken <- accepted`, `sent <- wire`, `fin <- finSent` and
  `closed <- downs > 0`. By StreamInv the wire is a first part of the stream before and after each step, so it remains to see
  that it only grows, and that whoever shuts down the write side finds no output: shutdownInLoop because EPOLLOUT is off,
  handleWrite because it has just written the rest. TakeLate is a send() that was under way while the
  connection was closed.
- `ClosedOnceWithoutRace`: if the other thread calls neither shutdown nor forceClose, the user is told once
  that the connection is down and the server removes it once, even if that thread sends and the server is destroyed.
  ClosedOnceInv: kDisconnected is final, and before it the removal was not asked for. With either call this is
  false: the run `conn_forceclose_race` shows it for forceClose; for shutdown a callback that calls forceClose after the
  close is needed as well.

`TcpServerProofs`, for any numbers of threads, clients and descriptors:

- `ConnectionsAgreeCorrect`. AgreeInv looks at each loop's line, the vector that was swapped out followed by the queue: every
  functor is in the line of its connection's loop (Placed), once (OnceEach), and every accepted
  connection is opening, up, closing or down with the functors, the map entry and the channel that go with it
  (Lives). The swap does not change a line, a push extends it and a run takes its head.
- `DeletedIsDownCorrect`. DownInv: what has left connections_ has its connectDestroyed coming, or had it; this
  also holds during the for loop of the destructor, where AgreeInv no longer does.
- `BalancedCorrect`. SpreadInv: all loops have n connections, and those that `next_` has passed one more.

`TcpClientProofs`, for any delays and any number of calls and functors:

- `NoSocketLeakCorrect`. SocketInv adds that a removed channel has exactly one resetChannel waiting; with two, the second
  would delete the channel of the next attempt.
- `OneAttemptCorrect`, for clients that are destroyed while none of their functors waits
  (`DestroyAnyTime = FALSE`, as in the run; otherwise the asserts of the Connector can fail); LOG_FATAL may end the process. AttemptInv: one start waiting, one timer, one attempt or one connection
  (AtMostOne); the client holds the Connector while it lives and its 1 s timer does until no functor that is
  bound to the Connector waits (Outlives).

`RpcChannelProofs`, for any number of calls, sizes and invalid frames:

- `RoutedCorrect`. RoutedInv: `++id_` gives no id twice, outstandings_ holds a call under its id from the registration to
  the answer (Registered), whatever travels belongs to such a call (AllCarried) and is in one place
  only (Once): a stream, the other stream, or the service. Without Once a second response would be unknown.
- `NoCallLostCorrect` follows each call that was sent through stream, service and stream.
- `NothingAfterErrorCorrect`. StuckAfterError: the invalid frame stays at the front of the stream until the
  connection is down.

`BufferProofs`, for any header space, initial size and spare array:

- `TypeCorrect`: `Spec => []TypeOK`, the indices stay in order and inside the vector (part of BoundedGrowth in the run).
- `BoundedGrowthCorrect`: `Spec => []BoundedGrowth`. The invariant adds that kCheapPrepend, to
  which retrieveAll resets the indices, is inside the vector. `EnsureGood` carries the argument:
  if makeSpace grows the vector, what was consumed is less than what is asked for, so the
  new size is below twice the contents and the request; if it moves the contents, the reader was
  beyond kCheapPrepend, so they fit and the room suffices. `GrowthBound` lifts this to the peak.
- `RefinesByteQueue`: `Spec => ImplementsByteQueue`. One lemma per member function says what it does to the
  readable bytes (EnsureKeeps, WrittenFollows, ReadFollows, RetrieveTakes, PrependPrecedes, ...), from two facts on
  std::copy: the window that was copied to holds the data, and a window beside it is left alone.

and, for any sizes of buffers, files and intervals and for a clock that moves both ways:

- `EnoughToRecycleCorrect`: `LoggingSpec => []EnoughToRecycle`. SpareInv: nextBuffer_ is used up only after a full
  buffer went to buffers_, so what the thread swaps out has as many buffers as it has to replace; the drop keeps two.
- `NoLineLostCorrect`: `LoggingSpec => []NoLineLost`. The property numbers the places of lines on their way
  (files by name, the stream's buffer, the rest of buffersToWrite, buffers_, currentBuffer_) and compares the lines at any two places; it is stated
  so, and not by concatenating the places, because a concatenation of any number of sequences takes a recursive operator. LinesInv: the lines of each
  place are younger than those of the places before it (InTurn) and together they are all that were not dropped (Complete), where a buffer that is written while no file is
  open (the constructor's rollFile was refused) counts as dropped; no two files
  share a line, and unless a start() found the clock set back they are in the order of their names with the open file last (FilesOK).
  One lemma per operation of LogFile says that it keeps this and which lines it stores (FlushKeeps, RollKeeps,
  CheckAgeKeeps, AppendUnlockedKeeps), one lemma per action that a line moves from one place to the next.

Only model-checked is liveness (the runs' `~>` properties): it rests on fairness, which is beyond the prover.

## Plan

1. Done: every component of the inventory but its last two rows is modelled, and every safety property is proved.
2. What could be added: an abstract specification of TimerQueue as a set of alarms; several other threads that hold
   the same TcpConnection; a Buffer in the place of the output of TcpConnection.

## Not modelled

- Formatting and reflection: Logger, LogStream, InetAddress, RpcService, the names of log files, and the
  protoc plugin, which prints C++. They keep no state that another part depends on.
- Thin wrappers of system calls (Socket, sockets_ops): their outcomes are choices in the
  actions that call them. Socket options are left out.
- The contents of messages: a byte is its place in the stream, an RPC message its id, call and size. So
  `send(string_view)` on another thread, which binds a view of characters that the caller may free, looks the same as
  `send(Buffer*)`, which binds a copy.
- Data races on `connect_`, `state_` and `loop_` are interleavings of whole reads and writes.
- Concurrent calls of ThreadPool's start and stop, and reads of a Buffer that change nothing (findCRLF, peek).
- TcpClient is destroyed only while none of its functors wait (`DestroyAnyTime = FALSE`);
  otherwise its Connector's destructor finds `channel_` set.
- Code that nobody calls or that is not defined: Connector::restart, forceCloseWithDelay,
  getLoopForHash.
