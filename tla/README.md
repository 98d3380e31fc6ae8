# Ymuduo in TLA+

Models, model-checking runs and proofs for Ymuduo, a C++11 rewrite of the
multi-reactor core of muduo. Everything refers to the code in `src/`; the file
`PROJECT.json` maps each definition to the lines it models.

## 1. The system

A `TcpServer` accepts connections on a *main loop* and spreads them over the
*I/O loops* of a thread pool. An `EventLoop` belongs to one thread. Every object
bound to a loop is touched by that thread only; other threads hand the loop a
callback (`runInLoop`, `queueInLoop`) and wake it through an eventfd.

| Part | State | Operations | Talks to |
|---|---|---|---|
| `EventLoop` | `quit_`, `pendingFunctors_` (under `mutex_`), `callingPendingFunctors_`, `activeChannels_`, the eventfd | `loop`, `quit`, `runInLoop`, `queueInLoop`, `wakeup`, `handleRead`, `doPendingFunctors` | poller, channels; called by any thread |
| `EventLoopThread`, `Thread` | `loop_` (under `mutex_`/`cv_`), `tid_`, the semaphore of `start` | `startLoop`, `threadFunc`, destructor | holds an `EventLoop` on the thread's stack |
| `EventLoopThreadPool` | `threads_`, `loops_`, `next_` | `start`, `getNextLoop` | `TcpServer` |
| `Channel`, `EPollPoller` | `events_`, `revents_`, `index_`, `tie_`; `channels_`, the epoll set | `enable*`, `disable*`, `remove`, `handleEvent`; `updateChannel`, `removeChannel`, `poll` | callbacks into `TcpConnection`, `Acceptor`, `EventLoop` |
| `TcpConnection` | `state_` (atomic), `outputBuffer_`, `inputBuffer_` | `send`, `shutdown`, `handleRead/Write/Close/Error`, `connectEstablished`, `connectDestroyed` | its channel and loop, the server's `closeCallback_`, user callbacks |
| `TcpServer` | `connections_`, `started_`, `nextConnId_` | `start`, `newConnection`, `removeConnection`, `removeConnectionInLoop`, destructor | all of the above |
| `Acceptor` | `listening_`, `idleFd_` | `listen`, `handleRead`, destructor | `TcpServer::newConnection` |
| `Buffer` | `readerIndex_`, `writerIndex_`, storage | `append`, `retrieve*`, `readFd`, `writeFd`, `makeSpace` | `TcpConnection` |
| `Logger` | `logLevel_`, shared by all threads | `setLogLevel`, `log` | everybody |
| `Socket`, `InetAddress`, `Timestamp`, `CurrentThread`, `DefaultPoller` | none shared | system calls and conversions | |

What is hard here, and what it takes to be right:

* **EventLoop.** Pushes, wakeups, `quit_` and the swap of the pending vector
  interleave freely. No callback may be lost, repeated, reordered or left
  waiting while the thread sleeps; `quit()` must end the loop.
* **EventLoopThread.** The pointer to a stack object of one thread is published
  to another and withdrawn while the other may be using it. `startLoop` and the
  destructor must return, and nobody may see a dead loop.
* **TcpConnection.** An object shared by two loops, user threads, the kernel and
  reference counts. Bytes must stay in order through partial writes, FIN must
  follow the data, UP and DOWN must pair, and the object must die exactly when
  nothing refers to it, in state `kDisconnected`, and out of the poller.
* **Channel/EPollPoller.** `index_`, `channels_` and the kernel's set are three
  copies of one fact.
* **TcpServer, EventLoopThreadPool, Acceptor.** Several threads may call
  `start()`. The removal of a connection hops from its loop to the base loop and
  back, and races with the server's own destruction. A descriptor is used again
  as soon as its connection is freed. The map, the two reports to the user and
  the object's life must keep one order.
* **Buffer.** Index arithmetic on `size_t`, a vector that is compacted or grown,
  and a read that is split in two. Bytes must come out as they went in, and a
  buffer that is never quite drained must not grow for ever.
* **Logger.** A level shared by all threads without a lock.

The hazards, each at its line and with the properties that cover it, are listed
in `PROJECT.json`.

## 2. Modules

| Module | What it is |
|---|---|
| `TaskQueue` | abstract specification: a FIFO executor that is open until it is closed |
| `EventLoop` | one loop and the threads that use it; implements `TaskQueue` |
| `EventLoopProofs` | theorems about `EventLoop` |
| `EventLoopThread` | `EventLoop` between construction and destruction on its thread's stack, with the owner that starts and destroys it |
| `EventLoopThreadProofs` | theorems about `EventLoopThread` |
| `ConnectionTable` | abstract specification: the connections of a server, each made, reported up, reported down, removed from the map and freed |
| `Channel` | a channel and its entry in the poller, as operators on a record |
| `TcpConnection` | one connection in detail, with its server, I/O loop, socket and user threads; uses `Channel`, implements `ConnectionTable` |
| `TcpServer` | the server, its acceptor, its pool, all its loops and several connections; uses `Channel`, implements `ConnectionTable` |
| `QueueProofs`, `ChannelProofs` | lemmas about queues of functors and about the operators of `Channel` |
| `TcpConnectionProofs`, `TcpServerProofs` | theorems about `TcpConnection` and `TcpServer` |
| `ByteQueue` | abstract specification: a FIFO of bytes |
| `Buffer` | the vector and its two indices; implements `ByteQueue` |
| `BufferProofs` | theorems about `Buffer` |
| `Logger` | the shared level and the threads that log |
| `MCEventLoop`, `MCEventLoopThread`, `MCTcpConnection`, `MCTcpServer`, `MCBuffer`, `MCLogger` | instances for TLC |

How they fit together. `EventLoop` shows that a loop is a FIFO executor that never
sleeps on work; `TcpConnection` and `TcpServer` build on that and keep of a loop only
its events, its two vectors of functors and its end. `TcpConnection` and
`TcpServer` look at the same code from two sides, all of one connection and a
little of each of several, and both are shown to implement `ConnectionTable`.
`Buffer` implements `ByteQueue`, which is why `TcpConnection` may treat
`outputBuffer_` as a sequence of bytes.

### EventLoop

`pc` says where the loop thread is in `loop()`/`doPendingFunctors()`; the other
threads are either inside `wakeup()` or elsewhere. Steps are cut where another
thread can tell the difference: push and wakeup are two steps, the store of
`quit_` and its wakeup are two steps. `callingPendingFunctors_` is derived from
`pc`: other threads never read it, because `!isInLoopThread()` comes first in
the test. `runInLoop` is `queueInLoop` on another thread and plain user code on
the loop's own. The eventfd is a counter with a limit (`MaxCount`): a write at
the limit fails, as it does for a non-blocking eventfd. `InitTasks` are the
callbacks queued by the loop thread before it enters `loop()`.

### EventLoopThread

Extends `EventLoop` with the owner thread (`opc`), the new thread outside
`loop()` (`thr`), the published pointer and the existence of the `EventLoop`
(`alive`). The critical sections under `mutex_` are single steps; the
destructor's two reads of `loop_`, made without the lock, are separate steps.
Callbacks may call `quit()` on their own loop; the history variable `ownQuit`
records that one did, since the properties of the destructor and of `startLoop` do
not hold then. `InitTasks` are here what the `ThreadInitCallback` queues.

### TcpConnection

The I/O loop appears with its two vectors (`pendingFunctors_` and the batch
`functors`), because a `TcpConnectionPtr` bound in a functor lives until the
batch ends. The main loop is a counter of queued `removeConnectionInLoop`. A
handler runs in one
step, since only the I/O thread touches what it touches; `state_` is the
exception, so a user thread's test and store of it are steps of their own.
`handleEventWithGuard` is cut at its calls: the kernel and other threads may act
between them. User code in callbacks may send, shut down and pass a handle to
another thread. `Referenced` is the reference count: the destructor is a step
that becomes possible when no `TcpConnectionPtr` is left. `sendInLoop` and
`shutdownInLoop` functors do not count, as they bind `this`.

The socket is the environment: data, FIN and RST may arrive at any moment, a
write takes any part of the data, may fail for the moment (EAGAIN, EINTR: logged, and
tried again at the next EPOLLOUT), and fails for good once the write side is shut
or the peer has reset. A user thread may drop its handle at any time, also while
what it queued still waits. EPOLLHUP, EPOLLERR, EPOLLIN and EPOLLOUT are computed
from that. SIGPIPE is taken as ignored by the application; the library does not
do it itself. The caller of `send()` is taken to leave its string alone until the
loop has read it: the code binds a pointer into it.

### TcpServer

Loop 0 is the base loop, the others are the pool's. A loop is polling, handling
the channels poll returned (`active`, the bare pointers of `activeChannels_`),
running a batch of functors, or gone. A handler and a functor are one step each:
only the loop's own thread touches what they touch, and what they hand to
another loop is a functor in that loop's vector. `runInLoop` on a connection's own
loop runs at once, so a server without I/O threads takes the shorter path through the same
functions. A connection is reduced to what the server sees: its descriptor, loop,
channel, state, the reports made to the user and whether its peer has left, which its
loop sees as an event that leads to `handleClose`.

`start()` is cut into the test of `started_`, one step per thread of the pool, and
the posting of `listen`; it may be called by any starter at any time before
`~TcpServer`: on a server that listens already, in a callback of the base loop, or after
`loop()` has returned. The starters interleave with each other and with the base loop. The
destructor runs on the main thread after `loop()` has returned, one connection and one
thread at a time, followed by the destruction of the base loop; meanwhile the I/O loops
go on.

An I/O loop is `"started"` when `startLoop` returns: its pointer is published and others
queue functors on it, but its thread has still to call `loop()`, which resets `quit_`
(`EnterLoop`). A destructor that comes before that loses its `quit()`, and its
`join()` waits for ever. The model has these behaviours, as it has those in which the
`quit()` of the base loop comes before its `loop()` and is lost; the safety properties
cover them, and `DestructionFrees` says for which destructions it promises an end.

A connection is freed in a step of its own once nothing holds its
`TcpConnectionPtr`: the map, a functor that waits or runs, one of the batch that
has run, or the application, which may keep one of them. Freeing it closes the
descriptor, and the next `accept` may get the same number. `accept` may succeed,
fail and be logged, or end the process (EMFILE and the errors of `Socket::accept` that are
`LOG_FATAL`). The process is then over, as it is when `listen` fails (`ListenFatal`), or
an assert or an `epoll_ctl`.

### Buffer

A record with the vector, its size and the two indices; every public operation
is a step, as only one thread uses a buffer. A byte is its number among those ever
put in, so a byte lost, repeated or made up shows in the refinement. `readFd` reads
any number of bytes up to what the two iovecs offer; `writeFd` gives any number
of bytes to the kernel. A failing `readv` or `write` changes nothing.

### Logger

Each macro is three steps: the store of the level, the tag (`log` reads the
level), the text. Other threads may act in between. `LOG_FATAL` ends the process.

## 3. Runs

| Run | Question | Answer |
|---|---|---|
| `loop` | Can the loop thread block on a posted callback or on a quit? Is the loop a FIFO executor? Does every posted callback start, and `quit()` stop the loop, without the poll timeout? | no; yes; yes |
| `thread_lifecycle` | Is the published pointer good and `tid_` known? Do the callbacks of the `ThreadInitCallback` come before everybody else's? Do `startLoop` and (once `loop()` is entered) the destructor return, with the thread gone? | yes |
| `thread_lostquit` | Does the destructor always return? | **no**: `quit_` is reset by `loop()` |
| `conn_callbacks` | An application that stays on the I/O thread, with `~TcpServer` at any moment: stream, EPOLLOUT, FIN, poller, the order of `ConnectionTable`; is the connection freed when its peer leaves, does `shutdown()` lead to FIN, and output that drains to `writeCompleteCallback_`? | all right |
| `conn_threads` | Other threads send and shut down, and drop their handles when they like: what survives? | stream order, EPOLLOUT, FIN after data; a freed connection is reached by functors that bind `this` and by nothing else (those: `conn_rawthis`). Not `DestroyedOnce`, see `conn_closedtwice` |
| `conn_halfclosed` | Does the destructor's assert hold after `connectDestroyed`, with `~TcpServer` at any moment? | **no**: a `kDisconnecting` connection stays so |
| `conn_closedtwice` | Is `connectDestroyed` called only once? | **no**, after a shutdown race |
| `conn_rawthis` | Do functors only run on live connections? | **no**: they bind `this` |
| `buffer_queue` | Is a `Buffer` a FIFO of bytes, with indices in order and memory in proportion to its load? | yes |
| `server` | Several connections, loops and starters, descriptors used again, destruction: does the server listen once and after `startLoop` has returned for the whole pool, choose loops round-robin, run each functor on the right loop, keep no pointer to a dead channel, and treat each connection as `ConnectionTable` says? Does `start()` lead to listening, a client that leaves to its descriptor being free, the destructor, if the I/O threads have come into `loop()` before it tells them to quit, to its end with nothing left? | yes |
| `server_dropped` | Does the destructor's assert hold for every connection of a server that is destroyed? | **no**: a loop that quits drops the `connectDestroyed` queued last |
| `logger_tags` | Does a message appear under its own level? | **no**: the level is shared |

The runs marked **no** refute something the repository says of itself; each is a
finding in `PROJECT.json`, with the quotation and the line. They concern the
cross-thread use of `send`, `shutdown`, `quit` and the logger, and the destruction of a
server with open connections. The example server uses none of these but the logger: its callbacks run on the
I/O thread, which is `conn_callbacks`. Of the hazards without a property
(see `PROJECT.json`), the models exhibit three more: a callback queued before `loop()`
waits for the poll timeout, a `send()` from another thread may be overtaken
by the FIN of the `shutdown()` that follows it, and a server out of descriptors
ends the process although `idleFd_` was opened for that case.

### Bounds

* `EventLoop`: two other threads (a pusher and a quitter, or two pushers), two
  posted tasks and one queued before `loop()`, one I/O channel, an eventfd
  limit of 2, so that the limit is reached. Each task is queued once. For the
  safety properties and the refinement the theorems lift these bounds.
* `EventLoopThread`: the owner and the loop's thread, with three tasks, one of them
  the `ThreadInitCallback`'s. The module lets no other thread act, whatever `Threads` is, and
  neither do its theorems: that more threads may use a running loop is shown by
  `EventLoop`, its run and its theorems, and not in combination with construction and
  destruction.
* `TcpConnection`: two messages of two bytes, so that writes are partial and
  a message can wait behind another; a high-water mark of two bytes, reached
  while data waits; at most two arrivals; up to two user threads. Each run takes only
  the dimensions its question needs: `conn_threads` has no write-complete
  callbacks, `conn_callbacks` no user threads. The queues are unbounded.
* `TcpServer`: `setThreadNum` with 0, 1 and 2, all in one run; two clients, so
  that two loops get one each and a pool of one wraps around; two descriptors, so that
  two connections live at once or the second uses the descriptor of the first again;
  two starters, one on the main thread. The
  application keeps one connection at a time. For the safety properties and the
  refinement the theorems lift these bounds.
  `server_dropped` needs one of each only.
* `Buffer`: two bytes in front, an initial size of two, an extra buffer of three,
  appends of up to four bytes, nine bytes altogether: the vector is compacted,
  grown and filled to its end, and the extra buffer is used both in part and
  as a whole. Lifted by the theorems.
* `Logger`: two threads, two messages each, one of them fatal.

Deadlock checking is off in every run: a loop that has stopped, or a connection
that is gone, has nothing more to do.

### Fairness

Weak fairness of the loop's own steps (callbacks return, threads are
scheduled), of `epoll_wait` returning *while the wakeup channel is readable*
(level-triggered), and of a thread inside `queueInLoop`/`quit` reaching its
`wakeup()`. The ten-second timeout of poll is possible but never relied on, nor are I/O
events or the choices of user code. For connections also: the peer reads what it is sent
and the writes of `handleWrite` do not fail with EAGAIN or EINTR for ever (strong fairness of
`OnWrite`, since a failed attempt comes in between), and the application releases its
handles; without these the code promises nothing. Once `~TcpServer` has begun, the I/O
loop is told to quit and both loops are destroyed; here the I/O loop is taken to have entered
`loop()` before, the other case being that of `thread_lostquit`.

In `server` there is one weak fairness condition per thread: the main thread, which is a
starter, runs the base loop and then the destructor; each other starter inside `start()`; each
I/O loop. Freed memory follows the last reference, and the application releases the
connection it keeps. Whether anybody calls `start()` or `quit()`, and whether clients come
and go, is open. `DestructionFrees` starts from a base loop that has been told to quit,
or has returned, with every I/O thread inside `loop()` and none told to quit yet.

## 4. Theorems

All are checked by TLAPS for every value of the constants, from the assumptions
the modules name. Every `[]Inv` below is the consequence of an inductive
invariant: it holds initially, each action of the next-state relation preserves
it, one step of the proof per action, and it implies `Inv`.

### EventLoop and EventLoopThread

* `WakeupNeverLost`, `QuitNeverLost` — `Spec => []NoLostWakeup`,
  `Spec => []NoLostQuit`. Both speak of a thread in poll and are not inductive: a
  callback that waits there was pushed earlier. `WakeInv` extends the claim to the whole
  stretch from the swap to the next poll, in which each push is followed by a
  write to the eventfd and nothing reads it. After poll returns the obligation
  lapses, since the next swap takes all that is pending: this is why a handler,
  running before the swap, may push without a wakeup.
* `LoopImplementsTaskQueue` — `Spec => ImplementsTaskQueue`. The queue is
  `functors \o pendingFunctors_`; the swap is a stutter because the local vector
  is empty outside `doPendingFunctors` (`FunctorsLocal`). Two lemmas on
  concatenation, `AppendToConcat` and `HeadTailConcat`, give the pushes and the
  takes.
  `TypeCorrect` is the lemma about the types that all four start from.
* `LoopInThread` — `TSpec => Spec`: construction and destruction of the
  `EventLoop` are stutters of it, and the owner is one of the threads that may post. So
  the theorems above hold of a loop on its thread's stack that its owner uses.
* `LoopPublishedSafely`, `TidStoredFirst` — `ThreadInv` ties the
  pointer, the object, the semaphore and `tid_` to the progress of the two threads.
* `InitCallbackRunsFirst` — `TSpec => []InitCallbackFirst`. `InitInv`: until `callback_` has
  returned, `loop_` is not published, so all that has been handed to the loop is the
  `ThreadInitCallback`'s; no step of the loop changes what was handed in or its
  order (`HandedKept`), and a push comes behind it (`HandedGrows`).
* `DestructorWaits` — `TSpec => []DestroyedAfterThread`.
  `DtorInv` says that before the destructor's store of `quit_` the loop is not
  stopped, so its two unlocked reads of `loop_` agree and it joins. It holds as long as no
  callback has quit the loop (`ownQuit`), which stays true once it is.

### Buffer

* `IndexesStayInOrder`, `MemoryFollowsLoad` — `BSpec => []BTypeOK`,
  `BSpec => []MemoryBounded`. The inductive invariant `BInv` adds to the two that
  `peak` is at least what the buffer holds now: when `makeSpace` grows the
  vector, the bytes readable and the bytes to come exceed the room in front and
  behind, so the new size is at most twice what the buffer then holds.
* `BufferImplementsByteQueue` — `BSpec => ImplementsByteQueue`. The content is
  `Peek(buf, ReadableBytes(buf))`. `ResizeKeeps` and `MoveToFrontKeeps` say that making
  space does not change it, `AppendAppends` and `ReadAppends` that what is
  put in comes behind it (for `readFd` in two pieces, joined by `BytesConcat`),
  `RetrieveTakes` that what is taken is its beginning.

### TcpServer

For any number of I/O loops, connections, descriptors and threads that call
`start()`. None of the properties is inductive; `ServerInv` is their common
strengthening (`ServerInvariant`). Its parts:

| Part | Says | Because of it |
|---|---|---|
| `TypeInv` | the types, and that the process has not aborted | |
| `StartInv` | `started_` counts the starters that have come; at most one is past the test, it has made `i` of the pool's loops, and `listen` is neither queued nor done before it has made them all | `ListensAfterPoolFilled` |
| `LoopsInv` | which loops exist, `next_` is an index of `loops_`, how far the destructor is, and that it tells no more threads to quit than there are | the index in `getNextLoop` |
| `AccInv` | `acceptChannel_` and its poller entry agree; it is removed once | no assert of `EPollPoller` for the acceptor |
| `QueueInv` | a functor waits at most once, on its loop, and `connectEstablished` before `connectDestroyed` | `FunctorsOnOwnLoop` |
| `ActiveInv` | an entry of `activeChannels_` is still what `poll` found | the bare pointers of a round |
| `ConnsInv` | per connection: what `state_` says of the channel, the reports, the map and the functors that hold it | `NoDanglingChannel`, `NoAbort` |
| `BalanceInv` | each I/O loop has `b` or `b + 1` connections, those up to `next_` one more | `RoundRobin` |

* `ListensAfterPool`, `PoolInBalance`, `OneLoopPerConnection`, `ServerTypes`.
* `NoneDangles` — while the loop of a connection lives, its channel in the poller
  means a reference: the map's, or that of a queued `connectDestroyed`. So a
  freed connection, which nothing references, has none. An exited loop has no poller.
* `AssertsHold` — `connectEstablished` waits only for a connection still in
  `kConnecting`, whose channel is `kNew`; `connectDestroyed` waits only for one whose
  channel is mapped; neither waits twice.
* `ServerImplements` — `SSpec => ServerImplementsTable`. Each step moves at most
  one connection of `ConnectionTable` by one phase; the order of the queue
  (`connectEstablished` first) excludes a connection reported down before it was up.

The argument for `StartInv` counts the starters, so `Starters` has to be finite
(`TcpServerAssumption`), as the threads of a process are.

### TcpConnection

For any number of users, messages and arrivals, any message sizes and any
`highWaterMark_`. `ConnInv` is the inductive invariant (`ConnInvHolds`). The
first group holds whatever other threads do:

* `StreamKept` — `CSpec => []StreamInOrder`. The property speaks of `FlattenSeq`, defined
  by recursion; what it gives for every sequence would take induction over the sequence.
  The proof uses the induction over steps instead: `StreamInv` carries along that
  the recursive function exists for the messages accepted so far and that any such function
  ends in `wire \o outputBuffer_` (`Flat`). `FlatAppend` extends
  it by the message a step accepts, `Drains` and `Sends` show that every other change moves bytes
  from one end of the concatenation to the other.
* `OutputNeverStuck`, `FinFollowsData` — `OutputInv`: while the connection is
  up, EPOLLOUT is asked for exactly when bytes wait, and the channel is in the epoll set. It
  rests on `EarlyInv`, that nothing at all happens before `connectEstablished` runs.
* `FreedOutOfReach` — `CSpec => []OnlyThisDangles`, whatever users do with their handles: a
  freed connection is in no functor that runs or waits but `sendInLoop` and
  `shutdownInLoop`, its channel is not in the poller, none of its handlers is on its way, and no
  thread is inside its `send()` or `shutdown()`. That those two functors do not reach it
  either (`RunsOnLiveObject`) is false: `conn_rawthis`. `LifeInv` ties life to
  `Referenced`, through every step that creates or drops a reference.

`TypesInv` and `SentInv` are their common ground: only what was passed to `send()`
is in functors, in the hands of a user or accepted.

The second group assumes `Shutters = {}`: only the I/O thread calls `shutdown()`, while
other threads may `send()`. Otherwise `shutdown()` may store `kDisconnecting` over a
`kDisconnected` stored since its test; the connection is then closed a second
time, `connectDestroyed` runs twice, and the claims are false: `conn_closedtwice`. `CalmInv` says that

* `ReportedInv`: `state_` and the calls of `connectionCallback_` agree;
* `ClosedInv`: the channel of a connection that is down, or that `connectDestroyed` has run on,
  is out of the epoll set and its `index_` says so;
* `RoundInv`: one round of `handleEventWithGuard` has one of `handleClose` and `handleRead`
  to call at most, and neither once the connection is down;
* `LeavesInv`: a connection is in the map, or `connectDestroyed` is queued, once, or it
  has run, once.

From these follow `BooksBalance`, `PollerKnowsLive`, `DestroyedAtMostOnce`,
`DestructorAssertHolds`, and the refinement `ConnectionImplements`, in which
`handleClose`, `connectDestroyed` and `~TcpServer` may come in any order.

`TcpConnectionAssumption` excludes users when the server dies (`ServerDies`): a thread
that holds a connection of a destroyed server calls into a loop that is gone.

### Lemmas shared

`QueueProofs`: what appending, taking the head and swapping the two vectors does to
the set of functors that wait, to `NoDup`, `Once` (occurs at most once) and `Before` (never
behind). `ChannelProofs`: each of `enable*`, `disableAll`, `disableWriting` and `remove` keeps
`Consistent`, that `index_`, `channels_` and the epoll set agree, given the
`index_` it is called in.

### Assumptions, and what is model-checked only

The assumptions are those named in the modules (`EventLoopAssumption`,
`EventLoopThreadAssumption`, `BufferAssumption`, `TcpConnectionAssumption`,
`TcpServerAssumption`): sets included in one another, limits, sizes that are natural
numbers, Boolean switches, finitely many starters. `size_t` is taken as unbounded; that the
indices stay in order shows that no subtraction wraps below zero.

Model-checked only:

* all liveness (`TasksRun`, `QuitStops`, `StartLoopReturns`, `JoinReturns`, `PeerGoneFreed`,
  `ShutdownCompletes`, `WriteCompleteFollows`, `StartListens`, `LeaverFreed`, `DestructionFrees`), since TLAPS
  does not reason about fairness or `ENABLED`;
* `Logger`, whose one run is a counterexample.

## 5. Not modelled, and the plan

Not to be modelled: `Timestamp`, `InetAddress`, `CurrentThread`,
`DefaultPoller`, `noncopyable`, `copyable`, the socket options (no shared state,
or plain system calls), the wording of log lines, `main.cc` (commented out).
Left out of the modules above: the array of `epoll_event` and its doubling (poll may
report any non-empty part of what is ready in `EventLoop`, which covers an array that
is too short), the key of `channels_` (each channel has its own entry), the
`ThreadInitCallback` of a server's pool (`EventLoopThread` has it), other threads that use a
loop while its `EventLoopThread` is made and destroyed, the pool handed out by `threadPool()`, a
server destroyed
while its base loop runs, and the overflow of `nextConnId_`.

Planned, most important first:

1. Step properties behind the proofs: a theorem that `connectDestroyed` is the last
   function of the connection to run, and that `next_` visits the loops in order.
2. The theorems of `TcpConnection` that assume `Shutters = {}` weakened to what a
   connection still keeps under `shutdown()` on another thread.
3. `channels_` keyed by descriptor, for several channels that use one after
   another the same descriptor.
