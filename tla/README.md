# Gmuduo in TLA+

Gmuduo is a C++ network library after muduo: one event loop per thread, timers,
non-blocking TCP connections dealt to a pool of loops. This directory holds
TLA+ models of its core, the TLC configurations that check them on small
instances, and proofs about them checked by TLAPS. Paths below are relative to
`src/gmuduo/src/`. `PROJECT.json` maps each definition to the lines it models.

To parse, check and prove, in this directory:

    tlasany EventLoop.tla
    tlc -workers 2 -config EventLoop.cfg EventLoop
    tlapm EventLoopProofs.tla

## 1. Inventory

| Component | State | Operations | Interacts with |
|---|---|---|---|
| `EventLoop` | `quited_`, `callpending_`, `penddingTask_` (under `mutex_`), `activeChannels_`, the eventfd | `loop`, `quit`, `runInLoop`, `queueInLoop`, `wakeup`, `handleEfdRead`, `doPendingTask`; timer calls; `updateChannel`, `removeChannel` | everything: it runs the handlers of channels and the functors of other threads |
| `EventLoopThread` | `thread_`, `loop_`, `mutex_`, `cond_` | constructor, `threadFunc`, `getLoop`, `stop`, destructor | builds, publishes and runs an `EventLoop` in a second thread |
| `EventLoopThreadpool` | `numThreads_`, `started_`, `threads_`, `loops_`, `loopIndex_` | `setThreadNum`, `start`, `stop`, `getOneLoop` | `EventLoopThread`s; asked by `TCPServer` for a loop |
| `TimerQueue`, `Timer`, `TimerID` | `timerSet_`, `cancellingTimers_`, the timerfd | `addTimer`, `cancelTimer`, `handleRead`, `getExpired`, `reset`, `resetTimerfd` | a channel of its loop; functors of `runInLoop`; weak pointers held by users |
| `Buffer` | `data_` (size and capacity), `readIndex_`, `writeIndex_` | `append`, `prepend`, `peek`, `retrieve*`, `readFd`, `writeFd`, `makePlace`, `find*`, the `Int` calls | input and output buffer of a connection |
| `TCPConnection` | `status_`, `channel_`, `inputBuffer_`, `outputBuffer_`, callbacks | `onEstablished`, three `send`, `handleRead/Write/Close/Error`, `shutdown`, `forceClose` | its loop, its server through `closeCallback_`, the kernel's socket |
| `TCPServer` | `TCPPtrMap_`, `conectionID_`, pool, acceptor | `start`, `newConnection`, `removeConnection(InLoop)` | acceptor calls it, connections call it from their loops |
| `Acceptor` | listening socket and channel, `nullfd_` | `listen`, `handleRead` | loop, `TCPServer::newConnection` |
| `Epoll`, `Channel` | `channelMap_`, `activeEvents_`; `events_`, `revents_`, `indx_` | `poll`, `updateChannel`, `removeChannel`; `handleEvent`, `enable*`, `disable*` | kernel; the callbacks of all of the above |
| `Socket` | the descriptor | `accept`, `shutdownWrite`, `listen`, `bind`, options, addresses | owned by acceptors and connections |
| `InetAddr`, `Timestamp`, `Log`, headers, `TCPClient` | address, time, stream | system calls, conversions, output; `TCPClient` is empty | leaf code |

What is hard here:

* *Other threads.* `queueInLoop`, `quit`, timer calls and sends come from any
  thread between any two steps of the loop; only `penddingTask_` is locked. A
  wakeup may be lost, or consumed an iteration too early.
* *Handshakes.* `EventLoopThread` starts its thread in a member initialiser,
  publishes `loop_` without the mutex, and destroys the loop in another thread.
* *Snapshots.* A handler works on what `epoll_wait` reported and on the time it
  returned, after other handlers of the iteration have changed both.
* *Re-entrance.* Callbacks add and cancel timers, send, shut down and close
  from inside `handleRead`, `handleWrite` and `doPendingTask`.
* *Boundaries.* A ring with one free cell and indices modulo the capacity,
  unsigned differences of times, `-1` results kept in unsigned lengths, partial
  writes, a full socket.
* *Lifetime.* Functors and channels hold raw pointers to connections, the
  kernel and `activeChannels_` hold raw pointers to channels, connections hold
  the address of their server, and descriptors are used again.
* *Running out.* The process has no descriptor left for a client; `epoll_wait`
  has more to report than `activeEvents_` has room for.

What makes each component correct:

* `EventLoop`: functors run once, in order; the loop does not sleep on work;
  `quit` ends a running loop; reading the eventfd never fails.
* `EventLoopThread`: `getLoop` gives a constructed loop, the loop outlives its
  users, `stop` lets the destructor join.
* `EventLoopThreadpool`: connections are dealt evenly.
* `TimerQueue`: no timer runs early or is lost or doubled, none waits without the
  timerfd being set, a cancelled timer does not return, every other one runs.
* `Buffer`: a FIFO of bytes that writes only inside its vector.
* `TCPConnection`: bytes leave once and in order, pending output is watched for
  and sent, the end is handled once.
* `TCPServer`: the map holds the live connections, each handled on its own loop,
  whatever loop closes it.
* `Acceptor`: who connects is served or sent away, by means of a spare descriptor
  that is nobody else's.
* `Epoll`, `Channel`: the kernel's interest list is what `indx_`, `events_` and
  `channelMap_` say; only channels that exist are handled, and every event is.

`PROJECT.json` lists the hazards behind these at the lines where they bite.

## 2. The modules

**`TaskQueue`** is the abstract specification: functors are accepted, and
executed one at a time in that order. Two variables, two actions.

**`EventLoop`** has one action per step that another thread can tell apart. `pc`
is the owner's place in `loop()`: `StartLoop` (line 50, which overwrites
`quited_`), `CheckQuit`, `Poll`, `HandleEfdRead`, `HandleIO`/`EndHandler`,
`SwapTasks`, `RunTask`/`EndTask`, `EndPendingTask`. User code runs outside
`loop()`, in a handler or in a task; it may queue (`OwnerQueueInLoop`, with the
`callpending_` test), call directly (`OwnerRunInLoop`) or quit. For another
thread `queueInLoop` and `quit` are two steps, the store and the write to the
eventfd (`Wakeup`); `waking` holds the threads in between. `submitted`, `ran`
and `inlined` are history. `ready` is the kernel's set of readable descriptors,
`activeChannels` the snapshot of it; the order in which a snapshot is handled
is left open. A functor is submitted once, which bounds the state.
`callpending_` and `activeChannels_` belong to the owner's thread.

**`EventLoopThread`** extends `EventLoop`: the child is its owner and `Main`
one of its `Thread`s, so every step of the composition that touches the loop is
an action of `EventLoop`, and what is proved of `EventLoop` holds of it
(`ChildServesInOrder`). `StartThread` and `InitLoopPtr`
are separate because `loop_` is declared after `thread_`; `TestLoopPtr` and
`Block` are separate because `threadFunc` does not hold the mutex that
`cond_.wait` releases. `StoreLoop` into memory not yet initialised may crash or
not: both are allowed. `current` and `mainLoops` follow `t_eventLoop` of the
thread that destroys the loop.

**`EventLoopThreadpool`** is sequential, all calls being asserted to come from
the base loop's thread; a loop is the number it was made with, and `picks` counts
the calls of `getOneLoop` for each since the first `start`.

**`TimerQueue`** runs in its own model of the loop's iterations: poll, dispatch
(other handlers may act before and after the timer's), the batch of `handleRead`
(`expired`, `due`), callbacks, functors. Time is relative: `when[t]` is what is
left until expiry, `Tick` lowers it, `pollAge` is the age of the time that
`handleRead` was given. `timeFromNow`'s unsigned wrap-around is modelled by what
it does: a negative difference sets the timerfd for `Never`, a deadline that the
program does not live to see.
`Slow` decides whether time may pass while the loop is busy. The functors of
other threads are a FIFO, as `EventLoop` is proved to provide. `RunTask`
executes an add or a cancel; `AddTimer` and `CancelInLoop` are the calls from
the loop's thread, which `runInLoop` executes at once.

**`ByteQueue`** is the abstract specification of a buffer: a sequence of bytes
and `call`, the interface variable, which holds the last operation, what it was
given and what it returned. Adding at either end, looking, dropping, taking,
`empty` and the searches are its actions.

**`BufferData`** has the members of a `Buffer` as a record - cells (`capacity()` of
them), size and indices - and what its functions compute from them: `ensurePlace`,
the writes of `append` (`Appended`, and `Fits` for whether they stay in the vector),
`peekAllAsString` (`Held`), `retrieve`. A record, since `makePlace` builds a second
buffer and a connection has its own.

**`Buffer`** lets users call a buffer's operations. It implements `ByteQueue`
under the mapping of `bytes` to `Contents`, what `peekAllAsString` reads. The
model stops once a write has left the vector. How a buffer is used decides which
of its paths are right, so the initial state chooses a `caller`: the operations its
user calls, whether it checks `writeableBytes()`, and whether it takes the last byte
with `retrieveAll`. **`MCBuffer`** defines them. The variants "prependInt" and
"retrieveUntil" among the operations say that the caller reaches `prepend` and
`retrieve` through those functions, "readError" that `readv` fails: its -1 is not
noticed (line 304) and becomes the length of an `append`.

**`TCPConnection`** is one connection with its channel, its kernel socket, its
entry in the server's map and its peer. `pc` follows `Channel::handleEvent`
through `EPOLLIN`, `EPOLLHUP` and `EPOLLOUT`; each callback is a place where
users may call. `NewConnection` chooses whether the connection's loop is the
server's. `functors` is the FIFO of its loop. `Write` takes what the socket has
room for; `room = 0` is the case in which `write` returns -1. `outputBuffer_` is
`output`, a record of `BufferData`, filled by `Appended` and emptied by `retrieved`, as
`sendInLoop` and `handleWrite` do it; it wraps, grows and is drained at any index.
`failed` stands for an abort, a signal, a length of -1, or an append for which
the buffer's vector has no place where it writes (`HasPlace`): nothing is claimed
after it. `shutdownWrite` may fail once the peer has reset the connection, and once
both sides have closed it. Histories: `wire` (taken by the socket), `stream`
(accepted), `sent` (what users have sent), `downs`.

**`TCPServer`** composes the pool, which it extends, with the server, its acceptor
and any number of connections, reduced to being established and closed. `pc`
is the base loop's place in `Acceptor::handleRead`, whose branch for `EMFILE` is
one action per system call: `Release`, `Take`, `Drop`, `Reopen`. Between any
two of them other threads open and close files (`OtherOpens`, `OtherCloses`)
and connections close on their loops. `holder` is the process's descriptor
table. `accept` fails with `EMFILE` when no descriptor is left, whether or not
somebody waits, since Linux takes the descriptor first. `functors` is a FIFO
per loop. `removeConnection` runs on the connection's loop and hands
`removeConnectionInLoop` to the base loop. A closed connection keeps its
descriptor, since it is never destroyed (see `ConnectionKept` below). `Destroy`
and `Destroyed` are the destructor: first the pool's threads are joined, then map
and acceptor go. Names differ only in the number, which stands for them.

**`Epoll`** is `Epoll` and `Channel` in one loop. Each call of `enable*`, `disable*`
and `remove` is one action with its `epoll_ctl`; `Iterate` is `poll` together with
`fillActiveChannels`, after which `EndHandler` goes from channel to channel.
Channels are constructed, removed and destroyed by handlers and functors, and
descriptors are used again. The kernel keeps `interest`, the
registered pointer and mask, and `readyList`, which `epoll_wait` takes from the
front and, as the registration is level-triggered, returns to the end.
`DestroysInHandler` says whether a handler may destroy a channel not its own, and
`Unasked` names events reported without being asked for, such as `EPOLLHUP`.

Each definition named as a *mutant* in its comment is a plausible slip in the
code, kept beside the definition it changes; the runs refute their property
when it takes that definition's place.

## 3. The runs

| Run | Question | Instance | Distinct states |
|---|---|---|---|
| `EventLoop` | once and in order, no lost wakeup, readable eventfd, refinement of `TaskQueue`, `quit` and tasks take effect | 2 threads, 3 tasks, 1 channel, no poll timeout | 24666 |
| `EventLoopThread` | sound `getLoop`, lifetime, handed over tasks run, join | 2 tasks, 1 channel | 8608 |
| `EventLoopThreadpool` | even deal | up to 3 threads, 4 rounds | 572 |
| `TimerQueueSafety` | nothing early, lost, doubled or resurrected; cancels follow their adds; waiting timers have the timerfd set | 1 repeating and 1 single timer, time passes anywhere | 165644 |
| `TimerQueueLiveness` | timers run and repeat | the same, time passes in poll | 31955 |
| `Buffer` | stays in its vector and implements `ByteQueue`, for two disciplines | 4 usable bytes, strings to 4, 2 byte values | 40136 |
| `TCPConnection` | stream, each byte once, watching output, one end, reported room remains, no write after shutdown, output and shutdown complete | messages of 4 and 2 bytes, a socket of 1, a buffer of 3, 1 functor, resets | 581173 |
| `TCPServer` | own spare descriptor, map and live connections, right loop, everybody served, closed ones removed | 3 clients, pool of up to 2 threads, 3 descriptors, 1 other file | 44355 |
| `Epoll` | kernel and channels agree, live channels only, every event handled | 3 channels on 2 descriptors, 2 events, room for 1 event | 62296 |

Why these sizes are enough to meet the interesting cases:

* *EventLoop.* Two threads can be between store and wakeup together while the
  owner is anywhere; three tasks put one in each of started, batch and pending.
  Without a poll timeout nothing but the eventfd can wake the owner, so
  a missing wakeup shows. `QueuesOutside = FALSE` there, as such tasks get no
  wakeup and wait for the timeout: `EventLoop.cfg` with both `QueuesOutside` and
  `PollTimesOut` TRUE and only `QueuedTaskRuns` as property shows that they run.
* *TimerQueue.* Delays 0, 1 and 3 around the interval 2 make the single timer
  come before, with and after the repeating one, and expire in the same batch.
  `MaxLate = 3` saturates how overdue a timer looks; the code compares only with
  the time of the poll, whose age stays below `MaxLate`. Two pending functors
  are an add and the cancel after it.
* *Buffer.* Size 4 makes five cells; every pair of indices occurs, with strings
  that fill the ring. `MaxSize = 10` allows a vector to grow more than once.
  `MinLen = 1` leaves empty strings to `BufferPrependEmpty.cfg`.
* *TCPConnection.* A message of four bytes is longer than what the socket takes and
  than the buffer, so that its rest makes the buffer grow and is written in several
  parts, while the other message is queued behind it, sent before it or between the
  parts (**`MCTCPConnection`** sets the lengths). With a socket of one byte every
  direct write finds it either empty or full. The buffer is emptied at index 0 and
  elsewhere, and used again. Nothing is assumed of the room a write finds.
* *TCPServer.* Three descriptors, one of them the spare, for three clients and
  one other file: they run out before, while and after the acceptor handles it,
  and the other file can take the number the acceptor has just closed. With two
  threads connections are on the base loop and on two others.
* *Epoll.* A third channel can only get the descriptor of a destroyed one, or of
  none; both descriptors may be ready while there is room for one event, so
  that the second iteration must report the other, and the array then grows.

Deadlock checking is off (`CHECK_DEADLOCK FALSE`) where the system may stop: a
joined thread, a crashed process, a closed or failed connection.

### Fairness

* `EventLoop`: weak fairness of the steps inside `loop()` - the owner's thread is
  scheduled and user code returns - and of each thread's `Wakeup`, since a
  thread inside `queueInLoop` or `quit` finishes the call. Nobody must call
  anything.
* `EventLoopThread`: weak fairness of the two threads' own progress. A spurious
  wakeup of the condition variable is possible and not promised.
* `TimerQueue`: weak fairness of the loop; strong fairness of `Tick`, because
  time passes however often other channels interrupt the poll, and weak fairness
  would let them stop the clock.
* `TCPServer`: weak fairness of the steps of `handleRead` and of its being called
  while clients wait, of the destructor and of the rest of the process closing
  what it has opened; strong fairness of each loop's functors, as above. Clients
  and users need not do anything.
* `Epoll`: weak fairness of the loop's steps: handlers return and it polls again.
* `TCPConnection`: weak fairness of poll, of the handlers, of the server's
  removal and of a peer that reads; strong fairness of `RunFunctor`, because
  `doPendingTask` comes after every poll and a busy channel cannot keep the
  functors waiting.

### Disagreements between the code and its comments

Three runs expect a violation:

* `LostNotification` (`EventLoopThread.cc:13`). `loop_` is set and `notify_one`
  called without the mutex, so both can fall between `getLoop`'s test and its
  wait, and `start()` (`TCPServer.h:41`, 启动服务器) never returns. In the trace `loop_`
  is initialised; `getLoop` finds it null, the child stores and notifies, and then
  `getLoop` waits. (`LoopPtrRace` is about the initialisation.)
* `TimerStall` (`TimerQueue.cc:21`). The unsigned difference of a time already
  past wraps, and the timerfd does not fire again: `runAfter`
  (`EventLoop.h:62`, 延迟执行) and all other timers stop.
* `AcceptSpin` (`Acceptor.cc:59`). With no descriptor left, `accept` returns
  `EMFILE` even when nobody waits any more, so `handleRead` closes and reopens
  `nullfd_` (`Acceptor.h:20`, 用于处理文件描述符耗尽的情况) without end. Closed
  connections are never destroyed, and removing them takes the loop that spins.

Further ones are kept as configurations to be run by hand; each stops with the
counterexample named (`tlc -config <name>.cfg <module>`):

| Configuration, module | Property refuted | What the code does, and what is said of it |
|---|---|---|
| `StopBeforeLoop`, EventLoopThread | `StopEndsThread` | `EventLoop.cc:50` resets `quited_`, so a `quit` before `loop()` is lost; `EventLoop.h:51`: 结束loop |
| `LoopPtrRace`, EventLoopThread | `NeverCrashes` | `EventLoopThread.cc:8` starts the child before `loop_` is initialised; `TCPServer.cc:27`: 启动线程池 |
| `ForeignDestructor`, EventLoopThread | `OneLoopPerThread` | `~EventLoop` (`EventLoop.cc:45`) clears the thread-local pointer of the thread it runs in, `Main`'s; `EventLoop.h:18`: 一个线程只能创建一个对象 |
| `CancelInBatch`, TimerQueue | `NotRunOnceCancelledInBatch` | `TimerQueue.cc:92` runs the whole batch; `EventLoop.h:63`: 取消timer |
| `CancelInQueue`, TimerQueue | `NotRunOnceCancelledInQueue` | `TimerQueue.cc:106` clears `cancellingTimers_`, with the cancel of a timer whose add is still queued |
| `OutputOverrun`, MCTCPConnection | `SendFindsPlace` | `Buffer.cc:59`: once `handleWrite` has retrieved the last byte anywhere but at index 0 (`TCPConnection.cc:139`), the `append` of line 103 writes past the vector, with an orderly peer; `Buffer.h:9`: 环形缓冲区 |
| `BufferGrowth`, MCBuffer | `ImplementsByteQueue` | `Buffer.cc:68` and `:208`: indices modulo the capacity in a grown vector of smaller size |
| `BufferPeek`, MCBuffer | `ImplementsByteQueue` | `Buffer.cc:144` copies a byte too many of what wraps; `Buffer.h:48` |
| `BufferReadFd`, MCBuffer | `ImplementsByteQueue` | `Buffer.cc:291`: the parts of `readv` when bytes do not begin at index 0; comment at `:287` |
| `BufferReadError`, MCBuffer | `StaysInVector` | `Buffer.cc:304`: -1 is never below an unsigned length, so an error of `readv` is appended as that many bytes; `:316` returns the -1 for callers to see |
| `BufferFindEOL`, MCBuffer | `ImplementsByteQueue` | `Buffer.cc:264` leaves out the last cell when the bytes wrap; `Buffer.h:72`: 查找 |
| `BufferFindCRLF`, MCBuffer | `ImplementsByteQueue` | `Buffer.cc:232` does not give `nullptr` for bytes that do not wrap, as `:240` and `:257` do |
| `BufferRetrieveUntil`, MCBuffer | `ImplementsByteQueue` | `Buffer.cc:214` takes a pointer's index for the number of bytes before it |
| `BufferFindEOL` with `Callers <- Framed` | `ImplementsByteQueue` | `Buffer.cc:111`: `prepend(const void*, size_t)`, which the `prependInt` calls use, appends |
| `BufferPrependEmpty`, MCBuffer | `ImplementsByteQueue` | `Buffer.cc:105`: an empty string moves `readIndex_` to `size()`, and `empty()` is no longer true |
| `FullSocket`, MCTCPConnection | `NoGarbage` | `TCPConnection.cc:95`: `n < 0` is never true of a `size_t`, so a full socket queues the message with the byte in front of it; line 93: 可以直接发送 |
| `SplitMessage`, MCTCPConnection | `MessagesWhole` | `TCPConnection.cc:83`: what `send(Buffer)` leaves over is queued with `queueInLoop`, and a direct send comes in between; line 82: 还有剩的 |
| `ShutdownTwice`, MCTCPConnection | `OrderlyPeerNeverFails` | `Socket.cc:59`: a second `shutdown()` after both sides have closed fails, and `LOG_ERROR` ends the process; `TCPConnection.h:67`: 关闭写 |
| `MessageAfterDown`, MCTCPConnection | `NoMessageAfterDown` | `TCPConnection.cc:124` calls `messageCallback_` of a connection that another handler of the iteration has closed; `:168`: 这个函数执行完之后，对象就会析构 |
| `ServerJoins`, TCPServer | `DestroyReturns` | `~TCPServer` destroys a pool whose threads only `EventLoopThreadpool::stop` (`EventLoopThreadpool.cc:26`) ends; nothing calls it |
| `ServerDangling`, TCPServer | `NoDanglingServer` | `TCPServer.cc:71` binds `this` into connections that outlive the server |
| `EventsBeyondSize`, Epoll | `EventsInVector` | `Epoll.cc:59` lets `epoll_wait` fill `capacity()` elements of a vector whose `size()` stays `KInitSize` |
| `DestroyInHandler`, Epoll | `HandledIsAlive` | `EventLoop.cc:57` goes on to a channel that a handler before it has destroyed |
| `ShutdownLost`, MCTCPConnection | `ShutdownCloses` | `TCPConnection.cc:199`: with nothing to write the first call only marks the connection; `TCPConnection.h:67`: 关闭写 |
| `ConnectionKept`, MCTCPConnection | `DestroyedAfterClose` | `TCPServer.cc:71`: the connection's `closeCallback_` holds the connection, which is never destroyed; `TCPConnection.cc:168` |
| `HangupWrite`, MCTCPConnection | `NoSendAfterHangup` | `Channel.cc:36` goes on to write after `EPOLLHUP`; comment at `Channel.cc:32` |

The `Buffer` configurations are of one model: only the caller differs. That
functors and handlers, which hold a raw `this`, never use a destroyed connection is
no property here: it follows from what `ConnectionKept` shows, that no connection is
ever destroyed.

## 4. What is proved

All theorems hold for every value of the constants that their `ASSUME` allows.

**`EventLoopProofs`.** `TypeInvariant`, `TasksInOrderExactlyOnce`,
`NoLostWakeup`, `HandleEfdReadNeverAborts`, and `Refinement`: `EventLoop`
implements `TaskQueue`. `NoSleepOnWork` is not inductive: it speaks of the owner
in poll only, and says nothing of how it got there. `IInv` adds that the owner's
locals agree with `pc` (`OwnerLocals`: `callpending_` is set just while a batch
runs, so a task of the batch writes the eventfd) and that pending work has a
wakeup on its way whenever `doPendingTask` is not still to come in this
iteration (`PendingHasWakeup`). The eventfd stays readable until its turn
because only that turn reads it. For the refinement, `RunTask` is `Execute`
because the batch's head is `submitted[Len(ran) + 1]`, by the order invariant.

**`EventLoopThreadProofs`.** `ChildRunsEventLoop`: each step of the composition is
a step of `EventLoop` or leaves it unchanged, so the theorems above carry over;
`ChildServesInOrder` states the three that matter to who uses `getLoop`.
`ThreadTypeInvariant` gives the types of the composition.
`GetLoopIsSound` and `NoUseAfterDestruction` follow from `Handshake`: `loop_`
is set only by a child that is past building, the loop runs only while the
child is in `loop()`, and `Main` has a call in flight only in `use`.

**`TimerQueueProofs`.** `TypeInvariant`, `TimersInOnePlace`, `CancelIsFinal`,
`CancelAfterAdd`, `NoEarlyTimer` and `AlwaysArmed`, all of them however slow the
loop is. `Placement` says that an add is in one functor once, that the batch is
empty outside `handleRead`, and that a cancelled timer is out of every place it
could return from. `AlwaysArmed` needs it for two things: a timer that is added is
not among those that wait, whose times stay what they are, and time takes the
timerfd's deadline down as fast as that of the first timer, never below zero. One
lemma (`ResetArms`) is about `resetTimerfd`, which covers a whole set once it is
called for its first; a timer that is not the first finds the timerfd set for one
that comes before it. The deadline `Never` is part of the statement: `TimerStall`
shows that it occurs. `CancelAfterAdd` rests on `OneQueue`:
the batch that runs and what is pending are one FIFO, in which no step overtakes
another. A cancel can only be handed over when the timer exists, hence behind its add.

**`TCPServerProofs`.** First the pool: `PoolTypeInvariant`, and `PoolIsFair` for any
number of threads and picks. `EvenShare` is strengthened to `Rotation`: for some k the
loops below the index have k + 1 picks and the others k, loop 0 apart, which begins
or ends a round according to whether it was picked before `start()`. Then the server:
`ServerTypeInvariant`, `ServerDealsEvenly`,
`SpareDescriptorIsOwn`, `FunctorsOnTheirLoop` and `MapHoldsLiveConnections`, for any
clients, threads, descriptors and files opened elsewhere. `SpareInv` adds to `SpareIsOwn` that the acceptor holds no
descriptor between closing `nullfd_` and the next call that may give it one, the
time when another thread may take the number, and that `handleRead` is over before
the destructor joins. `ServerPool` carries the pool's invariant over, so what
`getOneLoop` returns is a loop and the server's connections are dealt evenly. `ConnectionInv` then says that the kernel has a
client in its queue once and while it waits; that a functor is in its loop's queue
once, which makes an `establish` or a `remove` the last one of its connection; that
names are below `conectionID_`, so the next one is new, and lead to one connection
each; and that a connection has a name exactly while it is live or its removal is
queued. The functors' queues need both halves: without `OnItsLoop` a second queue
could hold the functor that the first has run.

**`EpollProofs`.** `KernelAgrees`: `RegistrationAgrees` for any channels, descriptors
and events, with handlers that destroy others' channels or without.
`RegistrationInv` adds that live channels have descriptors of their own and that
what is registered or mapped for a descriptor belongs to the channel that has it
now. Without that, a channel that takes over a descriptor could find the
last one's entry there, and its `EPOLL_CTL_ADD` would be refused.

`OnlyLiveAreHandled`: `HandledIsAlive` if handlers destroy no other channel
(`~DestroysInHandler`; `DestroyInHandler.cfg` is the counterexample without it).
It is strengthened to `ActiveIsLive`: every channel of the snapshot exists as long
as it is being handled, whether or not its turn has passed. That the snapshot begins
so needs `RegistrationInv`, since a registered descriptor leads to a live
channel, and `ReportedIsDue`: `epoll_wait` reports registered descriptors only, for
any capacity. The model takes the n-th due position of the ready list;
`RankIsTaken` proves that there is one, by the least position that has n due ones up to
it. `TypeInvariant` completes the types.

**`TCPConnectionProofs`.** `TypeInvariant`, `OutputIsWatched`, `ConnectionEndsOnce`,
`ShutSocketIsNotWritten`, `RoomIsKept` and `BytesStayInOrder`, for any messages, socket
and buffer sizes and queue length, with resets or without, and with no assumption on the
room a write finds. The parts of the inductive invariant `ConnectionInv`:

* `Establishment`: the first functor establishes the connection, no other one does, and
  until then nobody has it; this orders `onEstablished` before every send.
* `MapFollowsStatus`: the number of down reports, the map entry and the pending removal
  are all determined by `status_`, so that the three places of one `handleEvent`
  that may find the connection closed act once.
* `WatchesOutput`, and `ShutAfterOutput`: the writing side is shut only with nothing
  pending and in a status in which nothing is accepted.
* `RoomReported`: between a poll that reported room and `handleWrite` there is output,
  and the room is still there unless the peer has reset; users may send in between, but
  with output pending those sends queue behind it and leave the room.
* `StreamIntact` itself, and `InVector`, the shape of `outputBuffer_` until the failure:
  readable bytes that wrap do so in a vector as large as its capacity. An append that
  finds place keeps this shape and adds its bytes at the end (`VectorAppend`), whether
  the vector grows, is copied or wraps; `retrieve` at any index takes them from the front
  (`VectorRetrieve`). What a failed connection has sent and holds is still the stream:
  none of the ways to fail disturbs it.

**`BufferDataProofs`.** The lemmas about `BufferData` that the two proof modules
share. What a buffer holds is described byte by byte (`VectorHolds`: the k-th byte is in
cell `r + k`, once around), and one lemma per operation compares that before and
after; a string that runs past the end of the vector is two copies, whose cells
`PutCells` gives.

**`BufferProofs`.** `WritesStayInVector` and `BufferIsByteQueue`, the refinement of
`ByteQueue`, for any bytes, strings, initial sizes and bounds, under
`DisciplinedCallers`: each caller uses the buffer either as a *ring*, checking
`writeableBytes()` before it adds and resetting a drained buffer with
`retrieveAll`, or as a *stream*, adding without limit and taking everything at once.
These are the two ways the run checks, and the operations listed in `RingOps` and
`StreamOps` are those that are right in each; the `Buffer*` configurations of section 3
leave one of the rules or add an operation, and refute one of the two properties. A
ring's writer may prepend only strings that are not empty (`MinLen = 1`), for the
reason `BufferPrependEmpty` shows. The invariant gives each way its shape. `Ring`: as
many cells as elements, the write index inside, equal indices only at 0. `AtZero`: the
bytes begin at index 0 and the vector may have grown.

Only model-checked: the liveness properties (`QuitEndsRunningLoop`,
`QueuedTaskRuns`, `HandedOverTaskRuns`, `StopOfRunningLoopJoins`, `TimerExpires`,
`RepeatingTimerRepeats`, `OutputIsSent`, `ShutdownAfterOutput`, `ClientIsServed`,
`ClosedIsRemoved`, `EveryEventIsHandled`), since liveness under fairness is out of
the prover's reach, and `EachByteOnce`, which selects bytes from sequences by a
recursive definition. Every other property of the passing runs is a theorem above.
The hypotheses of the theorems on constants (`~DestroysInHandler`,
`DisciplinedCallers`) are met by the instances of the runs, so each of them has
behaviours.

## 5. What is not modelled

* `EventLoop::updateChannel`'s and `removeChannel`'s assertion of the thread, which
  ends the process, and `epoll_create`.
* Errors of `accept` other than `EAGAIN` and `EMFILE`: of an aborted connection
  `handleRead` ends and is called again; the unexpected ones end the process.
* `TCPConnection::handleError`, which only logs, and `EPOLLERR`, which calls
  it; `highLevelCallback_`; `onDestroyed`, which nothing calls; the bytes of the
  input buffer, which are `Buffer`'s subject.
* `Buffer`: the byte order of the `Int` calls, and `findEOL` and `findCRLF` from a
  given start.
* In `TCPServer`: what a connection does between its two ends (`TCPConnection`),
  the threads' lives (`EventLoopThread`), and several servers in one loop, which
  share only the loop.
* Signals that interrupt system calls. `LOG_ERROR` ends the process, and the
  models stop where a caller would reach it.
* The life of `Timer` objects beyond whether a `TimerID` can still be locked.
* The rest of `Socket`, `InetAddr`, `Log`, type headers, the empty `TCPClient`, and the
  programs under `test/`, read for how callers use the library.

## 6. Plan

Written in this order, the core first: `TaskQueue`, `EventLoop`,
`EventLoopThread`, `EventLoopThreadpool`, `TimerQueue`, `TCPConnection`,
`TCPServer`, `Epoll`, `ByteQueue`, `BufferData`, `Buffer`, with proofs of all but the
two abstract ones. What could still be proved:

1. More ways of using a `Buffer`: a ring whose callers only look (`findEOL`, `peek`)
   as long as its bytes do not wrap.
2. The safety that liveness rests on in the composed models, such as that a client in
   the kernel's queue keeps the listening channel ready.
3. `EachByteOnce`, with an order on a message's bytes in place of the selection.
