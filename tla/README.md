# A TLA+ verification of SPSock

SPSock is a small epoll-based network library in C++: a TCP server with one
acceptor thread, several I/O threads and a work-stealing thread pool, and a
simple UDP server.  This directory holds TLA+ models of its parts, TLC
configurations that check them on small instances, and TLAPS proofs.
Paths below are relative to the repository root (`src/` in `PROJECT.json`).

## 1. Inventory

| Component | State | Operations | Talks to |
|---|---|---|---|
| Circular buffer, `SPBuffer.*` | `back`, `front`, `size`, `bsize`, memory | `read`, `peek`, `write`; zero-copy `distance*`, `*Ptr`, `commit*` | owned by a controller, memory from the buffer pool |
| Buffer pool, `SPBufferPool.hpp` | two free lists, their sizes, a reference count per block | `GetBuffer`, `FreeBuffer`, `reset` | main thread, through `SPBuffer` |
| Controller, `SPController.*`, `SPDeferred.*` | descriptor, `events`, `peerClosed`, two buffers, its I/O thread | `readSocket`, `commitWrite`, `writeBack`, `moveToWriteBuffer`, `enableEvents`, `renableEvents`, `close` | I/O thread, worker, main thread, in turn |
| Task batching, `SPTask.hpp` | `flag`, a ring of tasks | `append`, `commit`, `reset` | I/O thread to pool |
| Thread pool, `base/ThreadPool.hpp`, `base/TPBlockQueue.hpp` | a bounded queue and a stop flag per worker, a round-robin counter | `append`, `append_bulk`, `emplace`, worker loops, `exit` | I/O threads submit, workers run callbacks |
| TCP reactor, `SPSock.cpp` | connection map, per-thread load counters, close list, epoll registrations, exit flag | `MainEventLoop`, `HandleConnect`, `HandleCloseList`, `IOEventLoop`, `HandleRead`, `HandleWrite`, `ActiveClose`, `EventLoop` | everything above |
| TCP lifecycle, `SPSock.cpp` | singleton, status bits, exit flag, listening socket, descriptors of the I/O threads | `Config`, `Listen`, `Set*`, `CreateIOEventLoop`, `ExitIOEventLoop`, `Release` | user program, buffer pool |
| UDP server, `SPSock.cpp` | sockets, threads, status bits, exit flag | `Bind`, `SendTo`, `EventLoop`, `Release` | user program |
| Thread counts, `SPSock.cpp` | none | `CalculateOptimalThreadCounts` | `EventLoop` |
| `TPTask.h`, `SPLog.hpp`, `SPTypes.h` | none of interest | task wrappers, logging, address traits | |

How an event travels: epoll delivers a descriptor once (`EPOLLONESHOT`) to its
I/O thread; the thread reads the socket and buffers a task; `commit` moves the
buffered tasks to the pool; a worker runs the callback, which ends by
`enableEvents` (the descriptor is armed again) or `close` (it joins the close
list); the main thread destroys what is on that list.  A connection is therefore
handed from owner to owner and protected by nothing but that discipline.

What is hard here, and what makes each part correct:

* **buffer**: wrap-around, full and empty; it must be a bounded FIFO of bytes.
* **pool**: sizes read without a lock, stealing, timeouts racing with the stop;
  a task is taken once, a graceful exit leaves none of those accepted before it, `exit`
  returns.
* **reactor**: one owner per connection, no connection without an owner, exact
  load counters, every delivered event answered, a shutdown that ends.  Failing
  `epoll_ctl`, a full pool, partial submissions, failed initialisation and a
  shutdown at any moment are what disturbs this.
* **controller**: short sends and receives at any byte, four ways to send that may
  be mixed, watermarks reached in pieces, a peer that shuts down; bytes keep their
  order, callbacks come when they are due, connections end.
* **buffer pool**: buffers of several blocks mixed in two lists; a block is freed
  with its last buffer, not earlier and not later.
* **lifecycle and UDP**: system calls that fail half way, calls repeated after a
  failure, several instances, an exit flag that outlives them; nothing is lost and
  nothing is used after it was closed.

The hazards, each at its line, are listed in `PROJECT.json`.

## 2. Modules

| Module | Contents |
|---|---|
| `BoundedFifo` | abstract: a bounded queue of bytes with put, take and peek |
| `SPBuffer` | the ring of `SPBuffer.cpp`; implements `BoundedFifo` |
| `SPBufferProofs` | TLAPS proofs about `SPBuffer` |
| `TaskPool` | abstract: what the pool promises to a submitter |
| `ThreadPool` | queues, producers, stealing workers, `exit`; implements `TaskPool` |
| `ThreadPoolExit` | `ThreadPool` with a history variable: what was queued when `exit` was called |
| `SPSockTcp` | the reactor with the task batching and the controller's event mask, composed with `TaskPool` |
| `SPController` | the data path of one connection over two `SPBuffer` records, with an echoing application |
| `SPBufferPool` | the memory pool: the operations as operators, and the contract as a specification of its own |
| `SPTcpServer` | the calls of the user, their failures, connections and their buffers; extends `SPBufferPool` and implements its specification; the thread counts |
| `SPSockUdp` | the UDP server |
| `SPServers` | an application of one of the two servers, for a common run |
| `ThreadPoolProofs`, `SPControllerProofs`, `SPBufferPoolProofs` | TLAPS proofs about these parts (the first also about `ThreadPoolExit`) |
| `SPTcpServerProofs`, `SPSockUdpProofs` | TLAPS proofs about the two servers, each by itself |
| `SPServersProofs` | TLAPS proofs about the TCP server's use of the buffer pool, and about `SPServers` |
| `SPSockTcpProofs` | TLAPS proofs about the reactor |
| `MCSPBuffer`, `MCThreadPool`, `MCSPSockTcp`, `MCSPController`, `MCSPServers` | instances for TLC |

Definitions named "Faulty variant of X" are plausible bugs; substituted for X
they show that a property notices them.  No specification uses them.

**`SPBuffer`.**  A buffer is a record with the fields of the class and the member
functions are operators on it.  Actions are the calls: `Write`, `Read`, `Peek`
copy; `RecvInto` is `recv` at `writePtr()` with `commitWrite`, `SendFrom` is `send`
at `readPtr()` with `commitRead`, the loop bodies of `readSocket` and
`commitWrite` in `SPController.cpp`.  The memory starts with any contents, as the
pool does not clear it.

**`ThreadPool`.**  One action is one critical section of a queue's mutex or one
access to shared memory without it.  `Route` is `next_index` and the unlocked look
at a size, `Push` the locked `push`/`pushBulk`; `Pop`, `StealLook`, `StealGrab`,
`WaitPop`, `WaitTimeout`, `Check`, `Drain` are the stations of the worker loops
(`process_single` for `batchSize = 1`, `process_bulk` otherwise, and the loop
without stealing when there is one worker).  `StopWait` and `Join` are `exit`.
Producers go on submitting until `exit` has deleted the queues, as SPSock's I/O threads
do.  The counter starts anywhere since the code does not initialise it, and wraps.
A graceful `exit` cannot promise that its queues are empty when it returns, since a task
may arrive after its worker left; what it can promise is about the tasks that were
there before.  `ThreadPoolExit` counts these: `early[w]` is the number of tasks of
`queues[w]` accepted before the call and not taken yet, which are its oldest.

**`TaskPool`.**  What remains of the pool for its user: which prefix of a batch
was accepted (all of it unless waiting tasks and batch exceed one queue's
capacity), who holds which task, and the phase of `exit`.  `ImplementsTaskPool` is
the refinement; since a refused task leaves no trace in `TaskPool`'s state,
`PushIsSubmit` states in addition that a push of an array is the abstract `Submit`
of that array, which is the form in which `SPSockTcp` uses it.

**`SPSockTcp`.**  A connection is its descriptor.  The variables are the map, the
controllers' `info` and `events`, what epoll knows (`reg`, `armed`, `mask`), the
program counters of the I/O threads, workers and main thread, the `UtilTaskTcp` of
each I/O thread, the close list with its mutex, and the pool of `TaskPool`.
Bytes are abstracted: whether `readSocket` or `commitWrite` fails and whether a
watermark is reached are free choices, and so is what a callback decides, within
the rules of `SPController.h:208-211` (exactly one of `enableEvents` and `close`,
and `close` after a failed `enableEvents`).  `enableEvents` is three steps
(`CallbackEnable`, `StoreZero`, `StoreEvents`) because the descriptor is armed
before the controller's fields are written.  An iteration of `MainEventLoop` is
the close list (or not: it is looked at every 50 ms), then at most one accept,
then the test of the exit flag.

In `SPSockTcp`, taken as atomic, with the reason: `EPOLL_CTL_DEL` and joining the close list
(between them only the closing thread knows the connection); submission and
re-arming of the refused rest in `commit` (the rest is in no other hands);
`HandleConnect` after `accept` (no other thread knows the descriptor before
`EPOLL_CTL_ADD`, its last step that matters).  A lookup in the `unordered_map`
by an I/O thread races with insertions and erasures of the main thread in the
C++ memory model (`SPSock.cpp:108`, `208`, `402-416`); the model assumes that it
finds the entry.  Likewise `controller->info` read after the erase
(`SPSock.cpp:552`, `561`) is taken to have its old value.

External, modelled from their use: epoll (`EpollWait`: any subset of the armed
descriptors, disarmed by delivery, the exit descriptor readable for good once
written), `accept` (any descriptor that is not open) and `close`.

**`SPController`.**  What `SPSockTcp` leaves open: the bytes.  The peer numbers what
it sends.  One action is one `recv` or `send` with the buffer calls around it, so
the peer can act in between, and each may be cut short, be refused or fail.
`HandleRead`, `HandleWrite` and `HandleWritten` are the decisions of the two
handlers with both callbacks registered (`SPSockTcp` has the cases without); the
worker is reduced to the state `callback`, in which the application makes up to
`MAX_CALLS` calls: `commitWrite`, `writeBack`, `moveToWriteBuffer`, `read` with
`writeTemp`, `peek` with `write`; then `enableEvents` or `close`.  `commitWrite` is
called from three places, remembered in `caller`; `Returned` says where its result
leads.  `full` is the send buffer of the socket: a short send or `EAGAIN` leaves it full,
a complete one may, and only the peer's reading (`PeerReads`, which nothing forces)
empties it; while it is full there is no `EPOLLOUT`.  `EnableEvents` is one step here
because no second thread acts on the connection in this module; the stores after the
re-arming are steps of their own in `SPSockTcp`.  The application never asks for no event at all (it would not hear of the
connection again), and does not write directly while bytes are buffered.

**`SPBufferPool`.**  The pool is a record with the two lists, their sizes, the
reference counts and the set of blocks malloc gave out; a buffer is a block, a
type and an index.  `Alloc` may succeed with any of the numbers it tries, or fail:
malloc decides.  `PoolSpec` is what the comments ask of a user: return what you got,
`reset` only when everything is back (`SPBufferPool.hpp:233`).

**`SPTcpServer`.**  The thread that calls the API, step by step where something can
fail or be seen half done: `EventLoop` up to the start of the threads, opening the
idle descriptor, `accept` and the two buffers of `SOCKController::init`,
`EPOLL_CTL_ADD`, the destruction of a controller (write buffer first, as C++ does),
the end of the loop, `Release`.  Connections may come and go in any order; what
happens to them in between is the subject of the other modules.  Descriptors are
named after their purpose; in addition `zero` tells what number 0 stands for, since
a failing `init` closes that number (`SPSock.cpp:143`): standard input the first
time, the listening socket or a connection later, if one got the number.  Other
reuses of a number are not followed; so `LeaveLoop` stands for the `EMFILE` branch of
`HandleConnect` too, which closes and reopens the idle descriptor through a parameter
passed by value and then ends the loop as any failing `accept` does.  `halfway` is a
history variable: a start failed half way and left entries in `loopInfo`.
`ratio` is the ratio that `Config` stored; `workerThreads` is
`CalculateOptimalThreadCounts`; where the float product may fall
to either side of a half both integers are possible.

**`SPSockUdp`.**  One program counter for the caller and one per receive thread.
`Recvfrom` gets a datagram or times out; `RecvFails`, which no fairness forces, ends
that thread only.  With
an empty `fds`, `EventLoop` reads `fds[0]` all the same: a stale number, which
`recvfrom` refuses, or a crash.

**`SPServers`.**  The two servers share nothing but the number of cores, so a run in
which both act would only multiply their states; an application uses one.

## 3. Runs

| Run | Instance | Checks |
|---|---|---|
| `buffer` | capacity 3, two byte values, requests up to 4 | `TypeOK`, `PositionsAgree`, `ImplementsFifo` |
| `pool_bulk` | 2 workers, queues of 2, batches of 2, 1 producer, 3 tasks | `EarlyDrained`, `ImplementsTaskPool`, `AcceptedIsTaken`, `ExitReturns` |
| `pool_alone` | 1 worker, waiting without timeout, 2 producers | `TypeOK`, `EarlyDrained`, `PushIsSubmit`, `AcceptedIsTaken`, `ExitReturns` |
| `reactor_core` | 2 connections, 2 workers, ring of 2, pool with room, failing `fcntl` and `epoll_ctl` | `TypeOK`, `ExclusiveOwner`, `NoneForgotten` |
| `reactor_full_pool` | 2 I/O threads, pool with one place, unbatched, one event per wait | `ExclusiveOwner`, `NoneForgotten`, `CountExact`, `EventIsServed` |
| `reactor_shutdown` | only a read callback, one failing `init`, exit flag and accept failure, two events per wait | `ExclusiveOwner`, `CountExact`, `ShutdownEnds` |
| `controller` | rings of 3 and 2 bytes, 4 bytes to echo, 2 calls per callback, with and without watermarks | `EchoInOrder`, `MoveUsesQuota`, `ReadServed`, `WriteServed`, `PeerCloseServed` |
| `servers` | 5 cores, 60% or 90% workers; TCP: 3 connections, 2 blocks of 2 pairs, at most 2 free ones; UDP: 5 sockets | the invariants of `SPTcpServer`, `SPBufferPool` and `SPSockUdp`, the refinement `PoolSpec`, `UdpExitReturns` |
| `reactor_flag_down` | 3 events per wait, pool with one place | `ExclusiveOwner` is violated |
| `reactor_late_store` | 1 connection, 1 worker | `StoresToLiveController` is violated |
| `reactor_exit_order` | 1 connection, shutdown | `SubmitsToLivePool` is violated |
| `reactor_ring_end` | 4 connections, queue and ring of 2, two events per wait | `NoneForgotten` is violated |

Further configurations, for a reader who wants the traces of section 4; TLC finds each
of these violations within seconds:

| Configuration | Module | Instance | Violated |
|---|---|---|---|
| `MCSPSockTcpStaleRearm.cfg` | `MCSPSockTcp` | 1 connection, 1 worker, a read watermark | `ArmedAsAsked` |
| `MCSPSockTcpNoCallback.cfg` | `MCSPSockTcp` | 1 connection, only a read callback, failing `epoll_ctl` | `NoneForgotten` |
| `MCSPSockTcpInitFails.cfg` | `MCSPSockTcp` | 1 connection, one failing `init` | `NoneForgotten` |
| `MCThreadPoolSingle.cfg` | `MCThreadPool` | 2 workers taking single tasks, 1 task | `EarlyDrained` |
| `MCSPServersRetry.cfg` | `MCSPServers` | 4 cores, at most 2 entries of `loopInfo` | `StartedLoopsAreOpen` |
| `MCSPServersEmptyFds.cfg` | `MCSPServers` | 2 sockets | `EventLoopHasSocket` |

*Bounds.*  Capacity 3 is the least at which a wrapped request has two parts of
different lengths and the ring can be neither full nor empty at every position.
Three tasks and two queues of two fill a queue, divert a producer, cut a batch
short and leave something to steal; with more workers the steps are the same and
the state space is out of reach, as it is with two producers (`pool_alone` has two, and
what `pool_bulk` checks of safety is proved for any number).  Two connections suffice for interference between
connections, a long and a short close list (`CLOSE_BATCH = 1` stands for the 10 of
`HandleCloseList`) and a descriptor that is reused; `reactor_flag_down`, which needs a full
pool and another batch at once, has three, and `reactor_ring_end`, which needs a full
queue of two and a batch of two across the end of the ring, four.  `INDEX_RANGE` lets the
round-robin counter wrap, `InitFailures` bounds the failing allocations.
Rings of 3 and 2 bytes wrap around at different places, and
four bytes fill the write ring twice.  Five cores give two I/O threads at 60%, the least
for which a start can fail half way, and with `MAX_LOOPS = 3` a second failing start
has room to add an entry too many; 90% of them is 4.5, which may round to all five and
must not.  Three connections need a second block while the
first is in use, and returning them overfills a list of two, so blocks are freed
with buffers of theirs returned in every order; a third block would add nothing but
states.  In `controller` and in the runs of the servers the system may stop (a closed connection, a
user who makes no further call), so deadlock is not checked there.
The workers of `reactor_core` and the descriptors of `reactor_ring_end` are
interchangeable; these runs check no liveness.

*Fairness.*  `ThreadPool`: every worker, a producer about to push, and the caller
of `exit` take their enabled steps (weak fairness); callbacks return.  A producer that
submits again and again can keep a worker in its loop, so `ExitReturns` excludes the
behaviours in which some submission is in progress infinitely often.

`SPSockTcp`, for every liveness property (`ThreadsRun`): weak fairness of the main
thread; strong fairness of what an I/O thread does with the events it received
(`EventStep`, without `EpollWait`) and of a worker's callback, since both may wait for the
mutex of the close list, which the main thread holds for a few destructions every 50 ms at
most.  `EventIsServed` (`ServiceFairness`) adds strong fairness of `HandleCloseList`,
because the 50 ms timer, not the accept queue, decides when it runs, and of taking a
waiting task while the pool is up, which is what `AcceptedIsTaken` shows for
`ThreadPool`.  `ShutdownEnds` (`ExitFairness`) adds that the exit descriptor, readable for
good, is reported by some `epoll_wait`, and that `pool.exit()` returns unless I/O threads
submit for ever, which is `ExitReturns`; the same exception is part of `ShutdownEnds`: the
main thread stops the I/O threads only after the pool, so clients that never pause could
keep it in `pool.exit()`.

`SPController`: weak fairness of an event that epoll has to report (input is there, or the
socket has room) and of the thread that owns the connection, whose callback returns after
at most `MAX_CALLS` calls.  `PeerReads` has none: `WriteServed` excludes a socket that stays
full for ever.  `SPSockUdp`: weak fairness of each receive thread, since `recvfrom` has a
timeout of 50 ms (`SPSock.cpp:956`) and callbacks return, and of the join.
No fairness is assumed of clients or of the exit signal, and no connection of `SPSockTcp`
has to receive an event.

*What the passing runs mean.*  The ownership discipline is sound whenever the pool
accepts what it is given, and also when it refuses, as long as at most one task is
submitted per `epoll_wait`.  The violation runs and section 4 show the cases left over.  The echoed
bytes keep their order whatever calls are mixed.  The pool's memory is safe and goes
back completely, also when the event loop ends with connections open.  Descriptors
survive failures and retries, except after a start that failed half way.  A worker that
takes tasks in batches empties its queue before it leaves a graceful `exit`.

## 4. Disagreements between the code and its comments

With a run:

* `reactor_flag_down`: after a refusal `append` re-arms **and** submits the next
  connection (`SPTask.hpp:59`, `96`): two callbacks of it can run at once.
* `reactor_late_store`: `enableEvents` writes to the controller after it armed the
  descriptor (`SPController.cpp:226-235`), when it may already be destroyed.
* `reactor_exit_order`: `EventLoop` shuts the pool down before the threads that
  submit to it (`SPSock.cpp:696-697`).
* `reactor_ring_end`: a refused `commit` forgets the tasks beyond the end of the ring
  (`SPTask.hpp:138-139`; line 110: "reactivates unsubmitted tasks").

With a configuration of its own (section 3):

* `MCSPSockTcpStaleRearm.cfg`: inside `enableEvents`, after it armed the descriptor, an I/O
  thread can re-arm the connection from the field that was just set to 0; from then on
  epoll reports only a hangup for it (`SPController.h:71`: "previously configured
  events").
* `MCSPSockTcpNoCallback.cfg`: a handler without callback closes when `enableEvents`
  succeeded and does nothing when it failed (`SPSock.cpp:596`, `635`), so the connection is
  forgotten (`SPController.h:209`: "If enableEvents fails, close() MUST be called");
  `reactor_shutdown` therefore sets `CtlMayFail = FALSE`.
* `MCSPSockTcpInitFails.cfg`: a failed `init` closes descriptor 0 instead of the new
  connection (`SPSock.cpp:143`), which stays in the map without buffers and without an
  owner.  `CountExact` speaks of connections somebody owns and `MappedIsOpen` of entries
  and descriptors, so neither is disturbed.  If a listening socket has the number 0, the
  server goes on without one (`HandleConnect` of `SPTcpServer` needs `Listenfd \in open`).
* `MCThreadPoolSingle.cfg`: `process_single` returns without draining its queue
  (`base/ThreadPool.hpp:393`), while `exit(true)` is documented as "graceful shutdown
  (waiting for tasks to complete)" (line 249).
* `MCSPServersRetry.cfg`: after a half failed `CreateIOEventLoop` the entries of `loopInfo`
  stay (`SPSock.cpp:272-279`); a second `EventLoop()` counts them, and when it too fails
  half way the two can make up the number: the I/O threads wait on closed descriptors and
  end the process (`IOThreadDies`), while `SPSock.h:164` says "true if all resources
  initialized successfully".
* `MCSPServersEmptyFds.cfg`: `Bind` returns true although it closed its sockets after a
  failure (`SPSock.cpp:974-983`; `SPSock.h:348`: "false on error"), and `EventLoop` uses
  `fds[0]` (`SPSock.cpp:1015`).

Smaller ones, noted while reading:

* The UDP `EventLoop` never sets the bit that its "one time call" test reads
  (`SPSock.cpp:989`), so a second call finds `fds` empty too.
* The exit flag is static and never set again: a second instance of either server
  leaves its loop at once.
* The TCP `EventLoop` returns true when `MainEventLoop` failed
  (`SPSock.cpp:693-701`; `SPSock.h:231`: "false on error"), and a single failed
  `accept` ends the server, `EMFILE` included, for which the idle descriptor is kept.
* `Release` says it closes sockets (`SPSock.h:286`); those of open connections stay
  open, and `Cleanup`, which would close them, is never called.
* `commitWrite` and `writeBack` never return the documented -2
  (`SPController.h:137`, `149`), and `writeBack` may return the rest of the write
  buffer as if it were bytes written (`SPController.cpp:178`).
* A peer that shuts down with fewer bytes than the read watermark unread is
  reported and re-armed for ever, and since `EPOLLOUT` is looked at only without
  `EPOLLRDHUP`, its write events starve.  `PeerCloseServed` therefore asks for
  `Unread = 0`, and `WriteServed` ends with `fin`.  Bytes a read callback leaves in the
  buffer are not announced again until more arrive.
* A read watermark above `READ_BSIZE` is accepted and never reached.
* `README.md:189` allows a `RECV_BSIZE` of 64 KB, `Config` asserts 200 KB.

## 5. Proofs

All theorems hold for every value of the constants that the named assumptions allow.

**`SPBufferProofs`** (assumptions `BSIZEAssumption`, `DataAssumption`,
`LengthsAssumption`; `Config` asserts a stronger form of the first).

* `RingTyped`, `RingConsistent`: `Spec => []TypeOK` and `Spec => []PositionsAgree`.
  `PositionsAgree` is not inductive without `TypeOK` (the wrap-around needs the
  ranges), together they are (`RingAlways`).
* `RingImplementsFifo`: `Spec => ImplementsFifo`, the refinement of `BoundedFifo`
  with `queue <- Contents(buf)`.  The argument: position `(back + i - 1) % bsize` is
  computed without `%` (`CellIsRemainder`); `write` and `RecvInto` leave the cells
  of the contents alone and put the new bytes in the cells after them
  (`WriteAppends`, `RecvAppends`); `read` and `SendFrom` move `back` over a prefix
  (`ReadTakes`, `SendTakes`); `copyOut` in one or two parts is that prefix
  (`CopyOutOldest`).  `StepSimulates` collects one case per action.

**`ThreadPoolProofs`** (`SizesAssumption`: what `init` and the assertion of
`append_bulk` demand).

* `PoolTyped`: `Spec => []TypeOK`, with the bound on every queue.  The inductive
  invariant `PoolInv` adds that a submission in progress has a queue and fits into
  one (`RouteInv`), that a worker about to steal has a victim (`StealInv`) and
  that the pool is down only when every worker left with empty hands (`ExitInv`).
* `PoolImplementsTaskPool`: the refinement of `TaskPool`, with `waiting` the number of
  places a task has in all queues.  A push into one queue adds up in the sum over
  all of them (`CountConcat`, `OneQueue`), a push that refuses something found its
  own queue crowded with waiting tasks (`PushSimulates`), and what `Pop`,
  `StealGrab`, `WaitPop` and `Drain` remove is what the worker then holds
  (`TakeSimulates`).  `PushesAreSubmits` is the action property `PushIsSubmit` from
  the same lemma.
* `EarlyTasksDrained`: `ExitSpec => []EarlyDrained` for workers that take tasks in batches
  or a single worker, with any number of producers that submit while `exit` runs.  The
  condition is needed: `process_single` with several workers fails it (`MCThreadPoolSingle.cfg`).
  `EarlyDrained` speaks of the moment `exit` returns; the invariant `EarlyInv` says that a
  worker that is gone has left no early task behind, at whatever time it left, and that
  no queue has fewer tasks than early ones.  It rests on `StopInv`: a worker reaches its
  last drain, or its exit from the wait, only when its queue was stopped, hence after
  `exit` was called and what counts as early was fixed.  `LeavesDrained` is the step in
  which a worker goes: it found its queue empty under the mutex, late tasks included.

**`SPControllerProofs`** (`ControllerAssumption`).

* `EchoKeepsOrder`: `Spec => []EchoInOrder`, for any two ring sizes, watermarks,
  number of bytes and of calls per callback.  `CtlInv` adds the shape of both rings,
  the ranges of the counters, and two facts about program points: `writeBack` sends
  from the read buffer only behind an empty write buffer (without this the order
  breaks), and in `moveToWriteBuffer` the rest of `maxMove` is the smaller of what is
  there and what fits.  What each call does to the contents of a ring comes from the
  lemmas of `SPBufferProofs`, instantiated once per ring.
* `MoveNeverStuck`: `Spec => []MoveUsesQuota`, from the second of these facts.

**`SPBufferPoolProofs`** (`PoolAssumption`: `PEER_ALLOC_NUM` is at most 1024 and
at most `MIN_BLOCK_NUM`).

* `NoBufferDangles`, `BuffersHandedOutOnce`, `RefCountsExact`: the three invariants of
  the pool under its contract `PoolSpec`, for any number of blocks and of buffers per
  block, whichever sizes malloc grants.  `PoolSound` joins them with the types, with
  the sizes of the lists and with where the buffers of a block are; `RefCountExact`
  alone is not inductive, because freeing a block takes all its buffers out of the
  lists and only `HandedOutOnce` says how many those are.  `GetBufferGives` and
  `FreeBufferLeaves` are the two operators, used again below.

**`SPTcpServerProofs`**, **`SPServersProofs`** (`PoolAssumption`, `ServerAssumption`:
there is a connection to speak of and the null pointer is no buffer;
`SocketsAssumption`, `CoresAssumption`).

* `DescriptorsKept`: `TcpSpec => []NoDescriptorLost`, and `LoopsServed`:
  `TcpSpec => []LoopsServeOpenEpolls`.  The
  inductive invariant ties every descriptor to the state that will close it: the
  listening socket to `instance` and `listenfd`, and `listenfd` in turn to the status
  bit of `Listen` (without it a repeated `Listen` would overwrite the field and lose
  the first socket); the idle descriptor to the states of `MainEventLoop`; the loop
  descriptors to `1 .. loopInfo` while the threads run and to nothing otherwise; and
  an entry without open descriptors to `halfway`.  Steps that touch none of this
  (connections, buffers) are one lemma, `ConnectionStep`.
* `ThreadCountsFit`: `ThreadsFit(h, r)` for every `h > 0` and `r` in `1 .. 99`, from
  `RoundedBounds` (the rounded product lies in `0 .. h`).
* `ServerUsesPool`: `TcpSpec => PoolSpec`, so the invariants of the pool hold inside
  the server; `ReleaseReturnsMemory`, `BuffersPaired`, `MapOnlyOpen`: the server's own
  invariants about memory and connections.  `MemoryInv` is one inductive invariant for
  all four: a buffer in use belongs to one connection (`LinkInv`), a connection
  has both or neither of its buffers unless it is set up or destroyed at this moment
  (`PairInv`), the two free lists differ in length by exactly that connection
  (`LengthInv`), mapped connections are open (`OpenInv`), and without an
  instance there is nothing (`InstanceInv`).  `LengthInv` is what makes
  `SOCKController::init` find a write buffer after it got a read buffer.
* `ServersTyped`: `Spec => []TypeOK` of the composed application.

**`SPSockUdpProofs`** (`SocketsAssumption`): `ThreadsHaveSockets` and `SocketsKept`, i.e.
`UdpSpec` implies `[]SocketOutlivesThread` and `[]NoSocketLost`.  They are inductive only
together and with the types: a thread that starts has a socket because `fds` is complete,
and `fds` is complete because the sockets are closed only after the join.

**`SPSockTcpProofs`** (`ConfigAssumption`).  All four invariants of the reactor, for any
number of descriptors, I/O threads and workers, any queue length, batch sizes, callbacks,
watermarks and interests.  The hypotheses are the ones under which the code keeps its
promise; outside each of them section 4 has a behaviour that breaks it:

| hypothesis | says | otherwise |
|---|---|---|
| `FewOrSingle` | at most `QUEUE_LENGTH + 1` descriptors, or one event per wait | `append` with its flag down (`reactor_flag_down`), or a batch across the end of the ring (`reactor_ring_end`) |
| `NoStdin` | `accept` does not return descriptor 0, or `init` does not fail | a failed `init` erases the connection with descriptor 0 |
| `Lossless` | `epoll_ctl` does not fail, or both callbacks or none are registered | `SwapInterest` forgets the connection (`MCSPSockTcpNoCallback.cfg`) |

* `ExclusiveOwnerAlways`: `Spec => []ExclusiveOwner` under `FewOrSingle` and `NoStdin`.
  `ExclusiveOwner` is not inductive: that a hand-over adds no second holder depends
  on where each thread is.  The invariant is `\E own : Owned(own)`, where `own` gives every
  descriptor one owner or `Nobody`: epoll, the events or the task buffer of an I/O
  thread, the queues of the pool, the hand of a worker, the close list, the list being
  destroyed.  `Fits` says that each of these places contains exactly what it owns,
  and the parts next to it that no list repeats an element, that an I/O thread
  that waits has nothing, and that with its flag down nothing is left for `append` (this
  needs `FewOrSingle`: `Refused` shows that a refused batch is all its thread had, because
  the pool with what waits in it and the batch already account for all descriptors).
  Every step is then a move of some connections from one owner to another (`Moving`), or
  to several (`Scattering`, for a `commit` that is accepted in part).
* `NoneForgottenAlways`: under `FewOrSingle`, `Lossless` and `InitFailures = 0` (a
  connection whose `init` failed stays in the map, unowned: `MCSPSockTcpInitFails.cfg`).  The moves above never make
  a connection ownerless except in `CloseConnection`, which takes it out of the map.
* `CountExactAlways`: under all three hypotheses.  `Counted` counts the owned connections
  of each thread, and the one that `CloseConnection` has erased and `CountDown`
  still has to count.  `LeastLoadedType` shows that the choice in `LeastLoaded` exists.
* `ReactorTyped`: `Spec => []TypeOK` under all three, since the bound on `count`
  follows from `Counted`.

Only model-checked: all properties with `~>`, since liveness and `ENABLED` are out of the
prover's reach.  `StoresToLiveController`, `ArmedAsAsked`, `SubmitsToLivePool`,
`StartedLoopsAreOpen` and `EventLoopHasSocket` are violated, so there is nothing to prove.

## 6. Plan

1. Done: all modules and runs above, the proofs of section 5.
2. Left: `ReactorTyped` without `Lossless`, by counting the forgotten connections too;
   `FewOrSingle` as the weaker condition that a refused batch is all that its I/O thread had.

## 7. Not modelled

Logging and address parsing (no state a property depends on); the socket options of
`EnableLinger` and `EnableKeepAlive`, and `SendTo`, which only pass values to the
kernel; `base/TPTask.h` (not used by SPSock); `emplaceBulk`, which calls a queue
member that does not exist and so is never instantiated; allocation failure inside
an I/O or receive thread (it ends the process); byte sizes in the buffer pool;
`Cleanup` (never called); `include/` (copies of the headers).
