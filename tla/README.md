# A verification project for minapp

minapp is a TCP micro framework in C++ on top of Boost.Asio, after Apache MINA.
Applications supply a `handler`; the library makes `session`s, reads packets from
them, queues and writes buffers, and closes them. This directory holds TLA+
models of it, TLC configurations that check them, and proofs.

## 1. The system

| Component | State it keeps | Operations | What makes it correct |
|---|---|---|---|
| **session** (`src/src/session.cpp`, `session.hpp`) | `status_`, `socket_`, `handler_`, the promise of `connect()`, protocol settings, `buf_`, `write_queue_` | connect completion, `read` and its completions, `write`, the completion of `async_write`, `close(false)`, `close(true)`, destructor | one reader, one writer; buffers leave in order and none is forgotten; closed once, finally, and eventually; the session is freed |
| **framing** (`session.cpp`, `buffer.hpp`, `protocol.hpp`) | `triple_buffer`: external input, internal input, output, and the handler's view | `read_some`, `read_fixed`, `read_delim`, `read_prefix`, `consume` | the handler sees each packet whole and once however the stream is cut; errors only when there is a reason; memory bounded |
| **write queue** (`persistent_buffer_manager.hpp`) | cached, managed and marked lists, pool, marker, four spinlocks | `manage`, `mark`, `marked`, `clear_marked` | no node lost or used twice; a batch stays together; one user of the marked list |
| **session_manager** (`session.cpp`) | intrusive set of sessions by id, spinlock, id counter | `create`, `get`, `foreach`; registration in constructor and destructor | nobody gets a dead session; `foreach` is complete and in order; the lock is always released |
| **object::atomic** (`object.hpp`) | one word: pointer and two lock bits | `load`, `store`, `exchange`, `compare_exchange`, `lock`, `set`, `unlock` | linearizable; reference counts exact; no sleeper forgotten |
| **service, connector, acceptor** (`service.cpp`) | handler, manager, context, listening socket | `connect`, `bind`, `unbind`, `accept` | an accept is always outstanding while bound; the session is complete before others see it |
| **attribute_set, servlets** (`attribute_set.cpp`, `servlets.hpp`) | map from names to objects, spinlock | `get`, `set`, `emplace`, `replace`, `remove`, `compute`, `foreach`, `swap`; servlet `get`/`set`/`ret`/`add`/`del` | each operation atomic; `foreach` complete and fresh; one instance per servlet |
| **handler** (`handler.cpp`) | none | wraps callbacks so that exceptions become `except` or `error` | no exception of the user leaves a completion |
| `object`, `persistent_buffer`, `hexdump`, Bluetooth endpoints | values | conversions | sequential |

How they interact. Threads call `io_context::run()`. A `service` creates sessions
through its `session_manager`, hands them their socket and handler, and starts them.
From then on completions of asynchronous operations drive the session; each holds a
`session_ptr`. Completions call the handler, and the handler calls back into the
session: `write`, `close`, protocol settings. Other threads do the same through a
`session_ptr` they kept or found in the `session_manager`. The session has no strand:
completions and calls of one session run at the same time on several threads, kept
apart only by the atomic `status_`, the marker of the write queue, and the fact that
one read is outstanding at a time.

The hard parts: the closing protocol (`close(false)` must drain a queue that others are
filling, `close(true)` may come at any moment, late completions must do no harm); the
hand-over between writers and the write completion; nodes that are reused while other
threads queue; the registry that publishes a session before it can be held and hides it
after it cannot; segmentation, and protocol changes between packets with bytes left
over; the lock bits shared with a pointer and a parking flag. The `hazards` of
`PROJECT.json` list them line by line.

## 2. Modules

Checked by TLC: `Session` and `WriteQueue` (both implement `OutQueue`), `SessionManager` and
`Service`, which extends it, `Framing`, `ObjectAtomic` (implements `AtomicCell`),
`AttributeSet` (implements `AttributeMap`; both take the values and functions of
`Servlets`), each with an `MC` module that gives the constants values or adds symmetry.
Proofs: `SessionProofs` and `SessionCloseProofs`, which extends it; `ServiceProofs` and
`ServiceCallProofs`, which extends it; `WriteQueueProofs`, `FramingProofs`,
`ObjectAtomicProofs`, `AttributeSetProofs`.
Definitions whose comment starts with "Fault" are not part of any specification: each
is a plausible mistake in the definition after it, kept to show that the properties
would notice it.

### Session
One session, any number of threads. `task[t]` is what thread `t` runs (a connect, read
or write completion, a call from user code, the destructor), `pc[t]` the statement it
executes next, `after[t]` what happens when the handler callback it is in returns. One
step goes from one access to shared state to the next: `Write` is the test of `status_`
in `write()`, `Mark` is `mark()`, `Drained` the second test of `status_`, `StartWrite`
the call of `async_write`. All calls in the code are tail calls except those that a
callback makes, so no stack is needed.

`status` is `status_`; `CloseNow` and `CloseGracefully` are the compare-and-swap loop,
which is one atomic change of the value. `sock` is what matters of the socket: open,
receive side shut, closed. On Linux `shutdown_receive` lets received data be read and
makes a pending read end; that is the behaviour modelled. `op[o]` is an asynchronous
operation: pending, or ended with "ok" or "err" and waiting for a thread. `promise` is
the future of `connect()`; an accepted session has none. `managed` and `marked` are the
lists of the write queue with buffers as numbers in the order of acceptance; what the
lists do inside is `WriteQueue`. `Read`, `Arm`, `ReadCompletion` and `PrefixCompletion`
are the control flow of reading, with the packets still in the buffer as a counter;
what a packet is, is `Framing`. `SetConnected` and `EnterConnected` follow
`session::connect(ec, promise)`: the unconditional store, then `remote_endpoint()`,
which can throw out of the completion. User code may call `write`, `close(false)` and
`close(true)` in every callback and from outside; with `EarlyAccess` also before a
callback has given it the session, through the `session_manager`. `raced` and `drained`
are histories: whether a buffer was queued between the two looks of another `write()`,
and whether a `write()` has found the queue drained in state closing.

### WriteQueue and OutQueue
The lists node by node. Each critical section of `hold_buffer`, `manage`, `mark` and
`free_buffer` is one step; `mark()` takes a second lock while it holds the first and is
two. `clear_marked()` takes none: it disposes node by node (`Wipe`, `Release`) and the
list counts as non-empty until `ClearEnd`. `SendBuffer` reads the node when TCP takes it,
so a node reused too early would be seen on the wire. `order` is a history of the items in the
order in which their batches were spliced. The failing write, after which
the session closes and the queue is never used again, is in `Session` only. `OutQueue`
says what a queue is: accept at the end, take the whole batch, send it front to back. The write
side of `Session` implements it too (`managed`, `marked`, `wire`, and as many of the batch sent as
`wire` is ahead of `acked`): what the manager promises of its nodes is what the session makes of it.

### SessionManager
`refs[i]` is who holds a `session_ptr` of session `i`, `weak` the sessions whose weak
pointer has been set. `Create`, `Insert`, `Publish` are `make_shared<session_impl>`: the
id, the insertion in the constructor, the return of `make_shared`. `Unref` is the release
of a pointer; the last one runs the destructor, which erases under the lock (`Erase`).
`Scan` is the loop of `foreach`, with the exception of `shared_from_this()`. A thread's
variables return to their initial values after a call. The last pointer of a session may be that of
an operation in progress, `Owner`, as well as that of a thread.

### Service
Adds to the threads of `SessionManager` what they do for a service. `step[t]` is the next
statement of `connect()`, of `connect_impl()`, of the completion of `async_accept` or of
a completion of `async_connect`; where the code calls `create()`, or lets a `session_ptr`
go, the actions of `SessionManager` run it to its end, and `pc[t]` says how far it is. So
the time between `create()` and `handler_ = ...` is there, with `get()` and `foreach()` of
other threads in it. The acceptor is a socket and one `async_accept`; `Bind` fails as
`open()`, `bind()` and `listen()` may, `Unbind` cancels, `Incoming` is the network.
`AcceptCompletion` ends in an exception if there was an error, or goes on to
`Rearm`, which accepts again first and builds the session afterwards.

`handler[i]` is which class `handler_` points at: null, a wrapped handler of the application, a
`connect_handler`, or the dummy. `OnConnect`, `OnExcept`, `OnError`, `OnErrorAgain`,
`OnClose` are `noexcept_handler_impl`: an exception goes to `except`, one of `except` to
`error`, one of `error` to `error` again, and one of that is swallowed. They run the class
that `handler()` returned (`who`), although `Invoke` replaces `handler_` meanwhile.
After a failed connect comes `close(true)`, with the handler of that moment; one that
closes earlier or later is `Session`'s subject.

### AttributeSet, AttributeMap, Servlets
`AttributeSet` has a spinlock and a map for each set. Operations that are one critical section
are one step (`Section`); `compute` holds the lock over the call of `f` (`ComputeBegin`,
`ComputeEnd`), which may throw; `foreach` copies an entry under the lock, lets it go for the
call of `f`, and goes on at `upper_bound` of the key (`ForeachNext`, `Visit`); `swap` is
`std::lock` of two spinlocks, which backs off (`SwapFirst`, `SwapBoth`, `SwapBack`). `Requests`
are the calls threads may make, one record per overload and argument that behaves
differently. `Servlets` holds what needs no state: the order of keys, how results become
objects, pointers, references or exceptions, and the lambdas that `servlets::ret`, `add` and `op` give to
`compute`. An exception in `servlets::remove`, which is noexcept, ends the process. In
`AttributeMap` every operation takes effect in one step between call and return, and each
call of `f` by `foreach` is a step of its own: that is what the header promises. `arg[t]` is the
pair of key and value that `f` sees; for the abstract map it is one while `f` runs and nothing
otherwise (`Shown`), and the steps of locking are invisible (`Phase`).

### Framing
`external`, `internal`, `output` are the three parts of `triple_buffer`, `view` the
handler's window. `pc` is the member function that runs, `arg` its parameter. The actions
follow `read`, `read_some`, `read_fixed`, `read_delim`, `read_prefix` and their
completions. Each `HandlerReturn` chooses the next settings from `Configs`. A read brings
any bytes; one byte has `2 * Half` values and `std::uintmax_t` has `Word` bytes, so that
the shift and limit arithmetic of prefixes is kept with small numbers. `Value` sums the bytes of a
prefix by position and drops what leaves the word, as the code's shifts do; the reference,
`Frames`, says what a packet is from the stream alone, and reads the number from its
first digit on (`Digits`). `Limit` is 2 to the bits of the word. `FramingAssumption` says that a prefix
of fixed width fits the word and that the longest varint the code reads does not overflow it: 128^9 + 8 is less than 2^64. `async_read_until` is modelled
from its contract for DynamicBuffer_v2 (Boost 1.70 and later). Reads form one chain,
which `SingleReader` of `Session` shows, so there are no threads.

### ObjectAtomic and AtomicCell
The word is a pointer with bits "free", "locked" or "waiting" (the code's 0, 1, 2). `TryLock`,
`TryWait` and `Wait` are the cases of `lock_and_load()`, with the word as last read in
`seen[t]`; a compare-and-swap that fails rereads it. `atomic::wait` compares and sleeps in
one step. Before C++20 there is nothing to sleep in: the loop reads the word again, and these
steps are among the model's. `lock()` or `try_lock()` followed by `get()` or `set()` and `unlock()` are operations too. `mine`, `desired` and `obj` are the `object` variables of each operation, and
`refs` the counts; a freed object's address can be used again (`New` takes any object
with count 0), so a value can return to the word (ABA). `AtomicCell` lets each operation
take effect in one step between call and return.

## 3. Runs

| Run | Bounds | What it shows |
|---|---|---|
| `session_threads` | 2 threads, 3 user calls, 1 packet left over per read | `WriteOrder`, `SinglePump`, `NoLostWakeup`, `ImplementsOutQueue`: the write side. `CloseOnce`, `ClosingAttended`, `ClosedIsFinal`, `GracefulFlush`: closing. `SingleReader`: reading |
| `session_live` | 2 threads, 2 calls, fairness | a graceful close ends, buffers are acknowledged, the future becomes ready, a closed session is freed |
| `session_early` (violation) | 2 threads, 1 call, early access | `ClosedIsFinal` fails |
| `write_queue` | 2 threads, 3 calls of at most 2 buffers, 2 cached and 4 pool nodes, marker up to 2 | `NodeOnce`, `BatchesInOrder`, `MarkerProtects`, `ImplementsOutQueue` |
| `service` | 2 threads, 2 sessions, 2 scans or lookups | `AcceptorListens`, `ConnectCalledOnce`, `ClosesWithHandler`; of the registry in its use `HeldIsRegistered`, `NoResurrection`, `CompleteScan` |
| `service_handler` (violation) | the same, 1 scan or lookup | `HandlerPresent` fails |
| `session_manager_lock` (violation) | 3 threads, 3 sessions, 2 scans or lookups | `LockReleased` fails |
| `framing` | 10 settings, 6 bytes of 4 values, word of 3 bytes | `PacketExact`, `NoStall`, `ErrorJustified`, `BufferBound` |
| `framing_consume` (violation) | 4 bytes | `ViewInExternal` fails |
| `framing_wrap` (violation) | a prefix as wide as the word | `FixedFits` fails |
| `object_atomic` | 3 threads, 2 objects, 4 operations | `RefsExact`, `MutualExclusion`, `NoMissedWakeup`, `ImplementsCell` |
| `attribute_set` | 3 threads, 2 sets, 3 keys, 3 calls out of 30 | `ForeachComplete`, `OneServlet`, `ImplementsMap` |

Why these bounds. *Session*: the races are between a caller and a completion, or two
callers, at one point of the write or close protocol; two threads give every pair and
three calls a write, a second write or close to collide with it, and one after. A
callback can call too, so one thread can be inside a callback of one completion while
the other runs another. *WriteQueue*: three calls put a batch on the wire, one in
`managed` and one being filled, and six nodes make both the cache and the pool run dry
and refill; the marker wraps at its second batch. The pool never lacks a node, as
`malloc` does not. *SessionManager*, *Service*: one session is built while the other
is found, visited or dies; an accept is answered while the session of the one before is built, and its
completion runs on the other thread. A visit is one session behind or ahead of a
deletion in a set of two, which is what a stale iterator needs. *Framing*: six bytes hold a packet, the next packet's prefix and
a leftover, so a switch of protocol happens with full, partial and no leftovers; the
buffers are small enough to be filled exactly. *ObjectAtomic*: a holder, a sleeper and a
third thread that locks in between, plus a fourth operation by whoever returns first,
which is what a forgotten sleeper or a returned pointer needs.
*AttributeSet*: two changes by two threads around or inside the operation of a third. The
keys are a servlet without and with an instance and one of another type, so that a
prefix has members, an end and a successor; the first set starts with a foreign object, a null and a
mapping given twice. Two threads calling `swap` in opposite directions are among the requests. The bounds `MaxCalls`,
`MaxBacklog`, `MaxId`, `MaxScans`, `MaxBytes` and `MaxOps` stand in guards; `MaxMarker`
is the code's own `numeric_limits<long>::max()`.

Deadlock is checked except in the runs of `SessionManager` and `Service`, where a registry whose lock was left
taken does stop (the finding of `session_manager_lock`), and threads stop when the
bounds are used up. In `attribute_set` it shows that `swap` in opposite directions does not block. Where a run may end, an explicit `Finished` or `Stopped` step says so.

Fairness (`session_live` only). A thread that runs goes on, and callbacks return (weak
fairness per thread). `io_context` serves completions in FIFO order, so a ready one is
not passed over for ever although threads are busy in between (strong fairness). The
kernel answers a connect, ends a read once the socket is shut, and ends a write. That
last assumption is about the peer: the code has no timeout, and a peer that never reads
keeps `close(false)` waiting. Nothing is assumed about incoming data, user calls, or the
application dropping its `session_ptr`.

## 4. What was found

1. `session.cpp:401`: connecting stores `connected` whatever the state was; a session closed
   early is closed no longer, and `handler::close` comes twice (`session_early`).
2. `session.cpp:725`: `shared_from_this()` throws while `foreach` holds the registry's lock by hand
   (`session_manager_lock`).
3. `service.cpp:67`: a session is in the registry, and can be closed by whoever finds it, before
   it has a handler; `close(true)` then calls through a null pointer (`service_handler`).
   `ClosesWithHandler` says that it has one whenever the library itself closes or destroys it.
4. `buffer.hpp:158`: `consume(n)` for an `n` before the view leaves the view's end where it was
   (`framing_consume`).
5. `session.cpp:682`: size plus prefix length wraps for `prefix_64`, and the assertion of
   `read_fixed` fails (`framing_wrap`). `BufferBound` holds for narrower prefixes.

Not findings, but worth knowing:

- `close(false)` delivers what was written before it (`GracefulFlush`) unless a third
  thread queues a buffer in between: `write()` learns from `mark()` that the queue is
  empty and then reads `status_`; if meanwhile one thread queues a buffer and another
  sets closing, `close(true)` discards the buffer. `raced` marks these behaviours, and
  the property excepts them; no documentation promises more.
- `handler::read` is called in states closing and closed as well, even after `handler::close`
  (`session.cpp:329` has the test commented out), where the diagram of `session.hpp`
  has the edge on state reading only.
- An error of `async_accept` is thrown out of `io_context::run()` and not followed by another accept.
  The socket stays open, so a later `bind()` fails too. `AcceptorListens` therefore ends
  with the first error. `unbind()` is such an error, if it finds an accept pending; if
  the completion is already on its way, `unbind()` has no effect and the acceptor goes on.
- `servlets::del` of an object of another type removes it and then throws; `servlets::remove` terminates the process.
- With C++20 `object::atomic::wait` does not compile (`object.hpp:516` passes a pointer where
  `std::atomic<std::uintptr_t>::wait` takes the integer), and the header with it. The build
  asks for C++17, where threads spin. `NoMissedWakeup` is about the parking that the source has for C++20.
- `attribute_set::swap` of a set with itself gives `std::lock` one spinlock twice and never returns.

After `protocol::none` the session never reads again, because `session::read()` is
private and only its own completions call it; `Framing` ends there.

## 5. Proofs

Valid for every set of threads, every set of keys, nodes, objects or sessions, and every bound.
All safety properties of the table of runs are proved; those that a violation run refutes are not theorems,
except `FixedFits`, which is one under the hypothesis that excludes the finding.

Assumptions. `SessionAssumption`, `QueueAssumption`, `FramingAssumption`, `AtomicAssumption`, `ManagerAssumption`,
`OwnerAssumption` and `SetAssumption` say of what type the constants are, that the values that stand for
"nothing" are not threads, keys or nodes, and what is finite: the preallocated nodes, the threads
that hold objects, the names of attributes (the sequence of keys that `foreach` follows and the
counts need it). `SetAssumption` also lists the shape of every request, `FramingAssumption` that of every setting, with
the bound on varints of section 2. TLC evaluates them in the runs.

Four theorems of `Session` have the hypothesis `~EarlyAccess`: user code has a session only after
a callback or `connect()` gave it to it. It is needed. With early access the store of `session.cpp:401`
makes a closed session connected again (the finding of `session_early`), and TLC finds `CloseOnce`, `NoLostWakeup`
and `GracefulFlush` violated as well. The others hold with and without it.

Each invariant below is a conjunct too weak to be kept by a step on its own; what is added is what the proof is about.

`SessionProofs`
- `TypeCorrect`: `TypeOK` is inductive. Lemmas `GoType`, `EndType`, `ReturnType`,
  `BeginType`, `CallbackType` say once what the moves of a thread do to its control variables.
- `OnePump`: `SinglePump`, at most one `async_write`, and one user of the marked list. By itself it is
  not inductive: that a thread at `clear` or inside `handler::write` runs a write completion must be known. `ControlOK`
  ties `task`, `pc` and `after` of each thread together; `PumpOK` adds to `SinglePump` that
  a thread about to start a write is not inside the write handler, so that after `StartWrite`
  nobody pumps. The argument: only `Mark` makes a thread a pump, from an empty marked list; only
  `ClearMarked` empties it, and only the one pump gets there.
- `StableBuffers`: `MarkedStable`, which only this theorem states, from the same invariant: `Mark` needs an empty list and `ClearMarked` a pumping thread.

`SessionCloseProofs`
- `SomebodyCloses`: `ClosingAttended`. Given the above it is inductive: whoever leaves one of the labels it names
  goes to another, or finds the marked list in use, or has closed.
- `OneReader`: `SingleReader`, by `ReadOK`: at most one thread runs a connect completion, and none while a
  connect is still to come; until the chain begins, nobody reads and no read is outstanding.
- `ClosedForever`, `ClosedOnce`, `WakeupsKept`: `ClosedIsFinal`, `CloseOnce`, `NoLostWakeup`. `CourseOK` ties the labels and continuations
  of a thread to its task (what a write completion or a call can still go on to, where the destructor can be);
  `EarlyOK`: until a callback has entered, only the connect completion and the destructor run and nothing is being read
  or written. So the store of `SetConnected` finds the session connecting.
- `OrderKept`: `WriteOrder`. `WireOK` adds how much of the marked list is on the wire: nothing before the
  operation has a result, all of it once it has succeeded, which is what lets `ClearMarked` acknowledge it.
- `FlushedOnClose`: `GracefulFlush`. `FlushOK`: a thread that found the queue drained still finds both lists
  empty, unless a `write()` queued a buffer meanwhile (`raced`); and only a session that is closing or closed is found drained.
- `SessionIsOutQueue`: `ImplementsOutQueue`, from `WireOK` and the single pump. `Manage` accepts, `Mark` takes, the result of
  `async_write` sends (all, some or none of the batch), `ClearMarked` is done with it, which needs that all of it is on the wire.

`WriteQueueProofs`
- `QueueTypes`, `MarkerKeepsOthersOut`: `TypeOK` and `MarkerProtects`, from `Control`. `UserOK` names the users of the marked list one by one (cardinality comes in
  only at the end) and has that the thread between the two locks of `mark()` is the only one there and still
  finds the list empty; `ProgressOK`, how far the write or `clear_marked()` is; `LengthOK`, how many nodes a call of `manage()` holds.
- `NodesAccountedFor`: `NodeOnce`. `NodesOK` says it place by place (`Apart`), each list without
  repetitions; one lemma for each way a node moves.
- `BatchesStayWhole`: `BatchesInOrder`. `FilledOK`: the nodes a thread holds refer to the items of its batch; with `NodesOK`, neither
  filling nor disposing a node changes what a list refers to.
- `NodesAreOutQueue`: `ImplementsOutQueue`. `EveryQueueStep` shows once that each step accepts a batch, fetches the queue,
  sends one item, finishes, or does nothing to the queue of items; the refinement and the order follow from that alone.

`FramingProofs`. The code computes on the part of a packet it has cut off so far, the properties are about the stream;
`FramingInv` relates the two.
- `TypeCorrect`: `TypeOK`.
- `FramingInvariant`: `StreamOK` says where the bytes received are: before the first cut all of them are the internal
  input, while a delimiter is sought the rest is the output, and after a prefix they lie as `Cut(h)` has it: a prefix of `h`
  bytes, whose number is the size asked for, is gone from the internal input, and kept in the external
  one if the handler is to see it. `RequestOK` is what the parameter of each function means: how many bytes are asked for, and that what
  was looked at already holds no delimiter and no end of a varint. Without it a later step could not tell that nothing was missed.
- `PacketsExact`, `NeverStalls`, `BufferBounded`: `PacketExact`, `NoStall`, `BufferBound`.
- `ErrorsFinal`: `ErrorFinal`, that after an error no continuation of the stream, however long, completes a packet;
  `ErrorsJustified` is `ErrorJustified`, of which TLC tries two bytes.
- `FixedFit`: `FixedFits`.

`PacketsExact`, `BufferBounded` and `FixedFit` have the hypothesis `Narrow`: no prefix is as wide as the word. It is
needed: `framing_wrap` shows the sum of size and prefix wrap around otherwise. `NeverStalls` and the theorems on errors hold for every width.
What they say of prefixes rests on numbers of any length. The library's induction cannot be instantiated, so induction over a
set of numbers is derived from its least element (`Induction`), and a recursive function shown to exist by
adding one argument at a time (`RecursionExists`, `RecursionSolved`). On these stand `SumIsDigits` and `ValueIsNumber`, that the code's sum by position
is the reference's number, and `NoWrap`, that in a word wide enough nothing is cut off.

`ObjectAtomicProofs`
- `AtomicTypes`: `TypeOK`.
- `LockExcludes`: `MutualExclusion`. Inductive with the types of the lock's variables (`Shape`) and
  `Busy` (outside idle a thread has an operation). The compare-and-swap succeeds only on a free word; by
  the second half of the invariant nobody holds the lock then.
- `SleepersWoken`: `NoMissedWakeup`. A thread falls asleep only while the word has the waiting
  flag; only `StoreAndUnlock` clears the flag, and it goes on to notify everybody.
- `CountsExact`: `RefsExact`. `LocalOK` says which of its handles a thread has at each label; `Exact` counts them as a finite set,
  so that every step adds or removes one element of it.
- `AtomicIsCell`: `ImplementsCell`. The step that takes effect is the store under the lock, or the load; the lock's own steps
  and the parking are invisible, since `MutualExclusion` has the cell unchanged from the lock to the store.

`ServiceProofs`, `ServiceCallProofs` are about `ServiceSpec`, `SessionManager` in its use by `Service`.
- `HolderFindsSession`, `GoneForGood`: `HeldIsRegistered`, `NoResurrection`. `RegistryOK` ties the label of every thread
  to what it holds (`ThreadOK`), what two threads can be at together (`PairOK`) and what the registry has of a
  session (`SessionOK`).
- `AlwaysAccepts`: `AcceptorListens`, by `ListenOK`: while the socket does not listen, no accept is outstanding and no thread is about to rearm it.
- `ServiceTypes`, `CloseIsCallable`: `ServiceTypeOK`, `ClosesWithHandler`. `HandlerOK`: a registered session
  without a handler has a thread that is building it, and no operation of a session starts before it has one.
- `CalledOnce`: `ConnectCalledOnce`. `CallOK`: while the function has not been called it is in place, its handler too, and once the
  operation is over a thread is about to call it.
- `ScanComplete`: `CompleteScan`. `ScanOK`: all usable sessions below the position of a scan have been visited.

`AttributeSetProofs`
- `SetTypes`: `TypeOK`, with `CallsOK`: `BudgetOK`: every call that is not done can still create one object, and what was
  made and what can be made stay within the calls; `FrameOK` says what holds at each label of a call, above all that
  `compute` holds the spinlock of its set while it runs the function.
- `ServletsAgree`: `OneServlet`; `compute` sees an instance made before, since it holds the lock from the look to the store.
- `ForeachMissesNothing`: `ForeachComplete`, by `ForeachOK`: what a `foreach` has yet to visit lies behind the key it is at.
  Lemmas on the order of keys (`LessTransitive`, `LessTotal`, `PrefixConvex`, `FirstKey`).
- `SetIsMap`: `ImplementsMap`. A section under the lock is the abstract operation; the guards of the spinlock keep the map as it
  was when `compute` began.

Only model-checked: the liveness properties of `session_live`; the prover does not do fairness and ENABLED.

## 6. Not modelled

Memory orders (steps are sequentially consistent; the relaxed decrement of reference
counts in `object.hpp:94` is listed as a hazard); concurrent use of `socket_`, `handler_`
and protocol settings without synchronisation, which is a data race in C++ and would need
the application's discipline as an assumption; the call stack (`read` and `read_fixed`
call each other once per buffered packet); the DynamicBuffer_v1 variant for Boost before
1.70; a `read_buffer_size` of 0; the destructor of `object::atomic`, and its `wait` and `notify` for users, which no build has; the resolution of host names and the choice among
endpoints in `connect()`; callbacks of `compute` or `foreach` that throw out of `foreach` or
call into the set whose lock `compute` holds, which would never return; the components that section 1 lists and section 2 does not.

## 7. Plan

Done, in this order: `Session`, its proofs, `WriteQueue` over `OutQueue`, `SessionManager`,
`Framing`, `ObjectAtomic` over `AtomicCell`, its proofs, `AttributeSet` over
`AttributeMap`, `Service` over `SessionManager`, with `handler.cpp`; proofs of all their
safety properties, `Framing` last, and of the write side of `Session` as an `OutQueue`. What could follow:

1. `close(true)` from other threads in `Service`, with `Session` composed, so that a connect that is closed early
   is seen by both.
2. `persistent_buffer`: which of its forms copy the data, and which leave them to the application until the buffer is sent.
