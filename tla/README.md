# libunifex in TLA+

This directory models libunifex, a C++ library of asynchronous operations: senders
that are connected to receivers, operations that are started, completed, stopped and
destroyed while several threads race on a few atomic words, and the contexts that run
them. Type-level machinery (concepts, `tag_invoke`, traits, vtables) has no run-time
state and is left out.

Every module is written from the source. Where threads race, an action is one access to
shared memory together with the local code up to the next one; a call that synchronises
(a mutex, the destruction of a stop callback) is a guard. `PROJECT.json` maps each
definition to the lines it stands for.

## 1. Inventory

| component | state | operations | what is hard | correct when |
|---|---|---|---|---|
| `inplace_stop_token` | `state_` (stop and lock bits), callback list, notifying thread | `request_stop`, construct and destroy callbacks | a callback destroyed while it runs, on its own thread or on another | each callback runs at most once and none is missed; a destructor returns only when its callback cannot run any more |
| `v2::async_scope` | `opState_` (count and open bit), `evt_` | `nest`, copy/connect/start/complete/discard, `join` | `nest` racing `join`; the last completion racing the end | the count is exact; the event means drained; join completes |
| `v1::async_scope` | v2 scope, stop source, attach operations | `complete`, `cleanup`, `request_stop`, `attach` | ending twice; stop and completion of an attached operation | as v2; an attached operation completes once and is released |
| `spawn_future` | `state_`, the future's operation, the spawned operation | spawn, complete, start/drop/abandon a future | three parties and one heap block | the block is deleted once, by the last user, knowing its state |
| `cancellable` | `state_`, `sync_complete_`, stop callback | `start`, `try_complete`, stop callback | completion overtaking `start()`; stop before, during and after start | one completion; stop is forwarded to a started operation |
| `v1::async_mutex`, `atomic_intrusive_queue` | `head_`, `pendingQueue_` | `try_lock`, `async_lock`, `unlock` | enqueue racing the hand-over | one owner, FIFO, no lost waiter |
| `v2::async_mutex` | `locked_`, a list of waiters | the same, stoppable | Dekker race of push and unlock; a stop racing the hand-over | one holder, no lost waiter, a stopped one passes the lock on |
| `atomic_intrusive_list` | links with a lock bit, `self` back links, latch | push, pop, remove, drain | a link that is locked after it was looked at | a chain of what was pushed and not taken |
| reset events: manual v1, manual v2, auto | waiters, signalled mark | `set`, `reset`, `async_wait` | set racing wait, reset and stop | no waiter waits for a signalled event; none is lost |
| `async_pass` | one word with a caller or an acceptor | `async_call`, `async_accept`, try forms | rendezvous racing cancellation | caller and acceptor meet exactly once |
| `when_all`, `when_all_range`, `stop_when` | reference count, first error, stop source | start, child completion, stop | last child, stop callback and start racing | one completion, after everybody, with the right result |
| `detach_on_cancel`, `stop_on_request` | a shared pointer-sized word | start, stop, completion | who owns the heap state; callbacks during `start()` | one completion; freed once |
| sequential adaptors (`let_*`, `sequence`, `finally`, `retry_when`, `repeat_effect_until`) | which child is alive in the shared storage | start, child completion, destruction | a child destroyed from its own completion, exceptions between two children | nothing is used outside its lifetime |
| synchronous adaptors and sources (`then`, `upon_*`, `just*`, `materialize`, `let_value_with*`, `sync_wait`, ...) | little or none | start, completion | what a throwing function or receiver leads to; what is declared | one completion with the right signal, as declared |
| streams (`reduce_stream`, `filter_stream`, `stop_immediately`, `take_until`, `type_erased_stream`, ...) | next and cleanup operations | `next`, `cleanup` | a stop request and a late `next()` | cleanup once, after `next()`; lifetimes |
| `create_basic_sender`, `create` | recursive lock, events, safe-callback holder | start, events, stop | callbacks that come late or from inside | one completion; nothing touched afterwards |
| coroutines (`task`, awaiters, `connect_awaitable`, `at_coroutine_exit`) | promise, continuation, relayed stop request | await, resume, unwind, stop | a stop request that hops to a scheduler while the task completes | one resumption; the frame outlives the hop |
| `manual_event_loop`, `single_thread_context`, `static_thread_pool`, `new_thread_context`, `trampoline_scheduler`, `thread_unsafe_event_loop`, `timed_single_thread_context` | queues, condition variables, timers | enqueue, run, stop, cancel a timer | lost wake-ups, stop with work left, cancel racing expiry | each operation is held by one place and completes once; the threads leave |
| `io_uring_context`, `io_epoll_context` | local and remote queue, timers, rings | schedule, timers, reads, cancel | remote wake-up, full rings, cancel racing completion | the same; the rings never overflow |
| `windows_thread_pool` | a reference word per operation | schedule, timers, cancel | the callback overtaking `start()` | the same; the word is freed once |

Interactions. Everything that can be stopped registers a callback with a stop token; all
modules use tokens by the promises that `InplaceStopToken` shows: a callback runs at most
once, and its destruction waits for a call of it on another thread. The waiting
primitives are wrapped in `cancellable` (`Waiting` repeats its steps, `Cancellable` checks
them by themselves) and wait in an intrusive list, which `AtomicIntrusiveList` takes
apart. Scopes use an event, futures are spawned in scopes, adaptors start children and
are children, and contexts complete the operations of all of them.

## 2. Modules

| module | models | how |
|---|---|---|
| `InplaceStopToken` (`...Proofs`) | `inplace_stop_token.hpp/.cpp` | checked, safety proved |
| `AsyncScope` (`ScopeProofs`) | `v2::async_scope`, the ending of `v1::async_scope` | checked, proved |
| `SpawnFuture` (`ScopeProofs`) | `spawn_future.hpp` | checked, safety proved |
| `Cancellable` (`...Proofs`) | `cancellable.hpp` | checked, safety proved |
| `AsyncMutexV1` (`...Proofs`), `FifoMutex` | `v1::async_mutex`, `atomic_intrusive_queue`; the abstract mutex | checked, refinement proved |
| `WhenAll` (`...Proofs`) | `when_all`, `when_all_range`, `stop_when` | checked, safety proved |
| `Effects` | the vocabulary of handlers | data |
| `SequentialAdaptors`, `SimpleAdaptors`, `ConcurrentAdaptors`, `Streams`, `BasicSender`, `Coroutines` | the handlers of 50 senders, streams and coroutine parts | data, one definition per operation state or receiver |
| `Programs` | which handlers make up which sender, and what it promises | data |
| `Operations` | what the handlers do when children, receiver and stop request race | checked |
| `Scheduling` | operations, timers and lists common to the contexts | |
| `ManualEventLoop`, `StaticThreadPool`, `TimedSingleThread`, `ThreadUnsafeEventLoop`, `NewThread`, `Trampoline`, `IoUring`, `IoEpoll`, `WindowsThreadPool` | the context of that name | instances of `Contexts` |
| `Contexts` (`ContextsProofs`) | the promise all contexts make | checked, safety of all but `io_uring_context` proved |
| `Waiting` | waiters, the agents that start, stop and wake them, completion through `cancellable` | |
| `ResetEvents`, `AsyncMutexV2`, `AsyncPass`, `AtomicIntrusiveList` | the primitive of that name | instances of `Waiters` |
| `Waiters` (`WaitingProofs`, `WaitersProofs`) | the promise all waiting primitives make | checked, safety of all but the list proved |

`X.cfg` instantiates `X` for TLC; `AsyncMutexV1` and `Contexts` need definitions for their
instance, which are in `MCAsyncMutexV1` and `MCContexts`. A definition `X_Something` before a definition
`X` is a deliberate mutation of it: with `X` replaced by it, the property that
`PROJECT.json` names must fail. The mutations are used by no specification.

### InplaceStopToken

`state` is `state_` as a set of bits; `callbacks`, `next` and `prevPtr` are the intrusive
list; `notifyingThreadId`, `completed`, `removedDuringCallback` are the fields of the same
names. Each thread has one call of `request_stop()` and one constructor or destructor of
a callback; a thread inside the body of a callback may begin a constructor or a
destructor there, which is how a callback comes to destroy itself or another.

| action | code |
|---|---|
| `RequestStop`, `RequestStopLock`, `RequestStopPop`, `RequestStopExecute`, `CallbackReturns`, `RequestStopPublish`, `RequestStopRelock` | `inplace_stop_source::request_stop()` |
| `Construct`, `AddLock`, `AddLink`, `InlineReturns` | the constructor, `try_add_callback()`, a callback run inline |
| `Destroy`, `RemoveLock`, `Remove`, `RemoveCheckThread`, `RemoveWait` | `remove_callback()` |

A spin is a guard. List fields are changed in one step with the store that releases the
lock bit; nobody can look in between, as `LockExclusion` is proved to say.

### AsyncScope

`opState` is `opState_`, the number itself: the open bit and twice the count. A handle
owns one `scope_reference` through its life: sender, copy, operation, running operation,
dropped. A closer is a caller of `join()`, `cleanup()` or `request_stop()`. The load and
the compare-exchange of `try_record_start()` are separate steps, and so are the
`fetch_sub` of `record_completion()` and the `evt_.set()` that follows it: finding 1 lives
between them.

### SpawnFuture and Cancellable

Three parties race on `state_` of a future: the spawned operation (`opc`), the owner of
the future (`fpc`) and a stop request (`spc`). `stored` is the active member of the union;
`frees` counts the calls of the deleter. `use` is chosen once per behaviour from `Uses`:
may storing the result throw, may a connected future be destroyed without being started.

`bits` is `state_` of `cancellable`. Three actors may call `try_complete()`: the source,
the stop callback, and `start()` when it forwards a stop request. `claims` distinguishes
the operations of the library, which settle by a queue whether their source or their
`stop()` goes on, from those that let both call `try_complete()`. With `Eager` the
receiver may destroy the operation as soon as it is completed; without it, after
`start()` has returned.

### AsyncMutexV1 and FifoMutex

`active` and `items` are `head_`; an exchange compares addresses (`Top`), not chains, so
the ABA case of a lock operation that is restarted at the same address is in the model.
The refinement maps the owner and, as the queue, `pendingQueue_` followed by the reversed
chain of `head_`.

### WhenAll

`refCount` is `refCount_` (`activeOpCount_` in `stop_when`), `kind` the algorithm.
`start()`, each child and the stop callback run concurrently. The receiver destroys the
operation when it is completed, so "who uses it afterwards" is the question of
`CompletesLast`. `when_all` consults the receiver's stop token before its own results and
destroys the callback first; `stop_when` returns the source's result and leaves the
callback to the destructor.

### Operations and its programs

The adaptors of the library are many and small: an operation state with a few members, a
handful of handlers (constructor, `start()`, `set_value`, `set_error`, `set_done` of each
receiver, stop callbacks, destructor), and the question is always in which order a handler
constructs, starts, tests, destroys and completes. So a handler is the sequence of its
effects (`Effects`): `New`, `Make` (a constructor that may throw, with its catch block),
`Invoke` (user code that may throw), `Del`, `Start`, `Deliver` (completion of the receiver),
`Set`, `If`, `Cas`, `Dec`, `Register`, `Deregister`, `RequestStop`, `Lock`, ... The
definitions of `SequentialAdaptors`, `SimpleAdaptors`, `ConcurrentAdaptors`, `Streams`,
`BasicSender` and `Coroutines` are those sequences, one definition per operation state or
receiver class of the source; `Programs` collects them per sender with the shape of the
operation state: which members share storage (`unions`), which token each child gets,
which flags it has, who frees it.

`Operations` interprets them. A behaviour chooses a `kind` and what its children are like
and then lives one operation (or a stream: several `next()` and a `cleanup()`): `Connect`,
`StartOperation`, `ChildCompletes`, `StopRequest`, `Destroy`, `DestroyStream` come from
outside on any free thread; `DoX` is one effect of the innermost handler of a thread. A
child completes inside `start()` or later on another thread, with any signal its adaptor
handles; an effect that may throw throws or not; the receiver, once completed, may
destroy the operation before the call returns (`DoDeliver`), or later, or on another
thread. Threads interleave between effects.

The constants name what each kind is exercised with: `Throwing` (the receiver's
`set_value` may throw), `ByReference` (children pass references into their own state),
`Strict` (members of a destroyed object whose storage is still there may not be read),
`StopInStart` (a stop request may come while `start()` runs), `Claiming` (children of
every blocking kind, and the declarations are checked), `InlineStop` (children may
complete inside `request_stop()`). A kind is missing from such a set either because the
case does not arise for it, or because the code does not hold there; section 6 lists the
latter.

### Contexts

`op` holds each operation (its life, its signal, its stop callback, its due time), `ctx`
the members of the one context that the behaviour is about (`which`): queues, flags,
threads and where each of them is. Each module has one action per critical section or
atomic access of its `.cpp`, with `enqueue`, `run`, `stop`, `cancel_callback`, ... keeping
their names. `References(o)` counts the places that refer to an operation.

* `ManualEventLoop`: the notification is a separate state of the sleeping thread, so a lost
  wake-up shows. `single_thread_context` is the same loop with the thread that is joined.
* `StaticThreadPool`: a queue per thread, `try_push`/`try_pop` that fail when somebody else
  holds the queue's lock, the round-robin index, stop per queue.
* `TimedSingleThread`, `ThreadUnsafeEventLoop`: the ordered list of timers, time as a
  counter, cancellation before, at and after expiry.
* `NewThread`: the count of active threads, and the thread that joins its predecessor.
* `Trampoline`: nested and queued execution with `maxRecursionDepth_`.
* `IoUring`: the submission and completion rings with their capacity, `pendingIoQueue_`, the
  remote queue with its eventfd read, the timer with its removal request, reads and
  `ASYNC_CANCEL`. The kernel (external) takes the entries in order, as many of them as it
  likes but at least one, and completes them in any order. `Construct` of a live stop
  callback would go unseen, so `start_io` records it (`overwritten`), and `HeldOnce` forbids
  it (`CallbackIsKept`). `StopRings` are the rings in which reads may be asked to stop.
* `IoEpoll`: the local and remote queue, the timer descriptor, reads that wait for
  readiness, and their cancellation. The stop callback of a read is there, for other threads
  to run, before `epoll_ctl_add` registers the descriptor, which may fail (`AddFails`)
  without anybody looking.
* `WindowsThreadPool`: the word shared by `start()`, the work callback and the stop callback.

### Waiters

Each operation has three agents (threads): one starts it, one requests its stop, one calls
the primitive on its own account (`set`, `reset`, `unlock`, `try_call`). `at` is where an
agent is in the code. Completion (`CompleteThen`) goes through `try_complete()`, the
destruction of the stop callback and the hop to the receiver's scheduler, as `cancellable`
and `completion_forwarder` do it: `whom` is the waiter an agent completes, `won` and `lost`
where it goes on afterwards, by what `try_complete()` returned. `local` is the agent's own
list of waiters, top of the stack or claimed caller. `ctx` has the members of the one
primitive (`which`) that the behaviour is about, and `op` the operations.

`AsyncMutexV2` has the second look of `async_lock` at `locked_` and that of `unlock` at the
queue as separate steps; `ResetEvents` the compare-exchange loop of v1, the latch of v2
and the two locked sections of the auto-reset event; `AsyncPass` its single word.
`AtomicIntrusiveList` is one step per access to a link, with several threads that push at
either end, pop, remove and drain; the others use the list as a sequence, which is what
`Chained` justifies.

## 3. Runs

| run | instance | distinct states | what it shows |
|---|---|---|---|
| `stop_token` | 3 threads, 2 callbacks | 177,812 | no callback is used after its destruction, run twice or missed; destructors synchronise; every call returns |
| `async_scope` | 2 references, 2 closers of 3 kinds | 37,408 | the count, the event, who outlives whom; join completes |
| `spawn_future` | all four uses | 1,446 | deletion once, by the last user; delivery; both eventually happen |
| `cancellable` | stoppable or not, early stop or not, claiming or not | 815 | one completion; a stop is forwarded to started operations only and completes them |
| `mutex_v1` | 4 lock operations, restarted without bound | 22,564 | exact queues, the FIFO refinement, no lost waiter |
| `when_all` | 0 to 3 children of each algorithm | 25,422 | one delivery, after everybody; the right result; a stop completes |
| `operations` | 47 kinds, 3 threads | 490,165 | lifetimes, one completion, no leak, the right signal, as declared, and completion at all |
| `contexts` | 9 contexts, 3 operations (2 with I/O) | 466,381 | every operation held by one place; the right signal; bounds; completion; the threads leave |
| `waiters` | 6 primitives, 3 waiters | 279,122 | one place per waiter; the lock, the events, the rendezvous, the list; nobody is left behind |
| `async_scope_cleanup_race` | 1 reference, 1 cleanup | violation | finding 1 |
| `operations_safe_callback` | `create_basic_sender` with a safe callback | violation | finding 2 |
| `list_reuse` | 2 items, one pushed a second time | violation | finding 3 |

Bounds and why they are enough.

* Stop token: a notifier and two parties that construct and destroy, so a callback can be
  destroyed by its own thread, by another and by a third that waits. Two callbacks give
  a head and a successor; the theorems cover any number.
* Scope: two references and two closers give every order of "last reference", "end" and
  "join" that the count can tell apart; the theorems cover any number.
* `when_all`: three children are a first failure, a second failure and one that runs on.
* `SpawnFuture` and `Cancellable` have no bound: the code has exactly these parties.
* `operations`: three threads are the starter (or a child), a second child or late
  completion, and the stop request; no kind has more parties. `MaxStarts` = 4 lets a loop
  (`retry_when`, `repeat_effect_until`, a stream) go round often enough to reuse every
  storage twice, and then makes its children end it.
* `contexts`: three operations are one that runs, one that is queued and one that comes
  late; two workers can steal from each other; one operation may be asked to stop.
  `MaxTime` = 2 gives a timer that is due now, next and last. The rings are a roomy one
  and one of a single submission and two completions, which is full at once. The I/O
  contexts have two operations, a timer or a read each.
* `waiters`: three waiters are a holder (or caller), a waiter that is woken and one that is
  stopped; two threads may set or reset. The list has two items here, either the neighbour
  of the other, and two threads that pop, drain or unlatch. With a predecessor, a victim and
  a successor (`Items` = `Ops`) that is too large for a run; with one such thread (and
  `Setters = {o1}`, only the list and `Chained`) TLC finds 271,414 states and no error.

Where a run may stop legitimately (everything finished) its configuration says
`CHECK_DEADLOCK FALSE`; `mutex_v1` and `when_all` are checked for deadlock, and for the
others the liveness properties say that nobody stops half-way.

Fairness. Weak fairness of the steps of code that is running: a thread that has been
scheduled goes on, a callback body returns, time passes, the kernel completes what it was
given unless it is a read that waits for data. In `operations`, `contexts` and `waiters`
it is one weak-fairness condition over all those steps together, weaker than fairness of
each thread. No call of the interface is assumed to happen. What user code owes is stated
where it is used: a spawned operation completes, a lock is unlocked, a child completes
once it has been asked to stop and otherwise may run for ever (a *patient* child). Spin
loops are guards, so fairness of the loop is fairness of the step that leaves it.

## 4. Proofs

All theorems hold for every value of the constants under the named assumptions of the
modules (distinct model values, finite set of references, a number of children), which
TLC evaluates on each run.

* `InplaceStopTokenProofs`. `IInv` is inductive. The properties are not inductive by
  themselves: that the notifier finds its callback alive depends on which constructor or
  destructor works on which object (`CallInv`, `CallbackInv`), on the notifying thread
  being one and recognised (`NotifierInv`), and on what became of the callback that was
  taken off the list (`RunInv`); `LockInv` makes the critical sections exclusive.
  Proved: type, `LockExclusion`, `ListWellFormed`, `NoUseAfterDestroy`,
  `RunsAtMostOnce`, and the action properties `DestructorSynchronises`, `StopIsFinal`.
  `StopReachesEveryCallback` needs more: `IsList` says that some finite sequence of
  callbacks, from `callbacks_` along `next_` to its end, holds exactly those that are linked
  (a push, a pop and an unlinking each give the new sequence, so no induction is needed),
  and `ReachInv` that a callback is linked, has run, or has just been taken to be run.
* `ScopeProofs`, of scopes. `ScopeInv` adds to the count that whoever is about to set the event
  decided so on a drained scope. Proved: `CountsReferences`, `EventMeansDrained`,
  `DestroyedWhenUnreferenced`, `NothingNestedAfterEnd`.
* `AsyncMutexV1Proofs`. `MutexInv` adds that `unlock()` looks at `head_` only when
  `pendingQueue_` is empty. Proved: mutual exclusion, exactness of the queues, the
  assertions of the dequeue, and that every step is a step of `FifoMutex` or a stutter.
* `WhenAllProofs`. `Inv` says what the count stands for (`CountInv`): the children that
  have not given theirs back and a running callback, with the one exception of a callback
  that came too late and left its count behind; that nobody delivers while anybody holds
  a count (`DeliveryInv`); and how signals become the result (`ResultInv`). Proved:
  `DeliversOnce`, `CompletesLast`, `ResultIsRight`.

* `CancellableProofs`. `CancelInv` ties together the three bits of `state_`, the place of
  `start()`, of the stop callback and of each caller of `try_complete()`. Its core is
  `WinnerInv`: the completed bit is set exactly when one actor has won, and only the winner
  is past `try_complete()`. What makes it inductive is who may call `stop()`: the bits
  order the end of the nested `start()` and the stop request, so one of the two forwards
  it (`StartInv`), and the flag on the stack of `start()` is stored to only by a winner
  that came before the started bit (`FlagInv`). Proved: `CompletesOnce`,
  `StopsOnlyStarted`.
* `ScopeProofs`, of futures. Operation, future and stop callback share one word, so the invariant
  goes by *phase*: `PhaseInv` is a disjunction of what each of them can be doing and what
  the block holds when the word is undecided, completed, dropped, abandoned, handed over
  or claimed. Each step stays in its phase or moves to the next; the deletion is a phase in
  which nobody has a use left. Proved: `DeletedByTheLastUser`, `AssertionsHoldInPlainUse`,
  `DeliversWhatWasProduced`.
* `WaitingProofs` and `WaitersProofs`. None of the promises of `Waiters` is inductive, and they
  need each other: a waiter is completed once because whoever takes it out of its list or
  word is the only one to complete it. `SharedInv` says that for all primitives: a waiter is
  in the hands of one agent at most (`HandsInv`), and its life, its bits, its stop callback
  and its signals agree with that (`LifeInv`), so `try_complete()` never loses. Where a
  waiter is otherwise is an invariant of its primitive:
  - `MutexInv` (v2 mutex): in the queue, before its push, or not yet started. The lock is a
    token that moves between `locked_`, owners, agents and the operations they complete
    (`MutexLock`); an operation that is cancelled never has it.
  - `LatchInv` (v2 event): in the event's list or in the local list of one `set()`; the
    list of a signalled event is empty.
  - `StackInv` (v1 and auto-reset events): on the stack or in the list of one `set()`. A
    compare-exchange that succeeds after the top has come back pushes on the current
    stack, so ABA does no harm here. In the auto-reset event the agent inside the mutex is
    the one with a list, and the consumer is the only waiter (`AutoInv`).
  - `PassInv` (`async_pass`): in the word, or claimed and with the agent that resumes it once
    it has completed its acceptor; partners know each other from the claim on.

  From them follow `WaitsInOnePlace`, `LockIsRight` and `EventIsRight`, for any operations,
  any of which may be asked to stop, and any number of setters. `Paired` is proved under
  `~HopStops`: a scheduler whose hop completes with done breaks it (section 6), which is
  why the run has `HopStops = FALSE` as well; the other promises do not need this.
* `ScopeProofs` also proves `JoinOutlivesSetters`. `OneSetterInv` says that, as long as
  one `join()` is all that has ended the scope, at most one reference or that join is to
  set the event, and nobody once it is set. With two calls that end the scope it is false,
  which is finding 1.
* `ContextsProofs`. A behaviour of `Contexts` is about one context from its first state on
  (the `...IsFixed` lemmas), so `IInv` has one disjunct for each. What they have in common is
  a list that holds an item at most once (`Once`), and for each operation a statement of where
  it is: in the list, with a thread, with whoever is about to link it, or nowhere, and never
  in two of them.
  - `LoopInv`, `PoolInv`: in a queue, or the one task of a thread. In `static_thread_pool` an
    item is in at most one queue, and with `start()` while no queue has taken it.
  - `TimedInv`, `UnsafeInv`: `TimedOp` and `UnsafeOp` are by phases of the stop callback: not
    yet set, set, running (it unlinks the timer, or leaves it to the thread that has popped
    it), over. An item that runs is due, or was asked to stop.
  - `ThreadInv`: with its own thread, until that thread has completed it.
  - `TrampInv`: in the list, while the frames on the stack are no more than
    `maxRecursionDepth_`.
  - `WinInv`: the flags of `state_` tell which of `start()`, the work or timer callback and
    the stop callback is still to come; each combination is a phase (`WinPhase`), and in
    each but the last exactly one of the three completes the operation. The memory of
    `state_` is freed by whoever of `start()` and the completion is last.

  - `EpollInv`: `EpLists` says that the batch, the local and the remote queue together hold
    an item at most once, `Wakes` that at most one thread is between linking into the
    inactive remote queue and writing to the eventfd, and that the I/O thread takes nothing
    from that queue until it has seen the write. `EpPhase` lists where an operation can be,
    by its handler, its flags (`elapsed`, `cancelPending`, registered) and the lists it is
    in: before its handler has run (`EpStarts`), a timer that waits, has elapsed or is being
    stopped (`EpTimer`), one that is on its way out (`EpLeaves`), a read that waits for its
    descriptor, or whose descriptor is being registered (`EpReads`), or whose stop request
    has taken over (`EpStops`). Each handler
    takes an item of the batch from one phase to another (`EpRan`), and one poll - reaping
    the timers, rearming the timerfd, fetching the remote queue - is followed through its
    intermediate states (`EpReapTimers`, `EpArms`, `EpFetches`, `EpAsks`).

  From `IInv` follow `HeldOnce`, `SignalIsRight` and `WithinBounds` of these eight contexts,
  for any operations, any of which may be asked to stop, any number of threads and any
  length of time; of `io_epoll_context` under `~EarlyStop` and `~AddFails`, without which
  `HeldOnce` is false (section 6): the theorems say so with `Covered`. The assumption, `ContextsAssumption`, is
  that the threads of a pool are numbered from 1, that the clocks stop at some time, and
  that the operations of an I/O context are finitely many, so that epoll_wait() can report
  them in a list. What the list operations return -
  appending, prepending, unlinking, inserting by due time, splitting off what has elapsed -
  are lemmas (`UnlinkFacts`, `LinkFacts`, `InsertFacts`, `SplitFacts`); that a first later
  timer exists needs a least element of a set of positions, which well-foundedness of `Nat`
  gives, and so does what the recursive function `Excluding` returns (`ExcludingFacts`): a
  least length at which its unfolding fails is refuted.

Only model-checked:

* every liveness property: the prover has no fairness;
* `Chained`, for which the sequence of items would have to be followed through the links that
  several threads hold locked at once;
* `Operations`, whose handlers are data that a proof would have to unfold kind by kind;
* `HeldOnce` and `SignalIsRight` of `io_uring_context`, and `WithinBounds` of its rings: a
  completion entry refers to an operation long after it left the queues, and the loop
  handles a batch of entries in one step, so what has to be known of an operation depends
  on what is left of the batch.

## 5. Findings

Each has a run that TLC must find violated, and `PROJECT.json` quotes the line that says
otherwise.

1. `async_scope_cleanup_race`: v1 `cleanup()` ends the scope twice. When the last
   operation decrements between the two, cleanup completes and the scope may be destroyed
   while that operation is about to call `evt_.set()`.
2. `operations_safe_callback`: a safe callback of `create_basic_sender` locks its
   `weak_ptr`, which keeps the holder alive and not the operation; the operation completes
   on another thread, is destroyed, and the callback then takes the lock inside it.
3. `list_reuse`: `push_back` of `atomic_intrusive_list` looks at the sentinel, and then
   locks the link it found by a compare-exchange on that link's value alone. If the node
   was popped and is being pushed again in between, the exchange succeeds on a node that
   is not in the list.

## 6. Where the runs are narrowed

These are cases in which the model, taken from the code, does not keep a property. The
runs leave them out by their constants, so that everything else is checked; each row
gives the constants with which TLC shows the violation, starting from the configuration
named (with only that property).

| configuration | constants | property | case |
|---|---|---|---|
| `SpawnFuture` | `Uses = {{"throw"}}` | `DeleterKnowsState` | storing the value throws after `value` was published (`spawn_future.hpp:502`): a concurrent `drop()` hands the deleter a stale state |
| `SpawnFuture` | `Uses = {{"discard"}}` | `DropNeverTerminates` | a future that is connected, stopped and never started reaches the branch "should never happen" of `drop()` (334) |
| `SpawnFuture` | `Uses = {{}}` | `StopFindsOperation` | the continuation deletes the shared block while the stop callback is registered (158) |
| `Cancellable` | `Eager = TRUE` | `StartFindsOperation` | `start()` does a `fetch_or` on an operation that was completed and destroyed since it looked at its local flag (`cancellable.hpp:95`) |
| `Operations` | `Kinds = {"take_until"}` | `NoDanglingAccess` | the receiver of one cleanup operation destroys the other one (`take_until.hpp:271`) |
| `Operations` | `Kinds = {"find_if"}` | `NoDanglingAccess` | a receiver destroys the operation it is part of and then uses its own `output_receiver_` (`find_if.hpp:101-125`) |
| `Operations` | `finally` in `ByReference` | `NoDanglingAccess` | a reference into the source's state is delivered after the source was destroyed, when it is the error or the value is a reference |
| `Operations` | `let_error` in `Throwing` | `NoDanglingAccess` | `set_value` destroys the source and then calls a receiver that throws: the exception goes back into the destroyed source (`let_error.hpp:87-96`) |
| `Operations` | `dematerialize` in `Claiming` | `DeliversAsDeclared` | `sends_done` is the source's although a stored done is sent on (`dematerialize.hpp:176`) |
| `Operations` | `stop_immediately` in `Strict` or `ByReference` | `NoDanglingAccess` | a receiver goes on to read its members after it has destroyed the operation it is in (`stop_immediately.hpp:151-186`), or passes a reference to the destroyed value on (344-354) |
| `Operations` | `let_value_with_stop_source`, `let_value_with_fused_token` or `any_sender_of` in `InlineStop` | `NoDanglingAccess` | a child completes inside `request_stop()`, its receiver destroys the operation, and `request_stop()` goes on in the stop source that was inside it |
| `Waiters` | `HopStops = TRUE` | `WaitersWake` | the scheduler hop of a waiter that was given the v2 mutex completes with done: nobody unlocks |
| `Waiters` | `HopStops = TRUE` | `Paired` | the hop of a caller or an acceptor completes with done after the two have met |
| `Operations` | `stop_immediately` in `StopInStart` | `NoDanglingAccess` | the stop callback that `start()` constructs completes `next()`, the receiver destroys the operation, and `start()` reads its `stream_` (`stop_immediately.hpp:277-279`) |
| `MCContexts` | `EarlyStop = TRUE` | `HeldOnce` | `io_epoll_context`: a read is stopped before its descriptor is registered, be it before `start_io()` or between the construction of its callback (`io_epoll_context.hpp:556`) and `EPOLL_CTL_ADD` (566). It completes with the descriptor registered, whose stale `data.ptr` epoll then reports (`io_epoll_context.cpp:330-334`) |
| `MCContexts` | `AddFails = TRUE` | `HeldOnce`, `StartedCompletes` | `io_epoll_context`: `EPOLL_CTL_ADD` fails, and the read waits for nothing (`io_epoll_context.hpp:566`) |
| `MCContexts` | `EarlyStop = TRUE`, `Selected = {"io_uring_context"}` | `StartedCompletes` | the cancel request is submitted before the read it is for (`io_uring_context.hpp:449-466`) |
| `MCContexts` | `StopRings <- MCRings` | `HeldOnce` | `io_uring_context`: a read that finds the ring full starts again and constructs its stop callback over the registered one (`io_uring_context.hpp:447-466`) |
| `MCContexts` | `StopRings <- MCRings` | `StartedCompletes` | `io_uring_context`: the ring is full of reads that wait, and the cancel request finds no room |

Two more narrowings are guards in the model. `ThreadUnsafeEventLoop` does not start an
operation whose stop has been requested already: the cancel callback would use `prevPtr_`
before it is set. `HeldOnce` exempts the reads of `io_epoll_context` from having destroyed
their stop callback on completion (`KeepsCallback`): on its stop path the code does not.

## 7. Left to do

* Proofs of the promises of `io_uring_context`, whose queues and timers are those of
  `IoEpoll`; of `Chained`.
* An abstract list specification that `AtomicIntrusiveList` implements, instead of the
  state predicate `Chained`.
* Writes, accept and file operations of the I/O contexts, which repeat the reads.

## 8. Not modelled

* Memory ordering: every module is sequentially consistent. Orders weaker than that are
  assumed to be strong enough where the code chose them.
* `io_uring_enter()` that fails (`EINTR`, say): the exception leaves
  `run()` (`io_uring_context.cpp:465-468`).
* `low_latency_iocp_context`: its loop and queues are those of `io_uring_context`; what is
  its own is polling status blocks that only the operating system defines.
* `v0::async_scope`: deprecated; the count and open bit of v2.
* `when_any`, `schedule_with_subscheduler`, `then_execute`, `defer`, `via`, `on`, `delay` and
  others that are expressions over modelled senders have no module of their own.
* The rescheduling that `task` does at `co_await schedule(...)`, the async stack frames, and
  what the compiler makes of a coroutine; tracing, canary and debug scopes.
* Type-level code, vtables and small-object storage: no state that a property could be
  about.
* Exceptions are modelled where the code catches them or lets them pass (user functions,
  constructors of child operations, `set_value` of a receiver), not as allocation
  failures in general.
