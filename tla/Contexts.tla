------------------------------ MODULE Contexts ------------------------------
(***************************************************************************)
(* Every execution context, each against the same promise: an operation    *)
(* that was started completes once, with the right signal, while exactly   *)
(* one place of the context refers to it, and the threads of a stopped     *)
(* context leave it.                                                       *)
(***************************************************************************)
EXTENDS Scheduling

CONSTANTS Selected,   \* the contexts that are run
          IoOps, IoMaxTime,  \* the operations and the clock of an I/O context
          Rings, StopRings, EarlyStop, AddFails   \* see IoUring, IoEpoll

(* A thread pool numbers its threads; the clocks tick a bounded time.      *)
ASSUME ContextsAssumption ==
  /\ IsFiniteSet(Workers) /\ Workers # {} /\ Workers = 1 .. Cardinality(Workers)
  /\ MaxTime \in Nat /\ IoMaxTime \in Nat
  /\ IsFiniteSet(IoOps)

EventLoop == INSTANCE ManualEventLoop
Pool == INSTANCE StaticThreadPool
Timed == INSTANCE TimedSingleThread
Unsafe == INSTANCE ThreadUnsafeEventLoop
Thread == INSTANCE NewThread
Trampolines == INSTANCE Trampoline
Uring == INSTANCE IoUring WITH Ops <- IoOps, MaxTime <- IoMaxTime
Epoll == INSTANCE IoEpoll WITH Ops <- IoOps, MaxTime <- IoMaxTime
Windows == INSTANCE WindowsThreadPool WITH Ops <- IoOps, MaxTime <- IoMaxTime

Init ==
  which \in Selected /\
  \/ EventLoop!Init \/ Pool!Init \/ Timed!Init \/ Unsafe!Init \/ Thread!Init \/ Trampolines!Init
  \/ Uring!Init \/ Epoll!Init \/ Windows!Init

Next ==
  \/ EventLoop!Next \/ Pool!Next \/ Timed!Next \/ Unsafe!Next \/ Thread!Next \/ Trampolines!Next
  \/ Uring!Next \/ Epoll!Next \/ Windows!Next

Spec == Init /\ [][Next]_vars

(* The steps that nobody decides to take: threads run, and time passes.    *)
System ==
  \/ which = "manual_event_loop" /\ EventLoop!System
  \/ which = "static_thread_pool" /\ Pool!System
  \/ which = "timed_single_thread_context" /\ Timed!System
  \/ which = "thread_unsafe_event_loop" /\ Unsafe!System
  \/ which = "new_thread_context" /\ Thread!System
  \/ which = "trampoline_scheduler" /\ Trampolines!System
  \/ which = "io_uring_context" /\ Uring!System
  \/ which = "io_epoll_context" /\ Epoll!System
  \/ which = "windows_thread_pool" /\ Windows!System

FairSpec == Spec /\ WF_vars(System)

-----------------------------------------------------------------------------
References(o) ==
  CASE which = "manual_event_loop" -> EventLoop!References(o)
    [] which = "static_thread_pool" -> Pool!References(o)
    [] which = "timed_single_thread_context" -> Timed!References(o)
    [] which = "thread_unsafe_event_loop" -> Unsafe!References(o)
    [] which = "new_thread_context" -> Thread!References(o)
    [] which = "trampoline_scheduler" -> Trampolines!References(o)
    [] which = "io_uring_context" -> Uring!References(o)
    [] which = "io_epoll_context" -> Epoll!References(o)
    [] which = "windows_thread_pool" -> Windows!References(o)

Left ==
  CASE which = "manual_event_loop" -> EventLoop!Left
    [] which = "static_thread_pool" -> Pool!Left
    [] which = "timed_single_thread_context" -> Timed!Left
    [] which = "thread_unsafe_event_loop" -> Unsafe!Left
    [] which = "new_thread_context" -> Thread!Left
    [] which = "trampoline_scheduler" -> Trampolines!Left
    [] which = "io_uring_context" -> Uring!Left
    [] which = "io_epoll_context" -> Epoll!Left
    [] which = "windows_thread_pool" -> Windows!Left

Stopping ==
  CASE which = "manual_event_loop" -> EventLoop!Stopping
    [] which = "static_thread_pool" -> Pool!Stopping
    [] which = "timed_single_thread_context" -> Timed!Stopping
    [] which = "thread_unsafe_event_loop" -> Unsafe!Stopping
    [] which = "new_thread_context" -> Thread!Stopping
    [] which = "trampoline_scheduler" -> Trampolines!Stopping
    [] which = "io_uring_context" -> Uring!Stopping
    [] which = "io_epoll_context" -> Epoll!Stopping
    [] which = "windows_thread_pool" -> Windows!Stopping

(* A read of io_epoll_context that is stopped keeps its stop callback.      *)
KeepsCallback(o) == which = "io_epoll_context" /\ op[o].kind = "read"

(* From start() to the completion exactly one place holds an operation: a  *)
(* list it is linked into, the thread that runs it, or the start() or stop *)
(* callback that is about to link it.  Afterwards none does: the operation *)
(* may be destroyed.  An intrusive list cannot hold an item twice.  The    *)
(* state that windows_thread_pool allocates is there as long as start() or *)
(* the operation refers to it, and no longer.  io_uring_context constructs *)
(* no stop callback over another.                                          *)
HeldOnce ==
  \A o \in DOMAIN op :
    /\ References(o) = IF which = "io_uring_context" THEN Uring!Expected(o) ELSE One(op[o].life = "started")
    /\ op[o].life = "completed" => op[o].cb = "none" \/ KeepsCallback(o)
    /\ which = "windows_thread_pool" => Windows!StateIsKept(o)
    /\ which = "io_uring_context" => Uring!CallbackIsKept(o)

(* The receiver gets one signal; done only if stop was requested, and a    *)
(* timed operation that was not asked to stop none before its due time.    *)
SignalIsRight ==
  \A o \in DOMAIN op : op[o].signals # <<>> =>
    /\ Len(op[o].signals) = 1
    /\ op[o].signals[1] = "done" => op[o].stopped
    /\ op[o].kind = "timed" /\ op[o].signals[1] = "value" => op[o].due <= ctx.now

(* The user code that trampoline_scheduler nests stays within its bound,   *)
(* and io_uring_context has never more operations in flight than its rings *)
(* have entries.                                                           *)
WithinBounds ==
  /\ which = "trampoline_scheduler" => Trampolines!Bounded
  /\ which = "io_uring_context" => Uring!Bounded

(* Whatever was started completes: again and again nothing is under way.   *)
Waiting(o) == which \in {"io_uring_context", "io_epoll_context"} /\ o \in ctx.patient /\ ~op[o].stopped
StartedCompletes == []<>(\A o \in DOMAIN op : op[o].life = "started" => Waiting(o))

(* The threads of a context that was told to stop leave it.                *)
StoppedLeaves == []<>(Stopping => Left)
=============================================================================
