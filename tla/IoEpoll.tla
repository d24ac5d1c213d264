------------------------------ MODULE IoEpoll ------------------------------
(***************************************************************************)
(* io_epoll_context: one I/O thread that waits in epoll_wait() for an      *)
(* eventfd (work from other threads), a timerfd and the descriptors of the *)
(* reads that would have blocked.  Operations are schedule(),              *)
(* schedule_at() ("timed") and reads, which stand for writes too; each     *)
(* read has a descriptor of its own.                                       *)
(***************************************************************************)
EXTENDS Scheduling

CONSTANTS EarlyStop,  \* whether a read may be asked to stop before its descriptor is registered
          AddFails    \* whether registering a descriptor may fail

IoThread == 1

(* What is linked into queues: operations, the done_op of a read, and the  *)
(* stop_operation of run().  The timerfd is armed for currentDueTime_.     *)
Op(o) == <<"op", o>>
DoneOp(o) == <<"done_op", o>>
StopOp == <<"stop", "run">>

Init ==
  /\ which = "io_epoll_context"
  /\ op \in [Ops -> {NewOp(kind) : kind \in {"schedule", "timed", "read"}}]
  /\ ctx \in [localQueue_ : {<<>>}, batch : {<<>>}, remoteQueue_ : {<<>>}, timers_ : {<<>>},
              registered : {{}}, ready : {{}}, remoteQueueReadSubmitted_ : {FALSE},
              timersAreDirty_ : {FALSE}, currentDueTime_ : {<<>>}, eventfd : {FALSE}, now : {0},
              pc : {"items"}, shouldStop_ : {FALSE}, stopper : {"no"}, destroyed : {FALSE},
              patient : SUBSET StopOps, execute_ : {[o \in Ops |-> "none"]},
              elapsed : {{}}, cancelPending : {{}}]
  /\ \A o \in StopOps : op[o].kind # "schedule"
  /\ \A o \in ctx.patient : op[o].kind = "read"

-----------------------------------------------------------------------------
(* The queues: the thread that finds remoteQueue_ inactive has to write to *)
(* the eventfd.                                                            *)
Inactive == <<<<"inactive", "run">>>>
enqueue(queue, item) == IF queue = Inactive THEN <<item>> ELSE Append(queue, item)
schedule_local(s, item) == [s EXCEPT !.ctx.localQueue_ = Append(@, item)]
schedule_remote(s, item) == [s EXCEPT !.ctx.remoteQueue_ = enqueue(@, item)]
MustSignal == ctx.remoteQueue_ = Inactive

(* Timers; canBeCancelled_ is whether o is in StopOps.                     *)
schedule_at_impl(s, o) ==
  LET timers == InsertByDueTime(s.op, s.ctx.timers_, o)
  IN  [s EXCEPT !.ctx.timers_ = timers, !.ctx.timersAreDirty_ = @ \/ Head(timers) = o]
remove_timer(s, o) ==
  [s EXCEPT !.ctx.timers_ = Unlink(@, o),
            !.ctx.timersAreDirty_ = @ \/ Head(s.ctx.timers_) = o]
start_local(s, o) ==
  IF s.op[o].stopped
  THEN schedule_local([s EXCEPT !.ctx.execute_[o] = "complete_with_done"], Op(o))
  ELSE Construct(schedule_at_impl([s EXCEPT !.ctx.execute_[o] = "maybe_complete_with_value"], o), o)
request_stop_local(s, o) ==
  LET t == Destruct([s EXCEPT !.ctx.execute_[o] = "complete_with_done"], o)
  IN  IF o \in s.ctx.elapsed THEN t ELSE schedule_local(remove_timer(t, o), Op(o))

-----------------------------------------------------------------------------
(* The user code that runs after a completion may destroy the operation.   *)
ToUser(s, o) ==
  [s EXCEPT !.ctx.pc = "user", !.ctx.execute_[o] = "gone",
            !.ctx.elapsed = @ \ {o}, !.ctx.cancelPending = @ \ {o}]

(* A read is tried at once.  Whatever error readv() reports is taken for   *)
(* the one that says that it would block; the I/O thread has then still to *)
(* register the descriptor, in the loop or in user code that called start. *)
start_io(s, o) ==
  LET constructed == Construct(s, o)
      t == IF s.op[o].stopped  \* the constructor runs request_stop()
           THEN schedule_remote([constructed EXCEPT !.ctx.cancelPending = @ \cup {o},
                                   !.ctx.eventfd = @ \/ s.ctx.remoteQueue_ = Inactive], DoneOp(o))
           ELSE constructed
  IN  IF o \in s.ctx.ready THEN ToUser(Complete(s, o, "value"), o)
      ELSE [t EXCEPT !.ctx.pc = IF @ = "user" THEN "register in start" ELSE "register"]

(* The rest of it; nobody looks at what epoll_ctl() returns.               *)
Registering(o) == ctx.execute_[o] = "start_io" /\ op[o].cb # "none"
epoll_ctl_add(o) ==
  /\ ctx.pc \in {"register", "register in start"} /\ Registering(o)
  /\ \E added \in BOOLEAN :
       /\ added \/ AddFails
       /\ Become([State EXCEPT !.ctx.execute_[o] = "on_read_complete",
                               !.ctx.registered = IF added THEN @ \cup {o} ELSE @,
                               !.ctx.pc = IF @ = "register" THEN "items" ELSE "user"])

(* A descriptor is ready: the second readv() succeeds or fails, unless a   *)
(* stop request has taken over.                                            *)
on_read_complete(s, o, result) ==
  LET t == [Destruct(s, o) EXCEPT !.ctx.registered = @ \ {o}]
  IN  IF o \in s.ctx.cancelPending THEN t ELSE ToUser(Complete(t, o, result), o)

enqueued_(s, item) == \E i \in DOMAIN s.ctx.batch : s.ctx.batch[i] = item
InLocalQueue(s, item) == \E i \in DOMAIN s.ctx.localQueue_ : s.ctx.localQueue_[i] = item
read_complete_with_done(s, o) ==
  IF enqueued_(s, Op(o)) \/ InLocalQueue(s, Op(o)) THEN schedule_local(s, DoneOp(o))
  ELSE ToUser(Complete(s, o, "done"), o)

Execute(s, o, result) ==
  CASE s.ctx.execute_[o] = "schedule" -> ToUser(CompleteScheduled(s, o), o)
    [] s.ctx.execute_[o] = "start_io" -> start_io(s, o)
    [] s.ctx.execute_[o] = "on_read_complete" -> on_read_complete(s, o, result)
    [] s.ctx.execute_[o] = "start_local" -> start_local(s, o)
    [] s.ctx.execute_[o] = "maybe_complete_with_value" -> ToUser(CompleteScheduled(Destruct(s, o), o), o)
    [] s.ctx.execute_[o] = "complete_with_done" -> ToUser(Complete(s, o, "done"), o)
    [] s.ctx.execute_[o] = "remove_timer_from_queue_and_complete_with_done" ->
         ToUser(Complete(IF o \in s.ctx.elapsed THEN Destruct(s, o) ELSE remove_timer(Destruct(s, o), o),
                         o, "done"), o)
ExecuteItem(s, item, result) ==
  CASE item[1] = "op" -> Execute(s, item[2], result)
    [] item[1] = "done_op" -> read_complete_with_done(s, item[2])
    [] item = StopOp -> [s EXCEPT !.ctx.shouldStop_ = TRUE]

(* One that destroys its stop callback waits while another thread runs it. *)
Blocked(item) ==
  /\ item[1] = "op" /\ ~MayDestruct(item[2])
  /\ ctx.execute_[item[2]] \in {"on_read_complete", "maybe_complete_with_value",
                                "remove_timer_from_queue_and_complete_with_done"}
execute_pending_local ==
  /\ ctx.pc = "items" /\ ctx.batch # <<>> /\ ~Blocked(Head(ctx.batch))
  /\ \E result \in {"value", "error"} :
       Become(ExecuteItem([State EXCEPT !.ctx.batch = Tail(@)], Head(ctx.batch), result))

-----------------------------------------------------------------------------
(* update_timers: the timers that have elapsed, then the timerfd.          *)
ReapTimers(s) ==
  LET left == FirstLater(s.op, s.ctx.timers_, s.ctx.now)
      reaped == SubSeq(s.ctx.timers_, 1, left - 1)
      queued == Excluding(reaped, s.ctx.cancelPending)
  IN  [s EXCEPT !.ctx.timers_ = SubSeq(@, left, Len(@)),
                !.ctx.elapsed = @ \cup Items(reaped),
                !.ctx.localQueue_ = @ \o [i \in DOMAIN queued |-> Op(queued[i])]]
ArmTimer(s) ==
  LET due == s.op[Head(s.ctx.timers_)].due
      sooner == s.ctx.currentDueTime_ = <<>> \/ due < s.ctx.currentDueTime_[1]
  IN  CASE s.ctx.timers_ = <<>> /\ s.ctx.currentDueTime_ = <<>> -> s
        [] s.ctx.timers_ = <<>> /\ s.ctx.currentDueTime_ # <<>> ->
             [s EXCEPT !.ctx.currentDueTime_ = <<>>, !.ctx.timersAreDirty_ = FALSE]
        [] s.ctx.timers_ # <<>> ->
             [s EXCEPT !.ctx.currentDueTime_ = IF sooner THEN <<due>> ELSE @,
                       !.ctx.timersAreDirty_ = FALSE]
update_timers(s) == IF s.ctx.timersAreDirty_ THEN ArmTimer(ReapTimers(s)) ELSE s

(* run_impl: take what other threads have queued, or mark the queue        *)
(* inactive and wait; with local work to do epoll_wait() does not block.   *)
try_schedule_local_remote_queue_contents(s) ==
  IF s.ctx.remoteQueue_ # <<>>
  THEN [s EXCEPT !.ctx.localQueue_ = @ \o s.ctx.remoteQueue_, !.ctx.remoteQueue_ = <<>>]
  ELSE [s EXCEPT !.ctx.remoteQueue_ = Inactive, !.ctx.remoteQueueReadSubmitted_ = TRUE]
TakeBatch(c) == [c EXCEPT !.batch = c.localQueue_, !.localQueue_ = <<>>, !.pc = "items"]
Poll ==
  /\ ctx.pc = "items" /\ ctx.batch = <<>> /\ ~ctx.shouldStop_
  /\ LET s == update_timers(State)
         t == IF ctx.remoteQueueReadSubmitted_ THEN s ELSE try_schedule_local_remote_queue_contents(s)
     IN  Become([t EXCEPT !.ctx = IF t.ctx.remoteQueueReadSubmitted_ THEN [@ EXCEPT !.pc = "waiting"]
                                  ELSE TakeBatch(@)])

TimerFired == ctx.currentDueTime_ # <<>> /\ ctx.currentDueTime_[1] <= ctx.now
ReadyReads == ctx.registered \cap ctx.ready
Orders(S) == {list \in [1 .. Cardinality(S) -> S] : Items(list) = S}
acquire_completion_queue_items ==
  /\ ctx.pc = "waiting"
  /\ ctx.localQueue_ # <<>> \/ ctx.eventfd \/ TimerFired \/ ReadyReads # {}
  /\ \E events \in Orders({Op(o) : o \in ReadyReads}) :
       Become([State EXCEPT
         !.ctx = TakeBatch([ctx EXCEPT
           !.localQueue_ = ctx.localQueue_ \o events,
           !.eventfd = FALSE,
           !.remoteQueueReadSubmitted_ = ~ctx.eventfd,
           !.currentDueTime_ = IF TimerFired THEN <<>> ELSE ctx.currentDueTime_,
           !.timersAreDirty_ = ctx.timersAreDirty_ \/ TimerFired])])

(* A descriptor becomes ready; time passes.                                *)
BecomesReady(o) ==
  /\ op[o].kind = "read" /\ op[o].life = "started" /\ o \notin ctx.patient \cup ctx.ready
  /\ Become([State EXCEPT !.ctx.ready = @ \cup {o}])
Tick ==
  /\ ctx.now < MaxTime
  /\ Become([State EXCEPT !.ctx.now = @ + 1])

-----------------------------------------------------------------------------
(* start(), from another thread or from user code on the I/O thread.       *)
FirstExecute(o) ==
  CASE op[o].kind = "schedule" -> "schedule" [] op[o].kind = "read" -> "start_io"
    [] op[o].kind = "timed" -> "start_local"
DueTimes(o) == IF op[o].kind = "timed" THEN 0 .. MaxTime ELSE {0}
Prepared(o, due, by, pc) ==
  [StartBegins(State, o, by, pc) EXCEPT !.op[o].due = due, !.ctx.execute_[o] = FirstExecute(o)]

start_remote(o) ==
  /\ op[o].life = "idle" /\ ~ctx.destroyed
  /\ \E due \in DueTimes(o) :
       LET s == schedule_remote(Prepared(o, due, Outside, "signal"), Op(o))
       IN  Become(IF MustSignal THEN s ELSE StartReturns(s, o))
start_here(o) ==
  /\ op[o].life = "idle" /\ ctx.pc = "user"
  /\ \E due \in DueTimes(o) :
       LET s == StartReturns(Prepared(o, due, IoThread, "start"), o)
       IN  Become(IF op[o].kind = "schedule" THEN schedule_local(s, Op(o)) ELSE Execute(s, o, "value"))
signal_remote_queue(o) ==
  /\ op[o].start = "signal"
  /\ Become(StartReturns([State EXCEPT !.ctx.eventfd = TRUE], o))
UserCodeReturns ==
  /\ ctx.pc = "user"
  /\ Become([State EXCEPT !.ctx.pc = "items"])

(* Stop requests.  A read that is asked to stop on the I/O thread queues   *)
(* its done_op as a remote item too.                                       *)
MayStop(o) ==
  /\ MayRequestStop(o)
  /\ op[o].kind = "read" => EarlyStop \/ (op[o].cb = "set" /\ ctx.execute_[o] = "on_read_complete")
Deregister(s, o) == [s EXCEPT !.ctx.registered = @ \ {o}]
SignalNext(s, o) == IF MustSignal THEN [s EXCEPT !.op[o].stop = "signal"] ELSE CallbackReturns(s, o)
request_stop_remote(o) ==
  /\ MayStop(o)
  /\ Become(StopBegins(State, o, "flag"))
request_stop_here(o) ==
  /\ MayStop(o) /\ ctx.pc = "user"
  /\ LET s == CallbackReturns(StopBegins(State, o, "flag"), o) IN
     Become(
       IF op[o].cb # "set" THEN StopBegins(State, o, "flag")
       ELSE IF op[o].kind = "timed" THEN request_stop_local(s, o)
       ELSE [schedule_remote(Deregister(s, o), DoneOp(o)) EXCEPT
               !.ctx.cancelPending = @ \cup {o}, !.ctx.eventfd = @ \/ MustSignal])

(* The callback on another thread: set the flag, hand the operation over,  *)
(* wake the I/O thread.                                                    *)
StopFlag(o) ==
  /\ op[o].stop = "flag"
  /\ LET s == [State EXCEPT !.ctx.cancelPending = @ \cup {o}] IN
     Become(IF o \in ctx.elapsed THEN CallbackReturns(s, o)
            ELSE [s EXCEPT !.op[o].stop = IF op[o].kind = "read" THEN "deregister" ELSE "enqueue"])
StopDeregister(o) ==
  /\ op[o].stop = "deregister"
  /\ Become([Deregister(State, o) EXCEPT !.op[o].stop = "enqueue"])
StopEnqueue(o) ==
  /\ op[o].stop = "enqueue"
  /\ Become(IF op[o].kind = "read" THEN schedule_remote(SignalNext(State, o), DoneOp(o))
            ELSE schedule_remote([SignalNext(State, o) EXCEPT
                   !.ctx.execute_[o] = "remove_timer_from_queue_and_complete_with_done"], Op(o)))
StopSignal(o) ==
  /\ op[o].stop = "signal"
  /\ Become(CallbackReturns([State EXCEPT !.ctx.eventfd = TRUE], o))

-----------------------------------------------------------------------------
(* The stop token of run(); run() may be called again, with a token that   *)
(* is not triggered.  Who destroys the context has joined the threads that *)
(* request stops.                                                          *)
StopRun ==
  /\ ctx.stopper = "no" /\ ~ctx.destroyed
  /\ Become([schedule_remote(State, StopOp) EXCEPT !.ctx.stopper = IF MustSignal THEN "signal" ELSE "done"])
SignalStop ==
  /\ ctx.stopper = "signal"
  /\ Become([State EXCEPT !.ctx.eventfd = TRUE, !.ctx.stopper = "done"])
ReturnFromRun ==
  /\ ctx.pc = "items" /\ ctx.batch = <<>> /\ ctx.shouldStop_ /\ ctx.stopper = "done"
  /\ Become([State EXCEPT !.ctx.pc = "returned"])
RunAgain ==
  /\ ctx.pc = "returned" /\ ~ctx.destroyed /\ ~Quiet
  /\ Become([State EXCEPT !.ctx = TakeBatch(@), !.ctx.shouldStop_ = FALSE, !.ctx.stopper = "never"])
Destroy ==
  /\ ctx.pc = "returned" /\ ~ctx.destroyed /\ Quiet /\ \A o \in Ops : op[o].stop = "no"
  /\ Become([State EXCEPT !.ctx.destroyed = TRUE])

System ==
  \/ execute_pending_local \/ Poll \/ acquire_completion_queue_items \/ UserCodeReturns \/ Tick
  \/ SignalStop \/ ReturnFromRun \/ RunAgain
  \/ \E o \in Ops : \/ signal_remote_queue(o) \/ epoll_ctl_add(o) \/ BecomesReady(o)
                    \/ StopFlag(o) \/ StopDeregister(o) \/ StopEnqueue(o) \/ StopSignal(o)
User ==
  \/ StopRun \/ Destroy
  \/ \E o \in Ops : start_remote(o) \/ start_here(o) \/ request_stop_remote(o) \/ request_stop_here(o)
Next == which = "io_epoll_context" /\ (System \/ User)

-----------------------------------------------------------------------------
(* Where an operation is.  The stop request has taken over a read whose    *)
(* cancel flag is set: its item, if it is queued, then does nothing.       *)
Queued(item) ==
  Times(ctx.localQueue_, item) + Times(ctx.batch, item) + Times(ctx.remoteQueue_, item)
Taken(o) == op[o].life = "started" /\ o \in ctx.cancelPending
References(o) ==
  IF op[o].kind = "read" /\ Taken(o)
  THEN Queued(DoneOp(o)) + One(op[o].stop \in {"deregister", "enqueue"})
  ELSE Queued(Op(o)) + Queued(DoneOp(o)) + One(o \in ctx.registered /\ Queued(Op(o)) = 0) +
       One(Registering(o)) + One(op[o].stop = "enqueue") + One(o \in Items(ctx.timers_) /\ ~Taken(o))
Stopping == ctx.shouldStop_
Left == ctx.pc = "returned"
=============================================================================
