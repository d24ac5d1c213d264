------------------------------ MODULE IoUring ------------------------------
(***************************************************************************)
(* io_uring_context: one I/O thread, the submission and completion rings   *)
(* it shares with the kernel, a queue for work from other threads that is  *)
(* announced through an eventfd, and timers.  Operations are schedule(),   *)
(* schedule_at() ("timed") and reads, which stand for writes and accepts   *)
(* too: those do the same.                                                 *)
(***************************************************************************)
EXTENDS Scheduling

CONSTANTS Rings,     \* the sizes of the rings, <<sqEntryCount_, cqEntryCount_>>
          StopRings, \* those in which a read may be asked to stop
          EarlyStop  \* whether a read may be asked to stop before it is submitted

IoThread == 1

(* What is linked into queues: operations, the cancel_operation of a read, *)
(* and the stop_operation of run().                                        *)
Op(o) == <<"op", o>>
Cop(o) == <<"cop", o>>
StopOp == <<"stop", "run">>

Init ==
  /\ which = "io_uring_context"
  /\ op \in [Ops -> {NewOp(kind) : kind \in {"schedule", "timed", "read"}}]
  /\ ctx \in [ring : Rings, localQueue_ : {<<>>}, batch : {<<>>}, pendingIoQueue_ : {<<>>},
              remoteQueue_ : {<<>>}, timers_ : {<<>>}, sq : {<<>>}, kernel : {{}}, cq : {<<>>},
              cqPendingCount_ : {0}, remoteQueueReadSubmitted_ : {FALSE}, timersAreDirty_ : {FALSE},
              activeTimerCount_ : {0}, currentDueTime_ : {<<>>}, eventfd : {FALSE}, now : {0},
              pc : {"items"}, finishing : {<<>>}, shouldStop_ : {FALSE}, stopper : {"no"},
              destroyed : {FALSE}, patient : SUBSET StopOps,
              execute_ : {[o \in Ops |-> "none"]}, cancel_ : {[o \in Ops |-> "none"]},
              result_ : {[o \in Ops |-> "none"]}, refCount_ : {[o \in Ops |-> 1]},
              elapsed : {{}}, cancelPending : {{}}, overwritten : {{}}]
  /\ \A o \in StopOps : op[o].kind # "schedule"
  /\ \A o \in ctx.patient : op[o].kind = "read" /\ ctx.ring \in StopRings

-----------------------------------------------------------------------------
(* The queues.  The first thread that finds remoteQueue_ inactive has to   *)
(* write to the eventfd.                                                   *)
Inactive == <<<<"inactive", "run">>>>
enqueue(queue, item) == IF queue = Inactive THEN <<item>> ELSE Append(queue, item)
schedule_local(s, item) == [s EXCEPT !.ctx.localQueue_ = Append(@, item)]
schedule_remote(s, item) == [s EXCEPT !.ctx.remoteQueue_ = enqueue(@, item)]
MustSignal == ctx.remoteQueue_ = Inactive
schedule_pending_io(s, item) == [s EXCEPT !.ctx.pendingIoQueue_ = Append(@, item)]

pending_operation_count(s) == s.ctx.cqPendingCount_ + Len(s.ctx.sq)
can_submit_io(s) ==
  Len(s.ctx.sq) < s.ctx.ring[1] /\ pending_operation_count(s) < s.ctx.ring[2]
Submit(s, sqe) == [s EXCEPT !.ctx.sq = Append(@, sqe)]

-----------------------------------------------------------------------------
(* Reads.  cancel_ is the execute_ of the operation's cancel_operation.    *)
request_stop_local(s, o) ==
  IF can_submit_io(s)
  THEN Submit([s EXCEPT !.ctx.cancel_[o] = "on_stop_complete"], <<"cancel", o>>)
  ELSE schedule_pending_io([s EXCEPT !.ctx.cancel_[o] = "on_schedule_stop_complete"], Cop(o))

(* The stop callback on the I/O thread.                                    *)
request_stop(s, o) ==
  IF s.ctx.refCount_[o] = 1
  THEN request_stop_local([s EXCEPT !.ctx.refCount_[o] = 2], o) ELSE s

(* A read that found no room starts again, and constructs its callback     *)
(* over the first one; a receiver that cannot be stopped needs none.       *)
CanBeStopped(o) == o \in StopOps /\ ctx.ring \in StopRings
ConstructOver(s, o) ==
  CASE ~CanBeStopped(o) -> s
    [] CanBeStopped(o) /\ s.op[o].cb = "none" -> Construct(s, o)
    [] CanBeStopped(o) /\ s.op[o].cb # "none" -> [s EXCEPT !.ctx.overwritten = @ \cup {o}]
start_io(s, o) ==
  LET constructed == ConstructOver(s, o)
      t == IF s.op[o].stopped THEN request_stop(constructed, o) ELSE constructed
  IN  IF can_submit_io(t)
      THEN Submit([t EXCEPT !.ctx.execute_[o] = "on_read_complete"], <<"read", o>>)
      ELSE schedule_pending_io([t EXCEPT !.ctx.execute_[o] = "start_io"], Op(o))

(* The one that brings the count to zero completes the operation.          *)
on_read_complete(s, o) ==
  LET t == [s EXCEPT !.ctx.refCount_[o] = @ - 1]
  IN  IF s.ctx.refCount_[o] = 1 THEN [t EXCEPT !.ctx.finishing = <<o>>, !.ctx.pc = "finish"] ELSE t

ReadSignal(s, o) ==
  IF s.op[o].stopped \/ s.ctx.result_[o] = "canceled" THEN "done" ELSE s.ctx.result_[o]

-----------------------------------------------------------------------------
(* Timers; canBeCancelled_ is whether o is in StopOps.                     *)
schedule_at_impl(s, o) ==
  LET timers == InsertByDueTime(s.op, s.ctx.timers_, o)
  IN  [s EXCEPT !.ctx.timers_ = timers, !.ctx.timersAreDirty_ = @ \/ Head(timers) = o]
remove_timer(s, o) ==
  [s EXCEPT !.ctx.timers_ = Unlink(@, o),
            !.ctx.timersAreDirty_ = @ \/ Head(s.ctx.timers_) = o]

start_local(s, o) ==
  IF s.op[o].stopped
  THEN schedule_local([s EXCEPT !.ctx.execute_[o] = "complete_with_done"], Op(o))
  ELSE Construct(schedule_at_impl([s EXCEPT !.ctx.execute_[o] = "maybe_complete_with_value"], o), o)

timer_request_stop_local(s, o) ==
  LET t == Destruct([s EXCEPT !.ctx.execute_[o] = "complete_with_done"], o)
  IN  IF o \in s.ctx.elapsed THEN t ELSE schedule_local(remove_timer(t, o), Op(o))

-----------------------------------------------------------------------------
(* What the I/O thread does with an item; user code runs after a           *)
(* completion, in which the operation may be destroyed.                    *)
ToUser(s, o) ==
  [s EXCEPT !.ctx.pc = "user", !.ctx.execute_[o] = "gone", !.ctx.cancel_[o] = "gone",
            !.ctx.result_[o] = "gone", !.ctx.elapsed = @ \ {o}, !.ctx.cancelPending = @ \ {o}]
Execute(s, o) ==
  CASE s.ctx.execute_[o] = "schedule" -> ToUser(CompleteScheduled(s, o), o)
    [] s.ctx.execute_[o] = "start_io" -> start_io(s, o)
    [] s.ctx.execute_[o] = "on_read_complete" -> on_read_complete(s, o)
    [] s.ctx.execute_[o] = "start_local" -> start_local(s, o)
    [] s.ctx.execute_[o] = "maybe_complete_with_value" -> ToUser(CompleteScheduled(Destruct(s, o), o), o)
    [] s.ctx.execute_[o] = "complete_with_done" -> ToUser(Complete(s, o, "done"), o)
    [] s.ctx.execute_[o] = "remove_timer_and_complete_with_done" ->
         ToUser(Complete(IF o \in s.ctx.elapsed THEN Destruct(s, o) ELSE remove_timer(Destruct(s, o), o),
                         o, "done"), o)

ExecuteItem(s, item) ==
  CASE item[1] = "op" -> Execute(s, item[2])
    [] item[1] = "cop" /\ s.ctx.cancel_[item[2]] = "on_stop_complete" -> on_read_complete(s, item[2])
    [] item[1] = "cop" /\ s.ctx.cancel_[item[2]] # "on_stop_complete" -> request_stop_local(s, item[2])
    [] item = StopOp -> [s EXCEPT !.ctx.shouldStop_ = TRUE]

(* A timer that destroys its callback waits while another thread runs it.  *)
Blocked(item) ==
  item[1] = "op" /\ ~MayDestruct(item[2]) /\
  ctx.execute_[item[2]] \in {"maybe_complete_with_value", "remove_timer_and_complete_with_done"}

execute_pending_local ==
  /\ ctx.pc = "items" /\ ctx.batch # <<>> /\ ~Blocked(Head(ctx.batch))
  /\ Become(ExecuteItem([State EXCEPT !.ctx.batch = Tail(@)], Head(ctx.batch)))
Finish ==
  LET o == ctx.finishing[1] IN
  /\ ctx.pc = "finish" /\ MayDestruct(o)
  /\ Become(ToUser([Complete(Destruct(State, o), o, ReadSignal(State, o)) EXCEPT !.ctx.finishing = <<>>], o))

-----------------------------------------------------------------------------
(* acquire_completion_queue_items.                                         *)
Ignored == <<"none", "run">>
ItemOf(e) == CASE e[1] = "read" -> Op(e[2]) [] e[1] = "cancel" -> Cop(e[2])
                  [] e[1] \in {"poll", "timeout", "remove"} -> Ignored
Completions(cq) == Excluding([i \in DOMAIN cq |-> ItemOf(cq[i])], {Ignored})
acquire_completion_queue_items(s) ==
  LET cq == s.ctx.cq
      woken == \E i \in DOMAIN cq : cq[i][1] = "poll"
      fired == Cardinality({i \in DOMAIN cq : cq[i][1] = "timeout"})
  IN  [s EXCEPT
         !.ctx.localQueue_ = @ \o Completions(cq),
         !.ctx.result_ = [o \in Ops |->
            IF \E i \in DOMAIN cq : cq[i][1] = "read" /\ cq[i][2] = o
            THEN cq[CHOOSE i \in DOMAIN cq : cq[i][1] = "read" /\ cq[i][2] = o][3] ELSE @[o]],
         !.ctx.eventfd = @ /\ ~woken,
         !.ctx.remoteQueueReadSubmitted_ = @ /\ ~woken,
         !.ctx.activeTimerCount_ = @ - fired,
         !.ctx.timersAreDirty_ = @ \/ fired > 0,
         !.ctx.currentDueTime_ = IF fired > 0 /\ s.ctx.activeTimerCount_ = fired THEN <<>> ELSE @,
         !.ctx.cq = <<>>, !.ctx.cqPendingCount_ = @ - Len(cq)]

(* update_timers: first the timers that have elapsed.                      *)
ReapTimers(s) ==
  LET left == FirstLater(s.op, s.ctx.timers_, s.ctx.now)
      reaped == SubSeq(s.ctx.timers_, 1, left - 1)
      ready == Excluding(reaped, s.ctx.cancelPending)
  IN  [s EXCEPT !.ctx.timers_ = SubSeq(@, left, Len(@)),
                !.ctx.elapsed = @ \cup Items(reaped),
                !.ctx.localQueue_ = @ \o [i \in DOMAIN ready |-> Op(ready[i])]]

try_submit_timer_io(s, due) ==
  IF can_submit_io(s)
  THEN [Submit(s, <<"timeout", due>>) EXCEPT !.ctx.activeTimerCount_ = @ + 1,
          !.ctx.currentDueTime_ = <<due>>, !.ctx.timersAreDirty_ = FALSE]
  ELSE s
try_submit_timer_io_cancel(s) == [Submit(s, <<"remove", 0>>) EXCEPT !.ctx.currentDueTime_ = <<>>]

ArmTimer(s) ==
  LET due == s.op[Head(s.ctx.timers_)].due IN
  CASE s.ctx.timers_ = <<>> /\ s.ctx.currentDueTime_ = <<>> -> s
    [] s.ctx.timers_ = <<>> /\ s.ctx.currentDueTime_ # <<>> ->
         IF can_submit_io(s)
         THEN [try_submit_timer_io_cancel(s) EXCEPT !.ctx.timersAreDirty_ = FALSE] ELSE s
    [] s.ctx.timers_ # <<>> /\ s.ctx.currentDueTime_ = <<>> -> try_submit_timer_io(s, due)
    [] s.ctx.timers_ # <<>> /\ s.ctx.currentDueTime_ # <<>> ->
         IF due >= s.ctx.currentDueTime_[1] THEN [s EXCEPT !.ctx.timersAreDirty_ = FALSE]
         ELSE IF can_submit_io(s) THEN try_submit_timer_io(try_submit_timer_io_cancel(s), due) ELSE s

update_timers(s) == IF s.ctx.timersAreDirty_ THEN ArmTimer(ReapTimers(s)) ELSE s

acquire_remote_queued_items(s) ==
  IF s.ctx.remoteQueueReadSubmitted_ THEN s
  ELSE [s EXCEPT !.ctx.localQueue_ = @ \o s.ctx.remoteQueue_, !.ctx.remoteQueue_ = <<>>]

-----------------------------------------------------------------------------
(* run_impl.                                                               *)
TakeBatch(c) == [c EXCEPT !.batch = c.localQueue_, !.localQueue_ = <<>>, !.pc = "items"]
Poll ==
  /\ ctx.pc = "items" /\ ctx.batch = <<>> /\ ~ctx.shouldStop_
  /\ \E s \in {acquire_completion_queue_items(State)} : \E t \in {update_timers(s)} :
       Become([acquire_remote_queued_items(t) EXCEPT !.ctx.pc = "pending"])
SubmitPending ==
  /\ ctx.pc = "pending" /\ ctx.pendingIoQueue_ # <<>> /\ can_submit_io(State)
  /\ Become(ExecuteItem([State EXCEPT !.ctx.pendingIoQueue_ = Tail(@)], Head(ctx.pendingIoQueue_)))

(* try_register_remote_queue_notification.                                 *)
Idle(s) == s.ctx.sq = <<>> /\ s.ctx.localQueue_ = <<>>
try_register(s) ==
  IF s.ctx.remoteQueueReadSubmitted_ \/ ~can_submit_io(s) THEN s
  ELSE IF s.ctx.remoteQueue_ # <<>>
  THEN [s EXCEPT !.ctx.localQueue_ = @ \o s.ctx.remoteQueue_, !.ctx.remoteQueue_ = <<>>]
  ELSE Submit([s EXCEPT !.ctx.remoteQueue_ = Inactive, !.ctx.remoteQueueReadSubmitted_ = TRUE],
              <<"poll", 0>>)

(* The kernel takes the submissions in order.  A cancellation completes    *)
(* the request it finds, or finds none.                                    *)
Accept(c, sqe) ==
  LET found == {r \in c.kernel : \/ sqe[1] = "cancel" /\ r = <<"read", sqe[2]>>
                                 \/ sqe[1] = "remove" /\ r[1] = "timeout"}
      r == CHOOSE x \in found : TRUE
  IN  CASE sqe[1] \notin {"cancel", "remove"} -> [c EXCEPT !.kernel = @ \cup {sqe}]
        [] sqe[1] \in {"cancel", "remove"} /\ found = {} -> [c EXCEPT !.cq = Append(@, sqe)]
        [] sqe[1] \in {"cancel", "remove"} /\ found # {} ->
             [c EXCEPT !.kernel = @ \ {r}, !.cq = @ \o <<Append(r, "canceled"), sqe>>]
Flushed(c, n) ==
  LET accepted[i \in 0 .. n] ==
        IF i = 0 THEN [c EXCEPT !.sq = SubSeq(@, n + 1, Len(@)), !.cqPendingCount_ = @ + n]
        ELSE Accept(accepted[i - 1], c.sq[i])
  IN  accepted[n]

(* It takes some of them, at least one, and waits only if it took all.     *)
io_uring_enter ==
  /\ ctx.pc = "pending" /\ (ctx.pendingIoQueue_ = <<>> \/ ~can_submit_io(State))
  /\ LET s == IF Idle(State) THEN try_register(State) ELSE State
         all == Len(s.ctx.sq)
         wait == /\ Idle(State)
                 /\ s.ctx.remoteQueueReadSubmitted_ \/ pending_operation_count(s) = s.ctx.ring[2]
     IN  IF ctx.localQueue_ # <<>> /\ ctx.sq = <<>> THEN Become([State EXCEPT !.ctx = TakeBatch(@)])
         ELSE \E n \in IF all = 0 THEN {0} ELSE 1 .. all :
                Become([s EXCEPT !.ctx = IF wait /\ n = all THEN [Flushed(@, n) EXCEPT !.pc = "waiting"]
                                         ELSE TakeBatch(Flushed(@, n))])
Wake ==
  /\ ctx.pc = "waiting" /\ ctx.cq # <<>>
  /\ Become([State EXCEPT !.ctx = TakeBatch(@)])

(* The kernel completes a request.                                         *)
Results(r) ==
  CASE r[1] = "read" -> IF r[2] \in ctx.patient THEN {} ELSE {"value", "error"}
    [] r[1] = "poll" -> IF ctx.eventfd THEN {"value"} ELSE {}
    [] r[1] = "timeout" -> IF r[2] <= ctx.now THEN {"value"} ELSE {}
KernelCompletes ==
  \E r \in ctx.kernel : \E result \in Results(r) :
    Become([State EXCEPT !.ctx.kernel = @ \ {r}, !.ctx.cq = Append(@, Append(r, result))])
Tick ==
  /\ ctx.now < MaxTime
  /\ Become([State EXCEPT !.ctx.now = @ + 1])

-----------------------------------------------------------------------------
(* start(), from another thread or from user code on the I/O thread.       *)
FirstExecute(o) ==
  CASE op[o].kind = "schedule" -> "schedule" [] op[o].kind = "read" -> "start_io"
    [] op[o].kind = "timed" -> "start_local"
DueTimes(o) == IF op[o].kind = "timed" THEN 0 .. MaxTime ELSE {0}
Prepared(o, due, by, pc) ==
  [StartBegins(State, o, by, pc) EXCEPT !.op[o].due = due, !.ctx.execute_[o] = FirstExecute(o)]

start_remote(o) ==
  /\ op[o].life = "idle" /\ ~ctx.destroyed
  /\ \E due \in DueTimes(o) :
       LET s == schedule_remote(Prepared(o, due, Outside, "signal"), Op(o))
       IN  Become(IF MustSignal THEN s ELSE StartReturns(s, o))
start_here(o) ==
  /\ op[o].life = "idle" /\ ctx.pc = "user"
  /\ \E due \in DueTimes(o) :
       LET s == StartReturns(Prepared(o, due, IoThread, "start"), o)
       IN  Become(IF op[o].kind = "schedule" THEN schedule_local(s, Op(o)) ELSE Execute(s, o))
SignalStart(o) ==
  /\ op[o].start = "signal"
  /\ Become(StartReturns([State EXCEPT !.ctx.eventfd = TRUE], o))

UserCodeReturns ==
  /\ ctx.pc = "user"
  /\ Become([State EXCEPT !.ctx.pc = "items"])

(* Stop requests, likewise.                                                *)
MayStop(o) ==
  MayRequestStop(o) /\ (op[o].kind = "read" => CanBeStopped(o) /\ (EarlyStop \/ op[o].cb = "set"))
request_stop_remote(o) ==
  /\ MayStop(o)
  /\ Become(StopBegins(State, o, "flag"))
request_stop_here(o) ==
  /\ MayStop(o) /\ ctx.pc = "user"
  /\ Become(IF op[o].cb # "set" THEN StopBegins(State, o, "flag")
            ELSE LET s == CallbackReturns(StopBegins(State, o, "flag"), o)
                 IN  IF op[o].kind = "read" THEN request_stop(s, o) ELSE timer_request_stop_local(s, o))

(* The callback on another thread: take the reference or set the flag,     *)
(* hand the operation over, wake the I/O thread.                           *)
StopFlag(o) ==
  /\ op[o].stop = "flag"
  /\ Become(
       IF op[o].kind = "read"
       THEN IF ctx.refCount_[o] = 1
            THEN [State EXCEPT !.ctx.refCount_[o] = 2, !.op[o].stop = "enqueue"]
            ELSE CallbackReturns(State, o)
       ELSE IF o \in ctx.elapsed THEN CallbackReturns([State EXCEPT !.ctx.cancelPending = @ \cup {o}], o)
       ELSE [State EXCEPT !.ctx.cancelPending = @ \cup {o}, !.op[o].stop = "enqueue"])
StopEnqueue(o) ==
  /\ op[o].stop = "enqueue"
  /\ LET s == IF MustSignal THEN [State EXCEPT !.op[o].stop = "signal"] ELSE CallbackReturns(State, o) IN
     Become(IF op[o].kind = "read"
            THEN schedule_remote([s EXCEPT !.ctx.cancel_[o] = "on_schedule_stop_complete"], Cop(o))
            ELSE schedule_remote([s EXCEPT !.ctx.execute_[o] = "remove_timer_and_complete_with_done"], Op(o)))
StopSignal(o) ==
  /\ op[o].stop = "signal"
  /\ Become(CallbackReturns([State EXCEPT !.ctx.eventfd = TRUE], o))

-----------------------------------------------------------------------------
(* The stop token of run(); run() may be called again, with a token that is *)
(* not triggered.                                                          *)
StopRun ==
  /\ ctx.stopper = "no" /\ ~ctx.destroyed
  /\ Become([schedule_remote(State, StopOp) EXCEPT !.ctx.stopper = IF MustSignal THEN "signal" ELSE "done"])
SignalStop ==
  /\ ctx.stopper = "signal"
  /\ Become([State EXCEPT !.ctx.eventfd = TRUE, !.ctx.stopper = "done"])
ReturnFromRun ==
  /\ ctx.pc = "items" /\ ctx.batch = <<>> /\ ctx.shouldStop_ /\ ctx.stopper = "done"
  /\ Become([State EXCEPT !.ctx.pc = "returned"])
RunAgain ==
  /\ ctx.pc = "returned" /\ ~ctx.destroyed /\ ~Quiet
  /\ Become([State EXCEPT !.ctx = TakeBatch(@), !.ctx.shouldStop_ = FALSE,
                          !.ctx.stopper = "never"])
Destroy ==
  /\ ctx.pc = "returned" /\ ~ctx.destroyed /\ Quiet
  /\ Become([State EXCEPT !.ctx.destroyed = TRUE])

System ==
  \/ execute_pending_local \/ Finish \/ Poll \/ SubmitPending
  \/ io_uring_enter \/ Wake \/ UserCodeReturns \/ KernelCompletes \/ Tick
  \/ SignalStop \/ ReturnFromRun \/ RunAgain
  \/ \E o \in Ops : SignalStart(o) \/ StopFlag(o) \/ StopEnqueue(o) \/ StopSignal(o)
User ==
  \/ StopRun \/ Destroy
  \/ \E o \in Ops : start_remote(o) \/ start_here(o) \/ request_stop_remote(o) \/ request_stop_here(o)
Next == which = "io_uring_context" /\ (System \/ User)

-----------------------------------------------------------------------------
(* Where an item is: a queue, the rings, the kernel.                       *)
Queued(item) ==
  Times(ctx.localQueue_, item) + Times(ctx.batch, item) + Times(ctx.pendingIoQueue_, item) +
  Times(ctx.remoteQueue_, item)
Submitted(what, o) ==
  Times(ctx.sq, <<what, o>>) + One(<<what, o>> \in ctx.kernel) +
  Cardinality({i \in DOMAIN ctx.cq : ctx.cq[i][1] = what /\ ctx.cq[i][2] = o})
References(o) ==
  Queued(Op(o)) + Queued(Cop(o)) + Submitted("read", o) + Submitted("cancel", o) +
  One(op[o].stop = "enqueue") +
  One(o \in Items(ctx.timers_) /\ ~(op[o].life = "started" /\ o \in ctx.cancelPending))
Expected(o) == IF ctx.finishing = <<o>> THEN 0 ELSE IF op[o].life = "started" THEN ctx.refCount_[o] ELSE 0
CallbackIsKept(o) == o \notin ctx.overwritten
Stopping == ctx.shouldStop_
Left == ctx.pc = "returned"
Bounded == pending_operation_count(State) <= ctx.ring[2] /\ ctx.activeTimerCount_ >= 0
=============================================================================
