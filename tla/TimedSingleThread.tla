------------------------- MODULE TimedSingleThread -------------------------
(***************************************************************************)
(* timed_single_thread_context: a list in ascending order of due time that *)
(* one thread serves; a stop callback takes its operation out of the list  *)
(* and inserts it again, due now, in two critical sections.                *)
(***************************************************************************)
EXTENDS Scheduling

Init ==
  /\ which = "timed_single_thread_context"
  /\ op \in [Ops -> {NewOp("timed")}]
  /\ ctx = [head_ |-> <<>>, stop_ |-> FALSE, destroyed |-> FALSE, now |-> 0,
            pc |-> "run", until |-> 0, task |-> <<>>]

Queued(o) == o \in Items(ctx.head_)
NotifyOne(c) == [c EXCEPT !.pc = IF @ \in {"waiting", "sleeping"} THEN "run" ELSE @]

enqueue(o) ==
  LET queue == InsertByDueTime(op, ctx.head_, o)
      inserted == [ctx EXCEPT !.head_ = queue]
  IN  IF queue[1] = o THEN NotifyOne(inserted) ELSE inserted

-----------------------------------------------------------------------------
(* Mutation of cancel_callback: the task is not taken out of the list      *)
(* before it is inserted again.                                            *)
cancel_callback_KeepsLinked(o, r) ==
  /\ op' = [op EXCEPT ![o] = IF ctx.now < r.due THEN [r EXCEPT !.due = ctx.now] ELSE r]
  /\ UNCHANGED ctx

(* cancel_callback, first critical section, in which the operation becomes *)
(* r; "requeue" is what is left to do after it when the task was in the    *)
(* list.                                                                   *)
cancel_callback(o, r) ==
  IF ctx.now < r.due
  THEN /\ op' = [op EXCEPT ![o] = [r EXCEPT !.due = ctx.now]]
       /\ ctx' = [ctx EXCEPT !.head_ = Unlink(@, o)]
  ELSE op' = [op EXCEPT ![o] = r] /\ UNCHANGED ctx
Requeues(o) == ctx.now < op[o].due /\ Queued(o)

RequestStop(o) ==
  /\ MayRequestStop(o)
  /\ op' = [op EXCEPT ![o] = StopBegun(@, "cancel")]
  /\ UNCHANGED <<which, ctx>>
Cancel(o) ==
  /\ op[o].stop = "cancel"
  /\ cancel_callback(o, IF Requeues(o) THEN [op[o] EXCEPT !.stop = "requeue"] ELSE CallbackReturned(op[o]))
  /\ UNCHANGED which
Requeue(o) ==
  /\ op[o].stop = "requeue"
  /\ op' = [op EXCEPT ![o] = CallbackReturned(@)]
  /\ ctx' = enqueue(o)
  /\ UNCHANGED which

(* schedule_at is given a due time, schedule_after a duration from now.    *)
Durations == 0 .. MaxTime - ctx.now
DueTimes == (0 .. MaxTime) \cup {ctx.now + duration : duration \in Durations}
start(o) ==
  /\ op[o].life = "idle" /\ ~ctx.stop_
  /\ \E due \in DueTimes : op' = [op EXCEPT ![o] = [Begun(@, Outside, "construct") EXCEPT !.due = due]]
  /\ UNCHANGED <<which, ctx>>
ConstructCallback(o) ==
  LET r == [Constructed(op[o]) EXCEPT !.start = "enqueue"] IN
  /\ op[o].start = "construct"
  /\ IF op[o].stopped THEN cancel_callback(o, r) ELSE op' = [op EXCEPT ![o] = r] /\ UNCHANGED ctx
  /\ UNCHANGED which
Enqueue(o) ==
  /\ op[o].start = "enqueue"
  /\ op' = [op EXCEPT ![o] = Returned(@)]
  /\ ctx' = enqueue(o)
  /\ UNCHANGED which

-----------------------------------------------------------------------------
(* Mutation of run: a task is due a tick early.                            *)
run_Early ==
  /\ ctx.pc = "run"
  /\ ctx' = IF ctx.stop_ THEN [ctx EXCEPT !.pc = "returned"]
            ELSE IF ctx.head_ = <<>> THEN [ctx EXCEPT !.pc = "waiting"]
            ELSE IF op[Head(ctx.head_)].due <= ctx.now + 1
            THEN [ctx EXCEPT !.head_ = Tail(@), !.task = <<Head(ctx.head_)>>, !.pc = "task"]
            ELSE [ctx EXCEPT !.pc = "sleeping", !.until = op[Head(ctx.head_)].due]
  /\ UNCHANGED <<which, op>>

(* The thread.                                                             *)
run ==
  /\ ctx.pc = "run"
  /\ ctx' = IF ctx.stop_ THEN [ctx EXCEPT !.pc = "returned"]
            ELSE IF ctx.head_ = <<>> THEN [ctx EXCEPT !.pc = "waiting"]
            ELSE IF op[Head(ctx.head_)].due <= ctx.now
            THEN [ctx EXCEPT !.head_ = Tail(@), !.task = <<Head(ctx.head_)>>, !.pc = "task"]
            ELSE [ctx EXCEPT !.pc = "sleeping", !.until = op[Head(ctx.head_)].due]
  /\ UNCHANGED <<which, op>>
WakeUp ==
  /\ ctx.pc = "sleeping" /\ ctx.until <= ctx.now
  /\ ctx' = [ctx EXCEPT !.pc = "run"]
  /\ UNCHANGED <<which, op>>

execute_impl ==
  LET o == ctx.task[1] IN
  /\ ctx.pc = "task" /\ MayDestruct(o)
  /\ op' = [op EXCEPT ![o] = CompletedScheduled(Destructed(@))]
  /\ ctx' = [ctx EXCEPT !.task = <<>>, !.pc = "run"]
  /\ UNCHANGED which

Tick ==
  /\ ctx.now < MaxTime
  /\ ctx' = [ctx EXCEPT !.now = @ + 1]
  /\ UNCHANGED <<which, op>>

(* The destructor.                                                         *)
Destroy ==
  /\ ~ctx.stop_ /\ Quiet
  /\ ctx' = NotifyOne([ctx EXCEPT !.stop_ = TRUE])
  /\ UNCHANGED <<which, op>>
Left == ctx.pc = "returned"
Join ==
  /\ ctx.stop_ /\ Left /\ ~ctx.destroyed
  /\ ctx' = [ctx EXCEPT !.destroyed = TRUE]
  /\ UNCHANGED <<which, op>>

System ==
  \/ run \/ WakeUp \/ execute_impl \/ Tick \/ Join
  \/ \E o \in Ops : ConstructCallback(o) \/ Enqueue(o) \/ Cancel(o) \/ Requeue(o)
User == Destroy \/ \E o \in Ops : start(o) \/ RequestStop(o)
Next == which = "timed_single_thread_context" /\ (System \/ User)

References(o) ==
  One(op[o].start \in {"construct", "enqueue"}) + One(op[o].stop = "requeue")
  + Times(ctx.head_, o) + One(ctx.task = <<o>>)
Stopping == ctx.stop_
=============================================================================
