----------------------- MODULE ThreadUnsafeEventLoop -----------------------
(***************************************************************************)
(* thread_unsafe_event_loop: the same list without a lock.  One thread     *)
(* starts operations, requests their stop and runs the loop, in which user *)
(* code does the same.                                                     *)
(***************************************************************************)
EXTENDS Scheduling

Init ==
  /\ which = "thread_unsafe_event_loop"
  /\ op \in [Ops -> {NewOp("timed")}]
  /\ ctx = [head_ |-> <<>>, now |-> 0, lastTime |-> 0, pc |-> "user", item |-> <<>>, running |-> FALSE,
            destroyed |-> FALSE]

enqueue(list, o) == ctx' = [ctx EXCEPT !.head_ = InsertByDueTime(op', list, o)]

(* schedule_at is given a due time, schedule_after a duration from now.      *)
Durations == 0 .. MaxTime - ctx.now
DueTimes == (0 .. MaxTime) \cup {ctx.now + duration : duration \in Durations}

(* start(): the callback, then the list.  The stop was not requested yet:  *)
(* a callback that runs here would read prevPtr_, which has no value until *)
(* enqueue() gives it one.                                                 *)
start(o) ==
  /\ op[o].life = "idle" /\ ~op[o].stopped /\ ctx.pc = "user" /\ ~ctx.destroyed
  /\ \E due \in DueTimes :
       op' = [op EXCEPT ![o] = Returned(Constructed([Begun(@, Outside, "start") EXCEPT !.due = due]))]
  /\ enqueue(ctx.head_, o)
  /\ UNCHANGED which

cancel_callback(o, r) ==
  IF ctx.now < r.due
  THEN op' = [op EXCEPT ![o] = [r EXCEPT !.due = ctx.now]] /\ enqueue(Unlink(ctx.head_, o), o)
  ELSE op' = [op EXCEPT ![o] = r] /\ UNCHANGED ctx

RequestStop(o) ==
  LET r == StopBegun(op[o], "cancel") IN
  /\ MayRequestStop(o) /\ ctx.pc = "user"
  /\ IF op[o].cb = "set" THEN cancel_callback(o, CallbackReturned(r))
     ELSE op' = [op EXCEPT ![o] = r] /\ UNCHANGED ctx
  /\ UNCHANGED which

(* run_until_empty.                                                        *)
run ==
  /\ ctx.pc = "user" /\ ~ctx.running /\ ~ctx.destroyed
  /\ ctx' = [ctx EXCEPT !.running = TRUE, !.lastTime = ctx.now, !.pc = "loop"]
  /\ UNCHANGED <<which, op>>
UserCodeReturns ==
  /\ ctx.pc = "user" /\ ctx.running
  /\ ctx' = [ctx EXCEPT !.pc = "loop"]
  /\ UNCHANGED <<which, op>>

PopHead(time) ==
  [ctx EXCEPT !.head_ = Tail(@), !.item = <<Head(ctx.head_)>>, !.pc = "item", !.lastTime = time]
Loop ==
  LET due == op[Head(ctx.head_)].due IN
  /\ ctx.pc = "loop"
  /\ ctx' = IF ctx.head_ = <<>> THEN [ctx EXCEPT !.pc = "user", !.running = FALSE]
            ELSE IF due <= ctx.lastTime THEN PopHead(ctx.lastTime)
            ELSE IF due <= ctx.now THEN PopHead(ctx.now)
            ELSE [ctx EXCEPT !.pc = "sleep"]
  /\ UNCHANGED <<which, op>>
Sleep ==
  /\ ctx.pc = "sleep" /\ op[Head(ctx.head_)].due <= ctx.now
  /\ ctx' = PopHead(ctx.now)
  /\ UNCHANGED <<which, op>>

execute_impl ==
  /\ ctx.pc = "item"
  /\ op' = [op EXCEPT ![ctx.item[1]] = CompletedScheduled(Destructed(@))]
  /\ ctx' = [ctx EXCEPT !.item = <<>>, !.pc = "user"]
  /\ UNCHANGED which

Tick ==
  /\ ctx.now < MaxTime
  /\ ctx' = [ctx EXCEPT !.now = @ + 1]
  /\ UNCHANGED <<which, op>>

Destroy ==
  /\ ctx.pc = "user" /\ ~ctx.running /\ Quiet /\ ~ctx.destroyed
  /\ ctx' = [ctx EXCEPT !.destroyed = TRUE]
  /\ UNCHANGED <<which, op>>

(* A program that starts operations runs the loop.                         *)
System ==
  \/ UserCodeReturns \/ Loop \/ Sleep \/ execute_impl \/ Tick
  \/ ctx.head_ # <<>> /\ run
User == (ctx.head_ = <<>> /\ run) \/ Destroy \/ \E o \in Ops : start(o) \/ RequestStop(o)
Next == which = "thread_unsafe_event_loop" /\ (System \/ User)

References(o) == Times(ctx.head_, o) + One(ctx.item = <<o>>)
Stopping == ctx.destroyed
Left == ctx.pc = "user" /\ ~ctx.running
=============================================================================
