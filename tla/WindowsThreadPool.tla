------------------------- MODULE WindowsThreadPool -------------------------
(***************************************************************************)
(* windows_thread_pool: operations are work items and timers of the        *)
(* system's pool.  start(), the item's callback and a stop request meet in *)
(* the flags of state_, which is allocated apart from the operation since  *)
(* start() needs it when the callback may have completed the operation.    *)
(***************************************************************************)
EXTENDS Scheduling

(* state_: the flags "submit_complete", "stop_requested", "starting",      *)
(* "running"; memory: who will delete it ("op", "start") or "freed"; work: *)
(* the item or timer ("none", "queued") or where its callback is.          *)
Init ==
  /\ which = "windows_thread_pool"
  /\ op \in [Ops -> {NewOp("schedule"), NewOp("timed")}]
  /\ ctx = [state_ |-> [o \in Ops |-> {}], memory |-> [o \in Ops |-> "op"],
            work |-> [o \in Ops |-> "none"], now |-> 0]

StopPossible(o) == o \in StopOps
Fetch(o, new) == [ctx.state_ EXCEPT ![o] = @ \cup {new}]

(* The receiver is completed and may destroy the operation, which is r by  *)
(* now, with its state.                                                    *)
Finish(o, r, signal, work) ==
  /\ op' = [op EXCEPT ![o] = Completed(r, signal)]
  /\ ctx' = [ctx EXCEPT !.memory[o] = IF @ = "op" THEN "freed" ELSE @, !.work[o] = work]
Step(o, r) == op' = [op EXCEPT ![o] = r] /\ UNCHANGED which

-----------------------------------------------------------------------------
(* schedule_at is given a due time, schedule_after a duration from now.    *)
Durations == 0 .. MaxTime - ctx.now
DueTimes(o) ==
  IF op[o].kind = "timed" THEN (0 .. MaxTime) \cup {ctx.now + duration : duration \in Durations} ELSE {0}

(* start() of an operation that cannot be stopped only submits its item.   *)
start(o) ==
  /\ op[o].life = "idle"
  /\ \E due \in DueTimes(o) :
       LET r == [Begun(op[o], Outside, "check") EXCEPT !.due = due] IN
       IF StopPossible(o) THEN Step(o, r) /\ UNCHANGED ctx
       ELSE Step(o, Returned(r)) /\ ctx' = [ctx EXCEPT !.work[o] = "queued"]

CheckStop(o) ==
  /\ op[o].start = "check"
  /\ IF op[o].stopped THEN Finish(o, Returned(op[o]), "done", ctx.work[o]) /\ UNCHANGED which
     ELSE Step(o, [op[o] EXCEPT !.start = "construct"]) /\ UNCHANGED ctx

(* A callback constructed late runs request_stop() in the constructor.     *)
ConstructCallback(o) ==
  /\ op[o].start = "construct"
  /\ Step(o, [Constructed(op[o]) EXCEPT !.start = "submit"])
  /\ ctx' = IF op[o].stopped THEN [ctx EXCEPT !.state_ = Fetch(o, "stop_requested")] ELSE ctx

(* SubmitThreadpoolWork() or SetThreadpoolTimer().                         *)
Submit(o) ==
  /\ op[o].start = "submit"
  /\ Step(o, [op[o] EXCEPT !.start = "submitted"])
  /\ ctx' = [ctx EXCEPT !.work[o] = "queued"]

SubmitComplete(o) ==
  LET prevState == ctx.state_[o] IN
  /\ op[o].start = "submitted"
  /\ Step(o, IF "stop_requested" \in prevState THEN [op[o] EXCEPT !.start = "cancel"] ELSE Returned(op[o]))
  /\ ctx' = [ctx EXCEPT !.state_ = Fetch(o, "submit_complete"),
                        !.memory[o] = IF "stop_requested" \notin prevState /\ "running" \in prevState
                                      THEN "freed" ELSE @]

-----------------------------------------------------------------------------
(* The callback of the work item or timer.                                 *)
Signals == {"value", "error"}
work_callback(o) ==
  /\ ctx.work[o] = "queued" /\ op[o].due <= ctx.now
  /\ IF StopPossible(o)
     THEN /\ ctx' = [ctx EXCEPT !.state_ = Fetch(o, "starting"),
                               !.work[o] = IF "stop_requested" \in ctx.state_[o] THEN "returned" ELSE "deregister"]
          /\ UNCHANGED op
     ELSE \E signal \in Signals : Finish(o, op[o], signal, "none")
  /\ UNCHANGED which

DeregisterCallback(o) ==
  /\ ctx.work[o] = "deregister" /\ MayDestruct(o)
  /\ Step(o, Destructed(op[o]))
  /\ ctx' = [ctx EXCEPT !.work[o] = "registered"]

MarkRunning(o) ==
  /\ ctx.work[o] = "registered"
  /\ LET detached == ctx.state_[o] = {"starting"}
     IN  ctx' = [ctx EXCEPT !.state_ = Fetch(o, "running"), !.work[o] = "running",
                            !.memory[o] = IF detached THEN "start" ELSE @]
  /\ UNCHANGED <<which, op>>

set_value_impl(o) ==
  /\ ctx.work[o] = "running"
  /\ \E signal \in Signals : Finish(o, op[o], signal, "none")
  /\ UNCHANGED which

-----------------------------------------------------------------------------
RequestStop(o) ==
  /\ MayRequestStop(o)
  /\ Step(o, StopBegun(op[o], "exchange"))
  /\ UNCHANGED ctx

request_stop(o) ==
  LET prevState == ctx.state_[o]
      cancels == "starting" \notin prevState /\ "submit_complete" \in prevState
  IN
  /\ op[o].stop = "exchange"
  /\ Step(o, IF cancels THEN [op[o] EXCEPT !.stop = "cancel"] ELSE CallbackReturned(op[o]))
  /\ ctx' = IF "starting" \in prevState THEN ctx ELSE [ctx EXCEPT !.state_ = Fetch(o, "stop_requested")]

(* complete_with_done(), in start() or in the stop callback: cancel the    *)
(* item or wait for its callback, destroy the stop callback, complete.     *)
Cancelled(o) == ctx.work[o] \in {"queued", "returned"}

complete_with_done(o) ==
  \/ /\ op[o].start = "cancel" /\ Cancelled(o)
     /\ Step(o, [op[o] EXCEPT !.start = "destruct"])
     /\ ctx' = [ctx EXCEPT !.work[o] = "none"]
  \/ /\ op[o].start = "destruct" /\ MayDestruct(o)
     /\ Finish(o, Returned(Destructed(op[o])), "done", ctx.work[o])
     /\ UNCHANGED which
  \/ /\ op[o].stop = "cancel" /\ Cancelled(o)
     /\ Finish(o, [Destructed(op[o]) EXCEPT !.stop = "no"], "done", "none")
     /\ UNCHANGED which

Tick ==
  /\ ctx.now < MaxTime
  /\ ctx' = [ctx EXCEPT !.now = @ + 1]
  /\ UNCHANGED <<which, op>>

System ==
  \/ Tick
  \/ \E o \in Ops :
       \/ CheckStop(o) \/ ConstructCallback(o) \/ Submit(o) \/ SubmitComplete(o)
       \/ work_callback(o) \/ DeregisterCallback(o) \/ MarkRunning(o) \/ set_value_impl(o)
       \/ request_stop(o) \/ complete_with_done(o)
User == \E o \in Ops : start(o) \/ RequestStop(o)
Next == which = "windows_thread_pool" /\ (System \/ User)

(* Who is going to complete an operation: start(), the callback of its     *)
(* item unless stop came first, or whoever cancels the item.               *)
References(o) ==
  One(op[o].start \in {"check", "construct", "submit", "cancel", "destruct"})
  + One(op[o].start = "submitted" /\ "stop_requested" \in ctx.state_[o])
  + One(ctx.work[o] = "queued" /\ "stop_requested" \notin ctx.state_[o])
  + One(ctx.work[o] \in {"deregister", "registered", "running"})
  + One(op[o].stop = "cancel")

(* state_ is there for everybody who is still to use it, and is deleted    *)
(* when nobody is.                                                         *)
StateIsKept(o) ==
  /\ op[o].start = "submitted" => ctx.memory[o] # "freed"
  /\ op[o].life = "completed" /\ op[o].start = "returned" => ctx.memory[o] = "freed"

(* The pool's threads are the system's.                                    *)
Stopping == FALSE
Left == TRUE
=============================================================================
