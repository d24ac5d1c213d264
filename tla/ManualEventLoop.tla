-------------------------- MODULE ManualEventLoop --------------------------
(***************************************************************************)
(* manual_event_loop: a queue that the threads that call run() share, and  *)
(* single_thread_context, whose thread calls run() and whose destructor    *)
(* stops the loop and joins it.                                            *)
(***************************************************************************)
EXTENDS Scheduling

Init ==
  /\ which = "manual_event_loop"
  /\ op \in [Ops -> {NewOp("schedule")}]
  /\ ctx = [head_ |-> <<>>, stop_ |-> FALSE, destroyed |-> FALSE,
            pc |-> [w \in Workers |-> "run"], task |-> [w \in Workers |-> <<>>]]

(* cv_.notify_one() and notify_all().                                      *)
Waiting == {w \in Workers : ctx.pc[w] = "waiting"}
NotifyOne(c) ==
  IF Waiting = {} THEN {c} ELSE {[c EXCEPT !.pc[w] = "run"] : w \in Waiting}

(* Mutation of enqueue: nobody is notified.                                *)
enqueue_NoNotify(o) == {[ctx EXCEPT !.head_ = Append(@, o)]}

enqueue(o) ==
  LET pushed == [ctx EXCEPT !.head_ = Append(@, o)]
  IN  IF ctx.head_ = <<>> THEN NotifyOne(pushed) ELSE {pushed}

(* Once the loop was stopped only its own tasks may schedule more.         *)
Starters == (IF ctx.stop_ THEN {} ELSE {Outside}) \cup {w \in Workers : ctx.pc[w] = "user"}
start(o) ==
  /\ op[o].life = "idle" /\ Starters # {}
  /\ op' = [op EXCEPT ![o] = Returned(Begun(@, Outside, "enqueue"))]
  /\ ctx' \in enqueue(o)
  /\ UNCHANGED which

run(w) ==
  /\ ctx.pc[w] = "run"
  /\ ctx' = IF ctx.head_ # <<>>
            THEN [ctx EXCEPT !.head_ = Tail(@), !.task[w] = <<Head(ctx.head_)>>, !.pc[w] = "task"]
            ELSE [ctx EXCEPT !.pc[w] = IF ctx.stop_ THEN "returned" ELSE "waiting"]
  /\ UNCHANGED <<which, op>>

execute_impl(w) ==
  /\ ctx.pc[w] = "task"
  /\ op' = [op EXCEPT ![ctx.task[w][1]] = CompletedScheduled(@)]
  /\ ctx' = [ctx EXCEPT !.task[w] = <<>>, !.pc[w] = "user"]
  /\ UNCHANGED which

UserCodeReturns(w) ==
  /\ ctx.pc[w] = "user"
  /\ ctx' = [ctx EXCEPT !.pc[w] = "run"]
  /\ UNCHANGED <<which, op>>

(* Mutation of stop: nobody is notified.                                   *)
stop_NoNotify ==
  /\ ~ctx.stop_
  /\ ctx' = [ctx EXCEPT !.stop_ = TRUE]
  /\ UNCHANGED <<which, op>>

stop ==
  /\ ~ctx.stop_
  /\ ctx' = [ctx EXCEPT !.stop_ = TRUE,
                        !.pc = [w \in Workers |-> IF ctx.pc[w] = "waiting" THEN "run" ELSE ctx.pc[w]]]
  /\ UNCHANGED <<which, op>>

(* thread_.join() in the destructor of single_thread_context.              *)
Join ==
  /\ ctx.stop_ /\ ~ctx.destroyed /\ \A w \in Workers : ctx.pc[w] = "returned"
  /\ ctx' = [ctx EXCEPT !.destroyed = TRUE]
  /\ UNCHANGED <<which, op>>

RequestStop(o) ==
  /\ MayRequestStop(o)
  /\ op' = [op EXCEPT ![o].stopped = TRUE]
  /\ UNCHANGED <<which, ctx>>

System == (\E w \in Workers : run(w) \/ execute_impl(w) \/ UserCodeReturns(w)) \/ Join
User == stop \/ \E o \in Ops : start(o) \/ RequestStop(o)
Next == which = "manual_event_loop" /\ (System \/ User)

(* How often the context refers to an operation, whether it was told to    *)
(* stop, whether its threads have left it.                                 *)
References(o) == Times(ctx.head_, o) + Cardinality({w \in Workers : ctx.task[w] = <<o>>})
Stopping == ctx.stop_
Left == \A w \in Workers : ctx.pc[w] = "returned"
=============================================================================
