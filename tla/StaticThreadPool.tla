-------------------------- MODULE StaticThreadPool --------------------------
(***************************************************************************)
(* static_thread_pool: a queue for each thread, each with its own mutex.   *)
(* A thread first tries every queue without blocking, its own first, then  *)
(* waits on its own; a task goes to the first queue whose mutex is free.   *)
(***************************************************************************)
EXTENDS Scheduling

N == Cardinality(Workers)
At(index, i) == ((index + i - 1) % N) + 1
None == 0

(* Workers is 1..N here; mut_ is the owner of each mutex, a worker or an   *)
(* operation whose start() runs.                                           *)
Init ==
  /\ which = "static_thread_pool"
  /\ op \in [Ops -> {NewOp("schedule")}]
  /\ ctx = [mut_ |-> [q \in Workers |-> None], queue_ |-> [q \in Workers |-> <<>>],
            stopRequested_ |-> [q \in Workers |-> FALSE], stopper |-> 0, nextThread_ |-> 0,
            destroyed |-> FALSE, push |-> [o \in Ops |-> [index |-> 0, i |-> 0]],
            pc |-> [w \in Workers |-> "try"], i |-> [w \in Workers |-> 0],
            task |-> [w \in Workers |-> <<>>]]

Stopping == ctx.stopper > 0

-----------------------------------------------------------------------------
(* enqueue: try_push on every queue from the next thread's on, then push.  *)
Starters == (IF Stopping THEN {} ELSE {Outside}) \cup
            {w \in Workers : ctx.pc[w] = "user" /\ StartsNothing(w)}
start(o) ==
  /\ op[o].life = "idle"
  /\ \E by \in Starters : op' = [op EXCEPT ![o] = Begun(@, by, "try_push")]
  /\ ctx' = [ctx EXCEPT !.push[o] = [index |-> ctx.nextThread_ + 1, i |-> 0],
                        !.nextThread_ = (@ + 1) % N]
  /\ UNCHANGED which

try_push(o) ==
  LET q == At(ctx.push[o].index, ctx.push[o].i) IN
  /\ op[o].start = "try_push"
  /\ \/ /\ ctx.mut_[q] = None
        /\ op' = [op EXCEPT ![o].start = "pushing"]
        /\ ctx' = [ctx EXCEPT !.mut_[q] = o]
     \/ /\ ctx.mut_[q] # None /\ ctx.push[o].i + 1 < N
        /\ ctx' = [ctx EXCEPT !.push[o].i = @ + 1]
        /\ UNCHANGED op
     \/ /\ ctx.mut_[q] # None /\ ctx.push[o].i + 1 >= N
        /\ op' = [op EXCEPT ![o].start = "push"]
        /\ ctx' = [ctx EXCEPT !.push[o].i = 0]
  /\ UNCHANGED which

push(o) ==
  LET q == At(ctx.push[o].index, 0) IN
  /\ op[o].start = "push" /\ ctx.mut_[q] = None
  /\ op' = [op EXCEPT ![o].start = "pushing"]
  /\ ctx' = [ctx EXCEPT !.mut_[q] = o]
  /\ UNCHANGED which

(* Under the mutex: the only thread that waits on a queue is its own.      *)
push_back(o) ==
  LET q == At(ctx.push[o].index, ctx.push[o].i) IN
  /\ op[o].start = "pushing"
  /\ op' = [op EXCEPT ![o] = Returned(@)]
  /\ ctx' = [ctx EXCEPT !.mut_[q] = None, !.queue_[q] = Append(@, o),
                        !.push[o] = [index |-> 0, i |-> 0],
                        !.pc[q] = IF @ = "waiting" /\ ctx.queue_[q] = <<>> THEN "pop" ELSE @]
  /\ UNCHANGED which

-----------------------------------------------------------------------------
(* run.                                                                    *)
try_pop(w) ==
  LET q == At(w, ctx.i[w]) IN
  /\ ctx.pc[w] = "try"
  /\ ctx' = IF ctx.mut_[q] = None
            THEN [ctx EXCEPT !.mut_[q] = w, !.pc[w] = "trying"]
            ELSE [ctx EXCEPT !.i[w] = (@ + 1) % N, !.pc[w] = IF ctx.i[w] + 1 < N THEN "try" ELSE "pop"]
  /\ UNCHANGED <<which, op>>

try_pop_locked(w) ==
  LET q == At(w, ctx.i[w]) IN
  /\ ctx.pc[w] = "trying"
  /\ ctx' = IF ctx.queue_[q] # <<>>
            THEN [ctx EXCEPT !.mut_[q] = None, !.queue_[q] = Tail(@), !.i[w] = 0,
                             !.task[w] = <<Head(ctx.queue_[q])>>, !.pc[w] = "task"]
            ELSE [ctx EXCEPT !.mut_[q] = None, !.i[w] = (@ + 1) % N,
                             !.pc[w] = IF ctx.i[w] + 1 < N THEN "try" ELSE "pop"]
  /\ UNCHANGED <<which, op>>

pop(w) ==
  /\ ctx.pc[w] = "pop" /\ ctx.mut_[w] = None
  /\ ctx' = IF ctx.queue_[w] # <<>>
            THEN [ctx EXCEPT !.queue_[w] = Tail(@), !.task[w] = <<Head(ctx.queue_[w])>>, !.pc[w] = "task"]
            ELSE [ctx EXCEPT !.pc[w] = IF ctx.stopRequested_[w] THEN "returned" ELSE "waiting"]
  /\ UNCHANGED <<which, op>>

execute(w) ==
  /\ ctx.pc[w] = "task"
  /\ op' = [op EXCEPT ![ctx.task[w][1]] = CompletedScheduled(@)]
  /\ ctx' = [ctx EXCEPT !.task[w] = <<>>, !.pc[w] = "user"]
  /\ UNCHANGED which

UserCodeReturns(w) ==
  /\ ctx.pc[w] = "user" /\ StartsNothing(w)
  /\ ctx' = [ctx EXCEPT !.pc[w] = "try"]
  /\ UNCHANGED <<which, op>>

-----------------------------------------------------------------------------
(* request_stop, one thread after the other; its caller and the starts     *)
(* from outside the pool are in order.                                     *)
request_stop ==
  /\ ctx.stopper < N
  /\ ctx.stopper = 0 => \A o \in Ops : op[o].by # Outside
  /\ LET q == ctx.stopper + 1 IN
       /\ ctx.mut_[q] = None
       /\ ctx' = [ctx EXCEPT !.stopper = q, !.stopRequested_[q] = TRUE,
                             !.pc[q] = IF @ = "waiting" THEN "pop" ELSE @]
  /\ UNCHANGED <<which, op>>

Left == \A w \in Workers : ctx.pc[w] = "returned"
join ==
  /\ ctx.stopper = N /\ Left /\ ~ctx.destroyed
  /\ ctx' = [ctx EXCEPT !.destroyed = TRUE]
  /\ UNCHANGED <<which, op>>

RequestStop(o) ==
  /\ MayRequestStop(o)
  /\ op' = [op EXCEPT ![o].stopped = TRUE]
  /\ UNCHANGED <<which, ctx>>

System ==
  \/ \E w \in Workers : try_pop(w) \/ try_pop_locked(w) \/ pop(w) \/ execute(w) \/ UserCodeReturns(w)
  \/ \E o \in Ops : try_push(o) \/ push(o) \/ push_back(o)
  \/ Stopping /\ request_stop
  \/ join
User == (~Stopping /\ request_stop) \/ \E o \in Ops : start(o) \/ RequestStop(o)
Next == which = "static_thread_pool" /\ (System \/ User)

(* The places in the queues.                                               *)
Places == UNION {{q} \X DOMAIN ctx.queue_[q] : q \in Workers}
References(o) ==
  One(op[o].start \in {"try_push", "push", "pushing"}) +
  Cardinality({p \in Places : ctx.queue_[p[1]][p[2]] = o}) +
  Cardinality({w \in Workers : ctx.task[w] = <<o>>})
=============================================================================
