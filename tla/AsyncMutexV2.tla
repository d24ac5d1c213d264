---------------------------- MODULE AsyncMutexV2 ----------------------------
(***************************************************************************)
(* v2::async_mutex: a flag and a list of waiters, kept in step by the      *)
(* order in which either side writes the one and reads the other.  The     *)
(* list is an atomic_intrusive_list, whose operations are atomic here.     *)
(***************************************************************************)
EXTENDS Waiting

Init ==
  /\ which = "async_mutex_v2"
  /\ op \in [Ops -> {NewOp("async_lock"), NewOp("try_lock")}]
  /\ \A o \in StopOps : op[o].kind = "async_lock"
  /\ ctx = [queue_ |-> <<>>, locked_ |-> FALSE, started_ |-> {}]
  /\ NoAgents

(* try_lock(), called by a user; who gets the lock will unlock it.         *)
try_lock(o) ==
  /\ op[o].kind = "try_lock" /\ op[o].life = "idle"
  /\ op' = [op EXCEPT ![o].life = "completed", ![o].signals = <<IF ctx.locked_ THEN "done" ELSE "value">>]
  /\ ctx' = [ctx EXCEPT !.locked_ = TRUE]
  /\ UNCHANGED <<which, threads, local>>
async_lock(o) == op[o].kind = "async_lock" /\ Start(o, TRUE)

(* start(): the fast path, or push and then look at the flag again.        *)
start(o) ==
  LET a == <<o, "start">> IN
  /\ at[a] = "nested"
  /\ ctx' = [ctx EXCEPT !.started_ = @ \cup {o}, !.locked_ = TRUE]
  /\ IF ctx.locked_ THEN Goto(a, "push") ELSE CompleteThen(a, o, "mark", "mark")
  /\ UNCHANGED <<which, op, local>>
push_back(o) ==
  /\ at[<<o, "start">>] = "push"
  /\ ctx' = [ctx EXCEPT !.queue_ = Append(@, o)]
  /\ Goto(<<o, "start">>, "exchange")
  /\ UNCHANGED <<which, op, local>>
ExchangeLocked(o) ==
  /\ at[<<o, "start">>] = "exchange"
  /\ ctx' = [ctx EXCEPT !.locked_ = TRUE]
  /\ Goto(<<o, "start">>, IF ctx.locked_ THEN "mark" ELSE "pop")
  /\ UNCHANGED <<which, op, local>>

(* process_queue(), by a thread that holds the lock: a waiter gets it, or  *)
(* it is released and the queue looked at once more.                       *)
After(a) == IF a[2] = "start" THEN "mark" ELSE "returned"
pop_front(a) ==
  /\ at[a] = "pop"
  /\ \/ ctx.queue_ = <<>> /\ Goto(a, "release") /\ UNCHANGED ctx
     \/ /\ ctx.queue_ # <<>>
        /\ ctx' = [ctx EXCEPT !.queue_ = Tail(@)]
        /\ CompleteThen(a, Head(ctx.queue_), After(a), "pop")
  /\ UNCHANGED <<which, op, local>>
ReleaseLock(a) ==
  /\ at[a] = "release"
  /\ ctx' = [ctx EXCEPT !.locked_ = FALSE]
  /\ Goto(a, "empty")
  /\ UNCHANGED <<which, op, local>>
(* Mutation of CheckEmpty: the queue is not looked at again.               *)
CheckEmpty_Trusts(a) ==
  /\ at[a] = "empty"
  /\ Goto(a, After(a))
  /\ UNCHANGED <<which, op, ctx, local>>

CheckEmpty(a) ==
  /\ at[a] = "empty"
  /\ Goto(a, IF ctx.queue_ = <<>> THEN After(a) ELSE "reacquire")
  /\ UNCHANGED <<which, op, ctx, local>>
(* Mutation of Reacquire: the lock is taken though another thread has it.  *)
Reacquire_Blind(a) ==
  /\ at[a] = "reacquire"
  /\ ctx' = [ctx EXCEPT !.locked_ = TRUE]
  /\ Goto(a, "pop")
  /\ UNCHANGED <<which, op, local>>

Reacquire(a) ==
  /\ at[a] = "reacquire"
  /\ ctx' = [ctx EXCEPT !.locked_ = TRUE]
  /\ Goto(a, IF ctx.locked_ THEN After(a) ELSE "pop")
  /\ UNCHANGED <<which, op, local>>

(* The owner unlocks.                                                      *)
Owns(o) == op[o].signals = <<"value">> /\ at[<<o, "then">>] = "none"
unlock(o) == Owns(o) /\ Goto(<<o, "then">>, "pop") /\ UNCHANGED <<which, op, ctx, local>>

(* stop(), in the callback or forwarded by start(): an operation that has  *)
(* not been started, or is still in the queue, is cancelled.               *)
Queued(o) == \E i \in DOMAIN ctx.queue_ : ctx.queue_[i] = o
stop(a) ==
  /\ at[a] = "stop"
  /\ \/ /\ a[1] \notin ctx.started_ \/ Queued(a[1])
        /\ op' = [op EXCEPT ![a[1]].cancelled = TRUE]
        /\ ctx' = [ctx EXCEPT !.queue_ = Without(@, a[1])]
        /\ CompleteThen(a, a[1], AfterStop(a), AfterStop(a))
     \/ /\ a[1] \in ctx.started_ /\ ~Queued(a[1])
        /\ Goto(a, AfterStop(a))
        /\ UNCHANGED <<op, ctx>>
  /\ UNCHANGED <<which, local>>

System ==
  \/ Completions \/ Cancellation
  \/ \E a \in Agents : pop_front(a) \/ ReleaseLock(a) \/ CheckEmpty(a) \/ Reacquire(a) \/ stop(a)
  \/ \E o \in Ops : start(o) \/ push_back(o) \/ ExchangeLocked(o) \/ unlock(o)
User == \E o \in Ops : try_lock(o) \/ async_lock(o) \/ RequestStop(o)
Next == which = "async_mutex_v2" /\ (System \/ User)

-----------------------------------------------------------------------------
Places(o) == Times(ctx.queue_, o) + Handling(o) + Starting(o, {"nested", "push"}) +
             One(at[<<o, "start">>] = "stop" /\ o \notin ctx.started_)
MayWait(o) == FALSE

(* Who holds the lock: an owner that has not called unlock(), an operation *)
(* that was given it, a thread on its way to pass it on or release it.     *)
GivenLock(o) ==
  /\ ~op[o].cancelled
  /\ op[o].life = "hopping" \/ \E a \in Agents : whom[a] = <<o>>
Holders ==
  {<<o, "owner">> : o \in {p \in Ops : Owns(p)}} \cup {<<o, "given">> : o \in {p \in Ops : GivenLock(p)}}
  \cup {a \in Agents : at[a] \in {"pop", "release"}}
LockIsRight == Cardinality(Holders) <= 1 /\ (Holders # {} => ctx.locked_)
=============================================================================
