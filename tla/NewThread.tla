----------------------------- MODULE NewThread -----------------------------
(***************************************************************************)
(* new_thread_context: a thread for each operation.  A thread that is done *)
(* leaves its handle in threadToJoin_ and joins the one that was there;    *)
(* the destructor waits for all and joins the last.                        *)
(***************************************************************************)
EXTENDS Scheduling

(* The destructor's own step is "no", "counted" (after the fetch_sub),     *)
(* "waiting", "joining".                                                   *)
Init ==
  /\ which = "new_thread_context"
  /\ op \in [Ops -> {NewOp("schedule")}]
  /\ ctx = [activeThreadCount_ |-> 1, threadToJoin_ |-> <<>>, destroyed |-> FALSE, pc |-> "no",
            thread |-> [o \in Ops |-> "none"], prevThread |-> [o \in Ops |-> <<>>]]

Starters == (IF ctx.pc = "no" THEN {Outside} ELSE {}) \cup
            {o \in Ops : ctx.thread[o] = "user" /\ StartsNothing(o)}

(* start(), with the operation's mutex held until it returns: launch the   *)
(* thread, which may fail, then count it.                                  *)
start(o) ==
  /\ op[o].life = "idle"
  /\ \E by \in Starters :
       \/ /\ op' = [op EXCEPT ![o] = Begun(@, by, "count")]
          /\ ctx' = [ctx EXCEPT !.thread[o] = "lock"]
       \/ /\ op' = [op EXCEPT ![o] = Returned(Completed(Begun(@, by, "launch"), "error"))]
          /\ UNCHANGED ctx
  /\ UNCHANGED which
Count(o) ==
  /\ op[o].start = "count"
  /\ op' = [op EXCEPT ![o] = Returned(@)]
  /\ ctx' = [ctx EXCEPT !.activeThreadCount_ = @ + 1]
  /\ UNCHANGED which

(* run(): wait for the mutex, complete; a set_value that throws is         *)
(* followed by set_error.                                                  *)
run(o) ==
  /\ ctx.thread[o] = "lock" /\ op[o].start # "count"
  /\ \/ op' = [op EXCEPT ![o] = CompletedScheduled(@)]
     \/ ~op[o].stopped /\ op' = [op EXCEPT ![o] = Completed(@, "error")]
  /\ ctx' = [ctx EXCEPT !.thread[o] = "user"]
  /\ UNCHANGED which

retire_thread(o) ==
  /\ ctx.thread[o] = "user" /\ StartsNothing(o)
  /\ LET last == ctx.activeThreadCount_ = 1 IN
     ctx' = [ctx EXCEPT !.prevThread[o] = ctx.threadToJoin_, !.threadToJoin_ = <<o>>,
                        !.activeThreadCount_ = @ - 1, !.thread[o] = "retired",
                        !.pc = IF last /\ @ = "waiting" THEN "counted" ELSE @]
  /\ UNCHANGED <<which, op>>
JoinPrevious(o) ==
  /\ ctx.thread[o] = "retired"
  /\ \A p \in Items(ctx.prevThread[o]) : ctx.thread[p] = "exited"
  /\ ctx' = [ctx EXCEPT
       !.thread = [x \in Ops |-> IF <<x>> = ctx.prevThread[o] THEN "joined"
                                 ELSE IF x = o THEN "exited" ELSE ctx.thread[x]],
       !.prevThread[o] = <<>>]
  /\ UNCHANGED <<which, op>>

(* The destructor: its fetch_sub, the wait for the count, the join.        *)
Destroy ==
  /\ ctx.pc = "no" /\ Quiet
  /\ ctx' = [ctx EXCEPT !.activeThreadCount_ = @ - 1, !.pc = "counted"]
  /\ UNCHANGED <<which, op>>
Wait ==
  /\ ctx.pc = "counted"
  /\ ctx' = [ctx EXCEPT !.pc = IF ctx.activeThreadCount_ = 0 THEN "joining" ELSE "waiting"]
  /\ UNCHANGED <<which, op>>
Join ==
  /\ ctx.pc = "joining" /\ ~ctx.destroyed
  /\ \A p \in Items(ctx.threadToJoin_) : ctx.thread[p] = "exited"
  /\ ctx' = [ctx EXCEPT
       !.thread = [x \in Ops |-> IF <<x>> = ctx.threadToJoin_ THEN "joined" ELSE ctx.thread[x]],
       !.destroyed = TRUE]
  /\ UNCHANGED <<which, op>>

RequestStop(o) ==
  /\ MayRequestStop(o)
  /\ op' = [op EXCEPT ![o].stopped = TRUE]
  /\ UNCHANGED <<which, ctx>>

System == Wait \/ Join \/ \E o \in Ops : Count(o) \/ run(o) \/ retire_thread(o) \/ JoinPrevious(o)
User == Destroy \/ \E o \in Ops : start(o) \/ RequestStop(o)
Next == which = "new_thread_context" /\ (System \/ User)

References(o) == One(ctx.thread[o] = "lock")
Stopping == ctx.pc # "no"
Left == \A o \in Ops : ctx.thread[o] \in {"none", "joined"}
=============================================================================
