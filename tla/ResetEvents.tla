---------------------------- MODULE ResetEvents ----------------------------
(***************************************************************************)
(* v1 and v2 async_manual_reset_event, and async_auto_reset_event, which   *)
(* is a mutex, a state and a v1 event.  An event is signalled or has a     *)
(* stack of waiters.  set() takes the whole stack and then wakes it, one   *)
(* by one: v1's waiters cannot be stopped, v2's can until they are popped. *)
(***************************************************************************)
EXTENDS Waiting

CONSTANT Items  \* the operations that may wait for a v2 event

V2 == which = "async_manual_reset_event_v2"
Auto == which = "async_auto_reset_event"

Init ==
  /\ which \in {"async_manual_reset_event_v1", "async_manual_reset_event_v2", "async_auto_reset_event"}
  /\ op = [o \in Ops |-> NewOp("wait")]
  /\ \E startSignalled \in BOOLEAN :
       ctx = [signalled |-> startSignalled, waiters |-> <<>>, mutex_ |-> <<>>,
              state_ |-> IF startSignalled THEN "SET" ELSE "UNSET"]
  /\ NoAgents

-----------------------------------------------------------------------------
(* v1: start_or_wait() pushes itself with an exchange that fails when the  *)
(* top of the stack is no longer the one it has read.                      *)
Top == IF ctx.signalled THEN <<"signalled">> ELSE IF ctx.waiters = <<>> THEN <<>>
       ELSE <<"op", Head(ctx.waiters)>>
StartV1(o) ==
  /\ which = "async_manual_reset_event_v1" /\ op[o].life = "idle"
  /\ op' = [op EXCEPT ![o].life = "started"]
  /\ Goto(<<o, "start">>, "load")
  /\ UNCHANGED <<which, ctx, local>>
LoadTop(o) ==
  /\ at[<<o, "start">>] = "load"
  /\ local' = [local EXCEPT ![<<o, "start">>] = Top]
  /\ Goto(<<o, "start">>, "push")
  /\ UNCHANGED <<which, op, ctx>>
PushOrComplete(o) ==
  LET a == <<o, "start">> IN
  /\ at[a] = "push"
  /\ \/ /\ local[a] = <<"signalled">>
        /\ op' = [op EXCEPT ![o].life = "hopping"]
        /\ local' = [local EXCEPT ![a] = <<>>]
        /\ Goto(a, "returned") /\ UNCHANGED ctx
     \/ /\ local[a] # <<"signalled">> /\ local[a] # Top
        /\ local' = [local EXCEPT ![a] = Top]
        /\ UNCHANGED <<op, ctx, threads>>
     \/ /\ local[a] # <<"signalled">> /\ local[a] = Top
        /\ ctx' = [ctx EXCEPT !.waiters = <<o>> \o @]
        /\ local' = [local EXCEPT ![a] = <<>>]
        /\ Goto(a, "returned") /\ UNCHANGED op
  /\ UNCHANGED which

(* v2: push_front_unless_latched(), and stop() with try_remove(), which    *)
(* finds a waiter in the event or in the list of a set() that has not yet  *)
(* come to it.                                                             *)
StartV2(o) == V2 /\ o \in Items /\ Start(o, FALSE)
(* Mutation of PushFront: the latch is not looked at.                      *)
PushFront_Blind(o) ==
  /\ V2 /\ at[<<o, "start">>] = "nested"
  /\ ctx' = [ctx EXCEPT !.waiters = <<o>> \o @]
  /\ Goto(<<o, "start">>, "mark")
  /\ UNCHANGED <<which, op, local>>

PushFront(o) ==
  LET a == <<o, "start">> IN
  /\ V2 /\ at[a] = "nested"
  /\ \/ ctx.signalled /\ CompleteThen(a, o, "mark", "mark") /\ UNCHANGED ctx
     \/ ~ctx.signalled /\ ctx' = [ctx EXCEPT !.waiters = <<o>> \o @] /\ Goto(a, "mark")
  /\ UNCHANGED <<which, op, local>>
Listed(o) ==
  \/ \E i \in DOMAIN ctx.waiters : ctx.waiters[i] = o
  \/ \E a \in Agents : a[2] = "then" /\ \E i \in DOMAIN local[a] : local[a][i] = o
(* Mutation of StopV2: the waiter that is stopped stays in its list.       *)
StopV2_KeepsLinked(a) ==
  /\ V2 /\ at[a] = "stop"
  /\ \/ /\ Listed(a[1])
        /\ op' = [op EXCEPT ![a[1]].cancelled = TRUE]
        /\ CompleteThen(a, a[1], AfterStop(a), AfterStop(a))
     \/ ~Listed(a[1]) /\ Goto(a, AfterStop(a)) /\ UNCHANGED op
  /\ UNCHANGED <<which, ctx, local>>

StopV2(a) ==
  /\ V2 /\ at[a] = "stop"
  /\ \/ /\ Listed(a[1])
        /\ ctx' = [ctx EXCEPT !.waiters = Without(@, a[1])]
        /\ local' = [b \in Agents |-> Without(local[b], a[1])]
        /\ op' = [op EXCEPT ![a[1]].cancelled = TRUE]
        /\ CompleteThen(a, a[1], AfterStop(a), AfterStop(a))
     \/ ~Listed(a[1]) /\ Goto(a, AfterStop(a)) /\ UNCHANGED <<op, ctx, local>>
  /\ UNCHANGED which

-----------------------------------------------------------------------------
(* set(): signal the event and take its waiters; then wake them.           *)
Signalled(a, state, owner) ==
  /\ ctx' = [ctx EXCEPT !.signalled = TRUE, !.waiters = <<>>, !.state_ = state, !.mutex_ = owner]
  /\ local' = [local EXCEPT ![a] = ctx.waiters]
  /\ Goto(a, "wake")
Wake(a) ==
  /\ at[a] = "wake" /\ local[a] # <<>>
  /\ local' = [local EXCEPT ![a] = Tail(@)]
  /\ \/ V2 /\ CompleteThen(a, Head(local[a]), "wake", "wake") /\ UNCHANGED op
     \/ ~V2 /\ op' = [op EXCEPT ![Head(local[a])].life = "hopping"] /\ UNCHANGED threads
  /\ UNCHANGED <<which, ctx>>
set(o) ==
  /\ ~Auto /\ o \in Setters /\ at[<<o, "then">>] = "none"
  /\ Signalled(<<o, "then">>, ctx.state_, ctx.mutex_)
  /\ UNCHANGED <<which, op>>
AfterSet(a) == IF a[2] = "stop" THEN "return" ELSE IF a[2] = "start" THEN "load" ELSE "returned"
SetReturns(a) ==
  /\ at[a] = "wake" /\ local[a] = <<>>
  /\ ctx' = [ctx EXCEPT !.mutex_ = <<>>]
  /\ Goto(a, AfterSet(a))
  /\ UNCHANGED <<which, op, local>>
reset(o) ==
  /\ ~Auto /\ o \in Setters /\ at[<<o, "then">>] = "none"
  /\ ctx' = [ctx EXCEPT !.signalled = FALSE]
  /\ Goto(<<o, "then">>, "returned")
  /\ UNCHANGED <<which, op, local>>

-----------------------------------------------------------------------------
(* async_auto_reset_event.  set() and set_done() hold the mutex until the  *)
(* waiter, of which there is at most one, is on its way.                   *)
auto_set(o) ==
  LET a == <<o, "then">> IN
  /\ Auto /\ o \in Setters /\ at[a] = "none" /\ ctx.mutex_ = <<>>
  /\ \/ ctx.state_ = "DONE" /\ Goto(a, "returned") /\ UNCHANGED <<ctx, local>>
     \/ ctx.state_ # "DONE" /\ Signalled(a, "SET", <<a>>)
  /\ UNCHANGED <<which, op>>
set_done(a) ==
  /\ Auto /\ ctx.mutex_ = <<>>
  /\ at[a] = IF a[2] = "stop" THEN "callback" ELSE "set_done"
  /\ Signalled(a, "DONE", <<a>>)
  /\ UNCHANGED <<which, op>>
cleanup(o) ==
  /\ Auto /\ o \in Setters /\ at[<<o, "then">>] = "none"
  /\ Goto(<<o, "then">>, "set_done")
  /\ UNCHANGED <<which, op, ctx, local>>

(* next(): register the stop callback, which calls set_done(), and wait.   *)
next(o) ==
  /\ Auto /\ op[o].life = "idle"
  /\ \A p \in Ops : op[p].life \in {"idle", "completed"}  \* one consumer
  /\ op' = [op EXCEPT ![o].life = "started", ![o].cb = NewCallback(o)]
  /\ Goto(<<o, "start">>, IF op[o].stopped THEN "set_done" ELSE "load")
  /\ UNCHANGED <<which, ctx, local>>

(* Awake again: destroy the callback, then try_reset().                    *)
try_reset(o) ==
  /\ Auto /\ op[o].life = "hopping" /\ op[o].cb # "running" /\ ctx.mutex_ = <<>>
  /\ op' = [op EXCEPT ![o].life = "completed", ![o].cb = "none",
                      ![o].signals = Append(@, IF ctx.state_ = "SET" THEN "value" ELSE "done")]
  /\ \/ ctx.state_ = "SET" /\ ctx' = [ctx EXCEPT !.state_ = "UNSET", !.signalled = FALSE]
     \/ ctx.state_ # "SET" /\ UNCHANGED ctx
  /\ UNCHANGED <<which, threads, local>>

-----------------------------------------------------------------------------
System ==
  \/ ~Auto /\ Completions
  \/ V2 /\ Cancellation
  \/ \E a \in Agents : Wake(a) \/ SetReturns(a) \/ StopV2(a) \/ set_done(a)
  \/ \E o \in Ops : \/ LoadTop(o) \/ PushOrComplete(o) \/ PushFront(o) \/ try_reset(o)
                    \/ Auto /\ CallbackReturns(o)
User ==
  \E o \in Ops : \/ StartV1(o) \/ StartV2(o) \/ next(o) \/ set(o) \/ reset(o) \/ auto_set(o) \/ cleanup(o)
                 \/ which # "async_manual_reset_event_v1" /\ RequestStop(o)
Next ==
  /\ which \in {"async_manual_reset_event_v1", "async_manual_reset_event_v2", "async_auto_reset_event"}
  /\ System \/ User

-----------------------------------------------------------------------------
Taken(o) == Cardinality({a \in Agents : at[a] = "wake" /\ Times(local[a], o) = 1})
Between(o) == Cardinality({a \in Agents : won[a] = "wake" /\ Times(local[a], o) = 1})
Places(o) ==
  Times(ctx.waiters, o) + Taken(o) + Between(o) + Handling(o) + Starting(o, {"nested", "load", "push"}) +
  One(Auto /\ (at[<<o, "start">>] = "set_done" \/ (at[<<o, "start">>] = "wake" /\ Taken(o) = 0)))
MayWait(o) == Times(ctx.waiters, o) = 1 /\ ~op[o].stopped

(* Nobody waits for an event that is signalled; while nobody is changing   *)
(* an auto-reset event it is signalled if and only if it is set or done,   *)
(* and it is still signalled when the woken consumer resets it.            *)
EventIsRight ==
  /\ ctx.signalled => ctx.waiters = <<>>
  /\ Auto =>
       /\ ctx.signalled = (ctx.state_ # "UNSET")
       /\ \A o \in Ops : op[o].life = "hopping" => ctx.signalled
=============================================================================
