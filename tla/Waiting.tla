------------------------------- MODULE Waiting -------------------------------
(***************************************************************************)
(* What the primitives one can wait for have in common: operations that    *)
(* wait, the threads that start, stop and wake them, and the completion    *)
(* through cancellable<> and completion_forwarder.  One behaviour is about *)
(* one primitive, `which', whose members are in the record ctx.            *)
(***************************************************************************)
EXTENDS Integers, Sequences, FiniteSets, SequencesExt, TLC

CONSTANTS Ops,      \* the operations
          StopOps,  \* those whose receiver may be asked to stop
          Setters,  \* those whose thread may set or reset an event
          HopStops  \* the receivers' scheduler completes with done when asked to stop

VARIABLES which,     \* the primitive (never changes)
          op,        \* the operations
          ctx,       \* the members of the primitive
          at,        \* where each thread is
          whom,      \* the operation it completes
          won, lost, \* where it goes on when it has done so, or somebody else has
          local      \* a local variable of it

threads == <<at, whom, won, lost>>
vars == <<which, op, ctx, threads, local>>

-----------------------------------------------------------------------------
(* Of each operation there is a thread that starts it, one that may        *)
(* request its stop, and one that calls the primitive on its own account.  *)
Agents == Ops \X {"start", "stop", "then"}
NoAgents ==
  /\ at = [a \in Agents |-> "none"] /\ whom = [a \in Agents |-> <<>>]
  /\ won = [a \in Agents |-> "none"] /\ lost = [a \in Agents |-> "none"]
  /\ local = [a \in Agents |-> <<>>]

(* An operation: bits is the state_ of cancellable, cb its stop callback   *)
(* ("none", "set", "running", "ran"), partner whom it met, result what it  *)
(* was given.                                                              *)
NewOp(kind) ==
  [kind |-> kind, life |-> "idle", bits |-> {}, cb |-> "none", stopped |-> FALSE,
   cancelled |-> FALSE, signals |-> <<>>, partner |-> <<>>, result |-> "value"]

(* A list without o, of which it holds at most one.                        *)
Without(seq, o) ==
  IF \E i \in DOMAIN seq : seq[i] = o THEN RemoveAt(seq, CHOOSE i \in DOMAIN seq : seq[i] = o) ELSE seq

Goto(a, pc) == at' = [at EXCEPT ![a] = pc] /\ UNCHANGED <<whom, won, lost>>

(* Thread a completes w: try_complete(), the cleanup that destroys the     *)
(* stop callback, and the hop to the receiver's scheduler; a goes on at    *)
(* winner, or at loser if somebody else has completed w.                   *)
CompleteThen(a, w, winner, loser) ==
  /\ at' = [at EXCEPT ![a] = "try"] /\ whom' = [whom EXCEPT ![a] = <<w>>]
  /\ won' = [won EXCEPT ![a] = winner] /\ lost' = [lost EXCEPT ![a] = loser]
Release(a, pc) ==
  /\ at' = [at EXCEPT ![a] = pc] /\ whom' = [whom EXCEPT ![a] = <<>>]
  /\ won' = [won EXCEPT ![a] = "none"] /\ lost' = [lost EXCEPT ![a] = "none"]

try_complete(a) ==
  /\ at[a] = "try"
  /\ LET w == whom[a][1] IN
     \/ "completed" \in op[w].bits /\ Release(a, lost[a]) /\ UNCHANGED op
     \/ /\ "completed" \notin op[w].bits
        /\ op' = [op EXCEPT ![w].bits = @ \cup {"completed"}]
        /\ Goto(a, "cleanup")
  /\ UNCHANGED <<which, ctx, local>>

(* The destructor of the callback waits for another thread that runs it.   *)
cleanup_(a) ==
  /\ at[a] = "cleanup"
  /\ LET w == whom[a][1] IN
     /\ op[w].cb = "running" => a = <<w, "stop">>
     /\ op' = [op EXCEPT ![w].cb = "none", ![w].life = "hopping"]
  /\ Release(a, won[a])
  /\ UNCHANGED <<which, ctx, local>>

(* forward_set_value() on the receiver's scheduler.  The v2 event hops     *)
(* without a stop token, the completion_forwarder with the receiver's.     *)
HopIsStopped(o) == HopStops /\ op[o].stopped /\ which # "async_manual_reset_event_v2"
Signal(o) == IF op[o].cancelled \/ HopIsStopped(o) THEN "done" ELSE op[o].result
forward_set_value(o) ==
  /\ op[o].life = "hopping"
  /\ op' = [op EXCEPT ![o].life = "completed", ![o].signals = Append(@, Signal(o))]
  /\ UNCHANGED <<which, ctx, threads, local>>

-----------------------------------------------------------------------------
(* start() of cancellable: construct the callback; with StopsEarly a stop  *)
(* request that has come replaces the start of the nested operation.       *)
NewCallback(o) == IF o \notin StopOps THEN "none" ELSE IF op[o].stopped THEN "ran" ELSE "set"
Start(o, early) ==
  /\ op[o].life = "idle"
  /\ op' = [op EXCEPT ![o].life = "started", ![o].bits = IF op[o].stopped THEN {"stopped"} ELSE {},
                      ![o].cb = NewCallback(o)]
  /\ Goto(<<o, "start">>, IF early /\ op[o].stopped THEN "stop" ELSE "nested")
  /\ UNCHANGED <<which, ctx, local>>

(* The nested start() has returned: a stop request that came before is     *)
(* forwarded.                                                              *)
MarkStarted(o) ==
  /\ at[<<o, "start">>] = "mark"
  /\ op' = [op EXCEPT ![o].bits = @ \cup {"started"}]
  /\ Goto(<<o, "start">>, IF op[o].bits = {"stopped"} THEN "stop" ELSE "returned")
  /\ UNCHANGED <<which, ctx, local>>

(* A stop request, the callback it runs, and its end.                      *)
RequestStop(o) ==
  /\ o \in StopOps /\ ~op[o].stopped
  /\ \/ /\ op[o].cb = "set"
        /\ op' = [op EXCEPT ![o].stopped = TRUE, ![o].cb = "running"]
        /\ Goto(<<o, "stop">>, "callback")
     \/ /\ op[o].cb # "set"
        /\ op' = [op EXCEPT ![o].stopped = TRUE]
        /\ UNCHANGED threads
  /\ UNCHANGED <<which, ctx, local>>
StopCallback(o) ==
  /\ at[<<o, "stop">>] = "callback"
  /\ op' = [op EXCEPT ![o].bits = @ \cup {"stopped"}]
  /\ Goto(<<o, "stop">>, IF op[o].bits = {"started"} THEN "stop" ELSE "return")
  /\ UNCHANGED <<which, ctx, local>>
CallbackReturns(o) ==
  /\ at[<<o, "stop">>] = "return"
  /\ op' = [op EXCEPT ![o].cb = IF @ = "running" THEN "ran" ELSE @]
  /\ Goto(<<o, "stop">>, "returned")
  /\ UNCHANGED <<which, ctx, local>>
AfterStop(a) == IF a[2] = "stop" THEN "return" ELSE "returned"

Completions ==
  \/ \E a \in Agents : try_complete(a) \/ cleanup_(a)
  \/ \E o \in Ops : forward_set_value(o)
Cancellation ==
  \E o \in Ops : MarkStarted(o) \/ StopCallback(o) \/ CallbackReturns(o)

-----------------------------------------------------------------------------
Times(seq, x) == Cardinality({i \in DOMAIN seq : seq[i] = x})
One(b) == IF b THEN 1 ELSE 0

(* The threads that have o in their hands.                                 *)
Handling(o) == Cardinality({a \in Agents : whom[a] = <<o>> /\ at[a] \in {"try", "cleanup"}})
Starting(o, pcs) == One(at[<<o, "start">>] \in pcs)
Returned == \A a \in Agents : at[a] \in {"none", "returned"}
=============================================================================
