----------------------------- MODULE Cancellable -----------------------------
(***************************************************************************)
(* cancellable (include/unifex/cancellable.hpp): one wrapped operation,    *)
(* started by one thread, completed by its source on another, and stopped  *)
(* by a third through the receiver's stop token.                           *)
(*                                                                         *)
(* Whoever calls try_complete() is an actor: "source", "stop" (the stop    *)
(* callback) or "start" (start() itself, when it forwards a stop request). *)
(* A synchronous completion is one the source finishes before the nested   *)
(* start() returns.  The wrapped operation is external; it either decides  *)
(* itself whether its source or its stop() goes on to try_complete()       *)
(* (claims, as v2::async_mutex does with its queue), or lets both call it. *)
(***************************************************************************)
EXTENDS Naturals

CONSTANTS
  Eager  \* the receiver may destroy the operation as soon as it is completed

ASSUME CancellableAssumption == Eager \in BOOLEAN

Actors == {"source", "stop", "start"}

VARIABLES
  bits,          \* state_
  syncComplete,  \* the local sync_complete of start()
  cleanup,       \* cleanup_ destroys the callback
  op,            \* "alive", "completed" or "destroyed"
  callback,      \* the stop callback
  stopRequested, \* the receiver's stop token
  early, claims, \* StopsEarly; the kind of wrapped operation
  armed,         \* the wrapped operation can still be claimed
  spc, rpc,      \* start(); request_stop() and the callback it runs
  cpc,           \* the actors' calls of try_complete()
  deliveries     \* completions of the receiver

config == <<early, claims>>
vars == <<bits, syncComplete, cleanup, op, callback, stopRequested, config, armed, spc, rpc,
          cpc, deliveries>>

Init ==
  /\ bits \in {{}, {"non_stop"}} /\ syncComplete = FALSE /\ cleanup = FALSE
  /\ op = "alive" /\ callback = "none" /\ stopRequested = FALSE
  /\ early \in BOOLEAN /\ claims \in BOOLEAN /\ armed = FALSE
  /\ spc = "idle" /\ rpc = "idle"
  /\ cpc = [a \in Actors |-> "none"] /\ deliveries = 0

-----------------------------------------------------------------------------
(* try_complete() and the completion that follows. *)

\* Mutation of TryComplete: does not look whether somebody was first.
TryComplete_NoTest(a) ==
  /\ cpc[a] = "try"
  /\ bits' = bits \union {"completed"}
  /\ cpc' = [cpc EXCEPT ![a] = IF "non_stop" \in bits THEN "deliver"
                               ELSE IF "started" \in bits \/ spc = "early" THEN "cleanup"
                               ELSE "flag"]
  /\ UNCHANGED <<syncComplete, cleanup, op, callback, stopRequested, config, armed, spc, rpc,
                 deliveries>>

\* The fetch_or(completed).  sync_complete_ is null until stop_type::start().
TryComplete(a) ==
  /\ cpc[a] = "try"
  /\ bits' = bits \union {"completed"}
  /\ cpc' = [cpc EXCEPT ![a] = IF "completed" \in bits THEN "lost"
                               ELSE IF "non_stop" \in bits THEN "deliver"
                               ELSE IF "started" \in bits \/ spc = "early" THEN "cleanup"
                               ELSE "flag"]
  /\ UNCHANGED <<syncComplete, cleanup, op, callback, stopRequested, config, armed, spc, rpc,
                 deliveries>>

\* Tells start() that it was overtaken.
StoreFlag(a) ==
  /\ cpc[a] = "flag"
  /\ syncComplete' = TRUE
  /\ cpc' = [cpc EXCEPT ![a] = "cleanup"]
  /\ UNCHANGED <<bits, cleanup, op, callback, stopRequested, config, armed, spc, rpc, deliveries>>

\* cleanup_: destroys the stop callback, which waits for a call of it that
\* another thread is in.
Cleanup(a) ==
  /\ cpc[a] = "cleanup"
  /\ cleanup => callback # "running" \/ a = "stop"
  /\ callback' = IF cleanup THEN "destroyed" ELSE callback
  /\ cpc' = [cpc EXCEPT ![a] = "deliver"]
  /\ UNCHANGED <<bits, syncComplete, cleanup, op, stopRequested, config, armed, spc, rpc,
                 deliveries>>

\* The caller completes the receiver.
Deliver(a) ==
  /\ cpc[a] = "deliver"
  /\ deliveries' = deliveries + 1
  /\ op' = IF op = "alive" THEN "completed" ELSE op
  /\ cpc' = [cpc EXCEPT ![a] = "done"]
  /\ UNCHANGED <<bits, syncComplete, cleanup, callback, stopRequested, config, armed, spc, rpc>>

Complete(a) == TryComplete(a) \/ StoreFlag(a) \/ Cleanup(a) \/ Deliver(a)

-----------------------------------------------------------------------------
(* start() *)

\* An operation for a receiver that cannot be stopped only starts the nested one.
StartNonStop ==
  /\ spc = "idle" /\ "non_stop" \in bits
  /\ armed' = TRUE
  /\ spc' = "returned"
  /\ UNCHANGED <<bits, syncComplete, cleanup, op, callback, stopRequested, config, rpc, cpc,
                 deliveries>>

\* The stop callback is constructed.  If stop was requested before, it runs at
\* once and finds no bit set.
Register ==
  /\ spc = "idle" /\ "non_stop" \notin bits
  /\ callback' = IF stopRequested THEN "ran" ELSE "registered"
  /\ bits' = IF stopRequested THEN bits \union {"stopped"} ELSE bits
  /\ spc' = "assign"
  /\ UNCHANGED <<syncComplete, cleanup, op, stopRequested, config, armed, rpc, cpc, deliveries>>

\* Assigns cleanup_.
AssignCleanup ==
  /\ spc = "assign"
  /\ cleanup' = TRUE
  /\ spc' = "early"
  /\ UNCHANGED <<bits, syncComplete, op, callback, stopRequested, config, armed, rpc, cpc,
                 deliveries>>

\* StopsEarly: the nested operation is stopped instead of started.
StopEarly ==
  /\ spc = "early" /\ cpc["start"] = "none"
  /\ early /\ "stopped" \in bits
  /\ cpc' = [cpc EXCEPT !["start"] = "try"]
  /\ UNCHANGED <<bits, syncComplete, cleanup, op, callback, stopRequested, config, armed, spc, rpc,
                 deliveries>>

\* stop_type::start(): sync_complete_ is set and the nested operation started.
StartNested ==
  /\ spc = "early" /\ cpc["start"] = "none"
  /\ ~(early /\ "stopped" \in bits)
  /\ armed' = TRUE
  /\ spc' = "nested"
  /\ UNCHANGED <<bits, syncComplete, cleanup, op, callback, stopRequested, config, rpc, cpc,
                 deliveries>>

\* The nested start() returns.
NestedReturns ==
  /\ spc = "nested"
  /\ spc' = "check"
  /\ UNCHANGED <<bits, syncComplete, cleanup, op, callback, stopRequested, config, armed, rpc, cpc,
                 deliveries>>

\* The first look at sync_complete.
CheckFlag ==
  /\ spc = "check"
  /\ spc' = IF syncComplete THEN "returned" ELSE "mark"
  /\ UNCHANGED <<bits, syncComplete, cleanup, op, callback, stopRequested, config, armed, rpc, cpc,
                 deliveries>>

\* Mutation of MarkStarted: a stop request that came before is not forwarded.
MarkStarted_NoForward ==
  /\ spc = "mark"
  /\ bits' = bits \union {"started"}
  /\ spc' = IF "completed" \in bits THEN "spin" ELSE "returned"
  /\ UNCHANGED <<syncComplete, cleanup, op, callback, stopRequested, config, armed, rpc, cpc,
                 deliveries>>

\* The fetch_or(started).
MarkStarted ==
  /\ spc = "mark"
  /\ bits' = bits \union {"started"}
  /\ spc' = IF bits = {"stopped"} THEN "stop"
            ELSE IF "completed" \in bits THEN "spin" ELSE "returned"
  /\ UNCHANGED <<syncComplete, cleanup, op, callback, stopRequested, config, armed, rpc, cpc,
                 deliveries>>

\* Waits for sync_complete.
SpinOnFlag ==
  /\ spc = "spin" /\ syncComplete
  /\ spc' = "returned"
  /\ UNCHANGED <<bits, syncComplete, cleanup, op, callback, stopRequested, config, armed, rpc, cpc,
                 deliveries>>

\* stop() of the wrapped operation, called by a: it goes on to try_complete()
\* unless the operation was claimed.
NestedStop(a) ==
  IF claims => armed
  THEN cpc' = [cpc EXCEPT ![a] = "try"] /\ armed' = (armed /\ ~claims)
  ELSE cpc' = [cpc EXCEPT ![a] = "lost"] /\ UNCHANGED armed

\* start() forwards the stop request that came before started was set.
ForwardStop ==
  /\ spc = "stop" /\ cpc["start"] = "none"
  /\ NestedStop("start")
  /\ UNCHANGED <<bits, syncComplete, cleanup, op, callback, stopRequested, config, spc, rpc,
                 deliveries>>

\* start() returns from the nested stop().
StopReturns ==
  /\ spc \in {"stop", "early"} /\ cpc["start"] \in {"done", "lost"}
  /\ spc' = "returned"
  /\ UNCHANGED <<bits, syncComplete, cleanup, op, callback, stopRequested, config, armed, rpc, cpc,
                 deliveries>>

StartStep ==
  \/ StartNonStop \/ Register \/ AssignCleanup \/ StopEarly \/ StartNested \/ NestedReturns
  \/ CheckFlag \/ MarkStarted \/ SpinOnFlag \/ ForwardStop \/ StopReturns

-----------------------------------------------------------------------------
(* The other threads. *)

\* The source of the wrapped operation goes to complete it.
SourceCompletes ==
  /\ cpc["source"] = "none"
  /\ armed
  /\ armed' = ~claims
  /\ cpc' = [cpc EXCEPT !["source"] = "try"]
  /\ UNCHANGED <<bits, syncComplete, cleanup, op, callback, stopRequested, config, spc, rpc,
                 deliveries>>

\* Stop is requested; a registered callback is run.
RequestStop ==
  /\ rpc = "idle" /\ ~stopRequested
  /\ stopRequested' = TRUE
  /\ rpc' = IF callback = "registered" THEN "callback" ELSE "returned"
  /\ callback' = IF callback = "registered" THEN "running" ELSE callback
  /\ UNCHANGED <<bits, syncComplete, cleanup, op, config, armed, spc, cpc, deliveries>>

\* Mutation of StopCallback: stops an operation that has not been started.
StopCallback_AnyState ==
  /\ rpc = "callback"
  /\ bits' = bits \union {"stopped"}
  /\ rpc' = IF "completed" \notin bits THEN "stop" ELSE "return"
  /\ UNCHANGED <<syncComplete, cleanup, op, callback, stopRequested, config, armed, spc, cpc,
                 deliveries>>

\* stop_callback: the fetch_or(stopped).
StopCallback ==
  /\ rpc = "callback"
  /\ bits' = bits \union {"stopped"}
  /\ rpc' = IF bits = {"started"} THEN "stop" ELSE "return"
  /\ UNCHANGED <<syncComplete, cleanup, op, callback, stopRequested, config, armed, spc, cpc,
                 deliveries>>

\* stop_callback: the nested stop().
CallbackStops ==
  /\ rpc = "stop" /\ cpc["stop"] = "none"
  /\ NestedStop("stop")
  /\ UNCHANGED <<bits, syncComplete, cleanup, op, callback, stopRequested, config, spc, rpc,
                 deliveries>>

\* The callback returns, unless its operation destroyed it in the call.
CallbackReturns ==
  /\ rpc = "return" \/ (rpc = "stop" /\ cpc["stop"] \in {"done", "lost"})
  /\ callback' = IF callback = "running" THEN "ran" ELSE callback
  /\ rpc' = "returned"
  /\ UNCHANGED <<bits, syncComplete, cleanup, op, stopRequested, config, armed, spc, cpc,
                 deliveries>>

StopStep == StopCallback \/ CallbackStops \/ CallbackReturns

\* Nobody is in a call that uses the operation.
AllReturned ==
  /\ spc = "returned" /\ rpc \in {"idle", "returned"}
  /\ \A a \in Actors : cpc[a] \in {"none", "lost", "done"}
  /\ ~claims => cpc["source"] # "none"

\* The receiver destroys a completed operation, at once if it is eager and the
\* wrapped operation arbitrates.
Destroy ==
  /\ op = "completed"
  /\ (Eager /\ claims) \/ AllReturned
  /\ op' = "destroyed"
  /\ UNCHANGED <<bits, syncComplete, cleanup, callback, stopRequested, config, armed, spc, rpc,
                 cpc, deliveries>>

Next ==
  \/ \E a \in Actors : Complete(a)
  \/ StartStep \/ StopStep \/ SourceCompletes \/ RequestStop \/ Destroy

Spec == Init /\ [][Next]_vars

\* Whatever is running goes on; nothing makes the source complete or a stop
\* request come.
Fairness ==
  /\ \A a \in Actors : WF_vars(Complete(a))
  /\ WF_vars(StartStep) /\ WF_vars(StopStep)

FairSpec == Spec /\ Fairness

-----------------------------------------------------------------------------
\* The type of every variable; an operation that cannot be stopped never sets
\* the stopped and started bits of state_.
TypeOK ==
  /\ bits \in (SUBSET {"stopped", "started", "completed"})
             \union {{"non_stop"}, {"non_stop", "completed"}}
  /\ {syncComplete, cleanup, stopRequested, early, claims, armed} \subseteq BOOLEAN
  /\ op \in {"alive", "completed", "destroyed"}
  /\ callback \in {"none", "registered", "running", "ran", "destroyed"}
  /\ spc \in {"idle", "assign", "early", "nested", "check", "mark", "spin", "stop", "returned"}
  /\ rpc \in {"idle", "callback", "stop", "return", "returned"}
  /\ cpc \in [Actors -> {"none", "try", "flag", "cleanup", "deliver", "done", "lost"}]
  /\ deliveries \in Nat

\* However the source, a stop request and start() race, the receiver is completed
\* at most once, and by then the stop callback is gone from the token and no call
\* of it is left in another thread.
CompletesOnce ==
  /\ deliveries <= 1
  /\ op # "alive" =>
       /\ callback # "registered"
       /\ rpc \in {"callback", "stop", "return"} => cpc["stop"] = "done"

\* stop() reaches the wrapped operation only after its start() has returned, and
\* the flag that try_complete() stores to is a local of a start() that has not.
StopsOnlyStarted ==
  /\ cpc["stop"] # "none" => spc \notin {"idle", "assign", "early", "nested"}
  /\ \A a \in Actors : cpc[a] = "flag" => spc \in {"nested", "check", "mark", "spin"}

\* Whenever start() uses the operation after the nested start(), to set the
\* started bit or to forward an earlier stop request, it has not been destroyed.
StartFindsOperation ==
  spc = "mark" \/ (spc = "stop" /\ cpc["start"] = "none") => op # "destroyed"

\* start() returns, its wait for sync_complete included, and a stop request
\* completes an operation that has been started, even if its source never does.
StopCompletesOperation ==
  /\ (spc # "idle") ~> (spc = "returned")
  /\ (stopRequested /\ spc # "idle" /\ "non_stop" \notin bits) ~> (op # "alive")
=============================================================================
