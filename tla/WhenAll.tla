------------------------------ MODULE WhenAll ------------------------------
(***************************************************************************)
(* The operations that start several children and complete when a count of *)
(* them reaches zero: when_all (when_all.hpp), when_all_range              *)
(* (when_all_range.hpp) and stop_when (stop_when.hpp), whose children are   *)
(* the source, 1, and the trigger, 2.                                      *)
(*                                                                         *)
(* Four kinds of code race: start(), the completion of each child, the     *)
(* stop callback of the receiver's token, and whoever drops the count to   *)
(* zero, which deregisters the callback and completes the receiver.  The   *)
(* receiver destroys the operation as soon as it is completed.  A stop     *)
(* token is used by the promises of InplaceStopToken: a registration after *)
(* the request runs the callback inline, and a deregistration waits for a   *)
(* callback that is running.                                               *)
(***************************************************************************)
EXTENDS Integers, FiniteSets

CONSTANTS
  MaxChildren,   \* bound on the number of children
  Kinds          \* the algorithms: a subset of AllKinds

AllKinds == {"when_all", "when_all_range", "stop_when"}

ASSUME WhenAllAssumption == MaxChildren \in Nat /\ Kinds \subseteq AllKinds

VARIABLES
  kind,        \* the algorithm
  refCount,    \* refCount_, activeOpCount_
  doneOrError, \* doneOrError_
  error,       \* the child whose error error_ holds, 0 when it is empty
  innerStop,   \* stopSource_ has been asked to stop
  outerStop,   \* the receiver's stop token has been asked to stop
  callback,    \* stopCallback_: "none", "registered", "running", "ran", "gone"
  bpc,         \* the body of the stop callback
  spc, next,   \* start(): program counter, the child it starts next
  cpc,         \* the children
  signal,      \* what each child completed with
  completions, \* calls of the receiver
  outcome,     \* what it was completed with
  op           \* the operation state: "alive" or "destroyed"

dataVars == <<doneOrError, error, innerStop>>
cbVars   == <<callback, bpc>>
sVars    == <<spc, next>>
cVars    == <<cpc, signal>>
outVars  == <<completions, outcome, op>>
vars     == <<kind, refCount, dataVars, outerStop, cbVars, sVars, cVars, outVars>>

Children == 1..MaxChildren
Signals  == {"value", "error", "done"}
None     == "none"

\* A connected operation with n children; when_all and stop_when have some.
Init ==
  /\ kind \in Kinds
  /\ \E n \in 0..MaxChildren :
       /\ kind = "when_all" => n > 0
       /\ kind = "stop_when" => n = 2
       /\ refCount = n
       /\ cpc = [c \in Children |-> IF c <= n THEN "unstarted" ELSE "absent"]
  /\ doneOrError = FALSE /\ error = 0 /\ innerStop = FALSE /\ outerStop \in BOOLEAN
  /\ callback = "none" /\ bpc = "idle"
  /\ spc = "idle" /\ next = 1
  /\ signal = [c \in Children |-> None]
  /\ completions = 0 /\ outcome = None /\ op = "alive"

-----------------------------------------------------------------------------
(* Completing the receiver. *)

\* The signal that deliver_result() picks.
Result ==
  CASE kind = "stop_when" -> signal[1]
    [] kind = "when_all" /\ outerStop -> "done"
    [] kind # "stop_when" /\ ~(kind = "when_all" /\ outerStop) ->
         IF ~doneOrError THEN "value" ELSE IF error # 0 THEN "error" ELSE "done"

\* The receiver may throw when it is given the values: then it gets an error.
Results == IF Result = "value" THEN {"value", "error"} ELSE {Result}

\* The receiver is completed, and destroys the operation.
Deliver(s) ==
  /\ completions' = completions + 1
  /\ outcome' = s
  /\ op' = "destroyed"

-----------------------------------------------------------------------------
(* start() *)

\* when_all_range() of no senders completes at once; otherwise stopCallback_ is
\* constructed, which runs the callback when stop has been requested.
Start ==
  /\ spc = "idle"
  /\ \/ /\ kind = "when_all_range" /\ (\A c \in Children : cpc[c] = "absent")
        /\ Deliver("value")
        /\ spc' = "returned"
        /\ UNCHANGED cbVars
     \/ /\ \E c \in Children : cpc[c] # "absent"
        /\ \/ /\ outerStop
              /\ callback' = "running" /\ bpc' = "add" /\ spc' = "callback"
           \/ /\ ~outerStop
              /\ callback' = "registered" /\ spc' = "children"
              /\ UNCHANGED bpc
        /\ UNCHANGED outVars
  /\ UNCHANGED <<kind, refCount, dataVars, outerStop, next, cVars>>

\* The callback that the constructor runs returns.
InlineReturns ==
  /\ spc = "callback" /\ bpc = "done"
  /\ spc' = "children"
  /\ UNCHANGED <<kind, refCount, dataVars, outerStop, cbVars, next, cVars, outVars>>

\* The children are started one after the other.
StartChild ==
  /\ spc = "children"
  /\ cpc' = [cpc EXCEPT ![next] = "running"]
  /\ next' = next + 1
  /\ spc' = IF next + 1 \in Children /\ cpc[next + 1] # "absent" THEN "children" ELSE "returned"
  /\ UNCHANGED <<kind, refCount, dataVars, outerStop, cbVars, signal, outVars>>

-----------------------------------------------------------------------------
(* The completion of a child. *)

\* What the receiver of a child goes on to: those of stop_when take any signal
\* for a completion, the others look for a failure.
AfterSignal(s) ==
  IF kind = "stop_when" THEN "inner" ELSE IF s = "value" THEN "sub" ELSE "exchange"

\* set_value(), set_error() or set_done() of the element's receiver stores the
\* result in the child's own slot.  A value that cannot be stored goes on as an
\* error.
ChildCompletes(c, s) ==
  /\ cpc[c] = "running"
  /\ signal' = [signal EXCEPT ![c] = s]
  /\ cpc' = [cpc EXCEPT ![c] = AfterSignal(s)]
  /\ UNCHANGED <<kind, refCount, dataVars, outerStop, cbVars, sVars, outVars>>

\* Mutation of Exchange: the winner forgets to stop the others.
Exchange_NoStop(c) ==
  /\ cpc[c] = "exchange"
  /\ doneOrError' = TRUE
  /\ error' = IF ~doneOrError /\ signal[c] = "error" THEN c ELSE error
  /\ cpc' = [cpc EXCEPT ![c] = "sub"]
  /\ UNCHANGED <<kind, refCount, innerStop, outerStop, cbVars, sVars, signal, outVars>>

\* Mutation of Exchange: only an error is recorded.
Exchange_ErrorOnly(c) ==
  /\ cpc[c] = "exchange"
  /\ doneOrError' = (doneOrError \/ signal[c] = "error")
  /\ error' = IF ~doneOrError /\ signal[c] = "error" THEN c ELSE error
  /\ cpc' = [cpc EXCEPT ![c] = "inner"]
  /\ UNCHANGED <<kind, refCount, innerStop, outerStop, cbVars, sVars, signal, outVars>>

\* doneOrError_.exchange(true): the first child to fail keeps its error.
Exchange(c) ==
  /\ cpc[c] = "exchange"
  /\ doneOrError' = TRUE
  /\ error' = IF ~doneOrError /\ signal[c] = "error" THEN c ELSE error
  /\ cpc' = [cpc EXCEPT ![c] = IF doneOrError THEN "sub" ELSE "inner"]
  /\ UNCHANGED <<kind, refCount, innerStop, outerStop, cbVars, sVars, signal, outVars>>

\* stopSource_.request_stop() by a child.
ChildStopsOthers(c) ==
  /\ cpc[c] = "inner"
  /\ innerStop' = TRUE
  /\ cpc' = [cpc EXCEPT ![c] = "sub"]
  /\ UNCHANGED <<kind, refCount, doneOrError, error, outerStop, cbVars, sVars, signal, outVars>>

\* element_complete(), notify_trigger_complete(): the fetch_sub.
ElementComplete(c) ==
  /\ cpc[c] = "sub"
  /\ refCount' = refCount - 1
  /\ cpc' = [cpc EXCEPT ![c] = IF refCount = 1 THEN "destruct" ELSE "gone"]
  /\ UNCHANGED <<kind, dataVars, outerStop, cbVars, sVars, signal, outVars>>

\* Mutation of Destruct: does not wait for the callback.
Destruct_NoWait(c) ==
  /\ cpc[c] = "destruct"
  /\ callback' = "gone"
  /\ cpc' = [cpc EXCEPT ![c] = "deliver"]
  /\ UNCHANGED <<kind, refCount, dataVars, outerStop, bpc, sVars, signal, outVars>>

\* stopCallback_ is destroyed, which waits for a call of it.
Destruct(c) ==
  /\ cpc[c] = "destruct" /\ callback # "running"
  /\ callback' = "gone"
  /\ cpc' = [cpc EXCEPT ![c] = "deliver"]
  /\ UNCHANGED <<kind, refCount, dataVars, outerStop, bpc, sVars, signal, outVars>>

\* deliver_result() by the last child.
ChildDelivers(c) ==
  /\ cpc[c] = "deliver"
  /\ \E s \in Results : Deliver(s)
  /\ cpc' = [cpc EXCEPT ![c] = "gone"]
  /\ UNCHANGED <<kind, refCount, dataVars, outerStop, cbVars, sVars, signal>>

-----------------------------------------------------------------------------
(* The stop callback. *)

\* Stop is requested of the receiver's stop source.
RequestStop ==
  /\ ~outerStop
  /\ outerStop' = TRUE
  /\ UNCHANGED <<kind, refCount, dataVars, cbVars, sVars, cVars, outVars>>

\* The stop source runs the registered callback.
RunCallback ==
  /\ outerStop /\ callback = "registered"
  /\ callback' = "running" /\ bpc' = "add"
  /\ UNCHANGED <<kind, refCount, dataVars, outerStop, sVars, cVars, outVars>>

\* The callback returns to whoever runs it.
Returned == bpc' = "done" /\ callback' = IF callback = "running" THEN "ran" ELSE callback

\* Mutation of CallbackAdd: does not look for a result that is being delivered.
CallbackAdd_NoTest ==
  /\ bpc = "add"
  /\ refCount' = refCount + 1
  /\ bpc' = "inner"
  /\ UNCHANGED <<kind, dataVars, outerStop, callback, sVars, cVars, outVars>>

\* request_stop(): the fetch_add; nothing to do when the count was zero.
CallbackAdd ==
  /\ bpc = "add"
  /\ refCount' = refCount + 1
  /\ \/ refCount = 0 /\ Returned
     \/ refCount # 0 /\ bpc' = "inner" /\ UNCHANGED callback
  /\ UNCHANGED <<kind, dataVars, outerStop, sVars, cVars, outVars>>

\* stopSource_.request_stop() by the callback.
CallbackStops ==
  /\ bpc = "inner"
  /\ innerStop' = TRUE /\ bpc' = "sub"
  /\ UNCHANGED <<kind, refCount, doneOrError, error, outerStop, callback, sVars, cVars, outVars>>

\* The callback gives its count back.  When it was the last, when_all destroys
\* stopCallback_ from within the callback; stop_when leaves it to its destructor.
CallbackComplete ==
  /\ bpc = "sub"
  /\ refCount' = refCount - 1
  /\ \/ refCount = 1 /\ bpc' = "deliver"
        /\ callback' = IF kind = "stop_when" THEN callback ELSE "gone"
     \/ refCount # 1 /\ Returned
  /\ UNCHANGED <<kind, dataVars, outerStop, sVars, cVars, outVars>>

\* deliver_result() by the callback; the operation takes stopCallback_ with it.
CallbackDelivers ==
  /\ bpc = "deliver"
  /\ \E s \in Results : Deliver(s)
  /\ bpc' = "done" /\ callback' = "gone"
  /\ UNCHANGED <<kind, refCount, dataVars, outerStop, sVars, cVars>>

-----------------------------------------------------------------------------
StartStep == InlineReturns \/ StartChild

ChildStep(c) ==
  \/ Exchange(c) \/ ChildStopsOthers(c) \/ ElementComplete(c)
  \/ Destruct(c) \/ ChildDelivers(c)

CallbackStep ==
  RunCallback \/ CallbackAdd \/ CallbackStops \/ CallbackComplete \/ CallbackDelivers

\* A completion of c by the child itself.
Completes(c) == \E s \in Signals : ChildCompletes(c, s)

Done == op = "destroyed" /\ UNCHANGED vars

Next ==
  \/ Start \/ StartStep \/ CallbackStep \/ RequestStop
  \/ \E c \in Children : Completes(c) \/ ChildStep(c)
  \/ Done

Spec == Init /\ [][Next]_vars

\* Running code is scheduled.  A child may run for ever, but one that has been
\* asked to stop completes.
Fairness ==
  /\ WF_vars(StartStep) /\ WF_vars(CallbackStep)
  /\ \A c \in Children : WF_vars(ChildStep(c)) /\ WF_vars(innerStop /\ Completes(c))

FairSpec == Spec /\ Fairness

-----------------------------------------------------------------------------
\* The children that have not given their count back.
Pending == {c \in Children : cpc[c] \in {"unstarted", "running", "exchange", "inner", "sub"}}

\* The children that have found the count at zero and complete the receiver.
Deliverers == {c \in Children : cpc[c] \in {"destruct", "deliver"}}

\* The type of every variable.
TypeOK ==
  /\ kind \in AllKinds /\ refCount \in Nat
  /\ doneOrError \in BOOLEAN /\ error \in 0..MaxChildren
  /\ innerStop \in BOOLEAN /\ outerStop \in BOOLEAN
  /\ callback \in {"none", "registered", "running", "ran", "gone"}
  /\ bpc \in {"idle", "add", "inner", "sub", "deliver", "done"}
  /\ spc \in {"idle", "callback", "children", "returned"} /\ next \in 1..(MaxChildren + 1)
  /\ cpc \in [Children -> {"absent", "unstarted", "running", "exchange", "inner", "sub",
                           "destruct", "deliver", "gone"}]
  /\ signal \in [Children -> Signals \union {None}]
  /\ completions \in Nat /\ outcome \in Signals \union {None}
  /\ op \in {"alive", "destroyed"}

\* One child, or the callback, delivers the result, and once: also when the
\* callback adds to a count that has reached zero.
DeliversOnce ==
  /\ completions <= 1
  /\ \A c, d \in Deliverers : c = d
  /\ Deliverers # {} => completions = 0 /\ bpc # "deliver"
  /\ bpc = "deliver" => completions = 0

\* Whoever still uses the operation, a child, the callback or start(), finds it:
\* the receiver is completed after all of them, and no callback is left.
CompletesLast ==
  op = "destroyed" =>
    /\ \A c \in Children : cpc[c] \in {"absent", "gone"}
    /\ spc = "returned" /\ bpc \in {"idle", "done"} /\ callback \in {"none", "gone"}

\* Every child has sent a value.
AllValues == \A c \in Children : cpc[c] = "absent" \/ signal[c] = "value"

\* The receiver gets the source's result, or: values only when every child sent
\* one, the error of a child, and done only when a child or the receiver's own
\* token asked for it.  It gets an error of its own only in place of values.
ResultIsRight ==
  completions > 0 =>
    /\ outcome \in Signals
    /\ kind = "stop_when" =>
         outcome = signal[1] \/ (outcome = "error" /\ signal[1] = "value")
    /\ kind # "stop_when" =>
         /\ outcome = "value" => AllValues
         /\ outcome = "error" => AllValues \/ (error # 0 /\ signal[error] = "error")
         /\ outcome = "done"  => outerStop \/ \E c \in Children : signal[c] = "done"

\* An operation that is asked to stop, or one of whose children fails, completes,
\* although its other children would run for ever.
StopCompletes ==
  (spc # "idle" /\ (outerStop \/ \E c \in Children : signal[c] \in {"error", "done"}))
    ~> op = "destroyed"
=============================================================================
