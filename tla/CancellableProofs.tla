-------------------------- MODULE CancellableProofs --------------------------
(***************************************************************************)
(* Proofs about Cancellable, for eager and for patient receivers and for   *)
(* wrapped operations that arbitrate between source and stop() or do not.  *)
(*                                                                         *)
(* The receiver is completed by whoever won the fetch_or(completed).  That *)
(* the winner is alone is not enough: it may complete the receiver only    *)
(* after its cleanup has waited for the stop callback, it finds a callback *)
(* to destroy only because start() assigned cleanup_ before anything could *)
(* complete, and it may store to start()'s local flag only because start() *)
(* does not return between the winner's fetch_or and its store.            *)
(***************************************************************************)
EXTENDS Cancellable, TLAPS

\* The actor that won the fetch_or(completed).
Winner(a) == cpc[a] \in {"flag", "cleanup", "deliver", "done"}

\* Exactly the winner sets the completed bit, and it delivers once.
WinnerInv ==
  /\ \A a \in Actors : Winner(a) => "completed" \in bits
  /\ \A a, b \in Actors : Winner(a) /\ Winner(b) => a = b
  /\ deliveries = 0 \/ (deliveries = 1 /\ \E a \in Actors : cpc[a] = "done")
  /\ op # "alive" => \E a \in Actors : cpc[a] = "done"
  /\ \A a \in Actors : cpc[a] = "done" => deliveries = 1

\* How far start() has come before anything else can happen: what is armed, who
\* can call try_complete(), and whether cleanup_ is assigned.
StartInv ==
  /\ "non_stop" \in bits => /\ spc \in {"idle", "returned"} /\ callback = "none"
                            /\ rpc \in {"idle", "returned"} /\ ~cleanup
  /\ spc = "idle" => callback = "none"
  /\ "non_stop" \notin bits => (cleanup <=> spc \notin {"idle", "assign"})
  /\ armed \/ cpc["source"] # "none" => spc \notin {"idle", "assign", "early"}
  /\ rpc = "stop" \/ cpc["stop"] # "none" => "started" \in bits
  /\ cpc["start"] # "none" => spc \in {"early", "stop", "returned"}
  /\ "started" \in bits => spc \in {"spin", "stop", "returned"}
  /\ spc \in {"spin", "stop"} => "started" \in bits

\* Which call of the stop callback is running, and who destroyed it: if that call
\* is still in progress, the call itself.
CallbackInv ==
  /\ callback = "running" => rpc \in {"callback", "stop", "return"}
  /\ rpc \in {"callback", "stop", "return"} =>
       callback = "running" \/ (callback = "destroyed" /\ cpc["stop"] \in {"deliver", "done"})
  /\ callback = "destroyed" => \E a \in Actors : cpc[a] \in {"deliver", "done"}
  /\ \A a \in Actors : cpc[a] \in {"deliver", "done"} /\ "non_stop" \notin bits
       => callback = "destroyed"

\* start() returns without the started bit only if somebody else completed, and
\* not before the flag that it shares with the winner has been stored to.
FlagInv ==
  /\ \A a \in Actors : cpc[a] = "flag" => /\ spc \in {"nested", "check", "mark", "spin"}
                                          /\ ~syncComplete /\ "non_stop" \notin bits
  /\ syncComplete => "completed" \in bits
  /\ spc = "spin" => "completed" \in bits
  /\ spc = "early" /\ cpc["start"] \notin {"none", "try"} => "completed" \in bits
  /\ spc = "returned" /\ bits \intersect {"non_stop", "started"} = {} => "completed" \in bits

CancelInv == TypeOK /\ WinnerInv /\ StartInv /\ CallbackInv /\ FlagInv

-----------------------------------------------------------------------------

\* The fetch_or(completed): whoever finds the bit clear is the winner.
LEMMA TryCompleteStep ==
  ASSUME CancelInv, NEW a \in Actors, TryComplete(a)
  PROVE  CancelInv'
<1> USE DEF CancelInv, TypeOK, Actors, Winner, config, TryComplete
<1>1. TypeOK'
  OBVIOUS
<1>2. WinnerInv'
  BY DEF WinnerInv
<1>3. StartInv'
  BY DEF StartInv
<1>4. CallbackInv'
  BY DEF CallbackInv, WinnerInv, StartInv
<1>5. FlagInv'
  BY DEF FlagInv, WinnerInv, StartInv
<1> QED BY <1>1, <1>2, <1>3, <1>4, <1>5

\* The winner tells start(), which is still there to be told.
LEMMA StoreFlagStep ==
  ASSUME CancelInv, NEW a \in Actors, StoreFlag(a)
  PROVE  CancelInv'
<1> USE DEF CancelInv, TypeOK, Actors, Winner, config, StoreFlag
<1>1. TypeOK'
  OBVIOUS
<1>2. WinnerInv'
  BY DEF WinnerInv
<1>3. StartInv'
  BY DEF StartInv
<1>4. CallbackInv'
  BY DEF CallbackInv, WinnerInv, StartInv
<1>5. FlagInv'
  BY DEF FlagInv, WinnerInv, StartInv
<1> QED BY <1>1, <1>2, <1>3, <1>4, <1>5

\* The winner's cleanup destroys the callback, after any call in another thread.
LEMMA CleanupStep ==
  ASSUME CancelInv, NEW a \in Actors, Cleanup(a)
  PROVE  CancelInv'
<1> USE DEF CancelInv, TypeOK, Actors, Winner, config, Cleanup
<1>1. TypeOK'
  OBVIOUS
<1>2. WinnerInv'
  BY DEF WinnerInv
<1>3. StartInv'
  BY DEF StartInv
<1>4. CallbackInv'
  BY DEF CallbackInv, WinnerInv, StartInv
<1>5. FlagInv'
  BY DEF FlagInv, WinnerInv, StartInv
<1> QED BY <1>1, <1>2, <1>3, <1>4, <1>5

\* The winner completes the receiver.
LEMMA DeliverStep ==
  ASSUME CancelInv, NEW a \in Actors, Deliver(a)
  PROVE  CancelInv'
<1> USE DEF CancelInv, TypeOK, Actors, Winner, config, Deliver
<1>1. TypeOK'
  OBVIOUS
<1>2. WinnerInv'
  BY DEF WinnerInv
<1>3. StartInv'
  BY DEF StartInv
<1>4. CallbackInv'
  BY DEF CallbackInv, WinnerInv, StartInv
<1>5. FlagInv'
  BY DEF FlagInv, WinnerInv, StartInv
<1> QED BY <1>1, <1>2, <1>3, <1>4, <1>5

\* start() of an operation that cannot be stopped.
LEMMA StartNonStopStep ==
  ASSUME CancelInv, StartNonStop
  PROVE  CancelInv'
<1> USE DEF CancelInv, TypeOK, Actors, Winner, config, StartNonStop
<1>1. TypeOK'
  OBVIOUS
<1>2. WinnerInv'
  BY DEF WinnerInv
<1>3. StartInv'
  BY DEF StartInv
<1>4. CallbackInv'
  BY DEF CallbackInv, WinnerInv, StartInv
<1>5. FlagInv'
  BY DEF FlagInv, WinnerInv, StartInv
<1> QED BY <1>1, <1>2, <1>3, <1>4, <1>5

\* start() constructs the stop callback.
LEMMA RegisterStep ==
  ASSUME CancelInv, Register
  PROVE  CancelInv'
<1> USE DEF CancelInv, TypeOK, Actors, Winner, config, Register
<1>1. TypeOK'
  OBVIOUS
<1>2. WinnerInv'
  BY DEF WinnerInv
<1>3. StartInv'
  BY DEF StartInv
<1>4. CallbackInv'
  BY DEF CallbackInv, WinnerInv, StartInv
<1>5. FlagInv'
  BY DEF FlagInv, WinnerInv, StartInv
<1> QED BY <1>1, <1>2, <1>3, <1>4, <1>5

\* start() assigns cleanup_ before anything can complete.
LEMMA AssignCleanupStep ==
  ASSUME CancelInv, AssignCleanup
  PROVE  CancelInv'
<1> USE DEF CancelInv, TypeOK, Actors, Winner, config, AssignCleanup
<1>1. TypeOK'
  OBVIOUS
<1>2. WinnerInv'
  BY DEF WinnerInv
<1>3. StartInv'
  BY DEF StartInv
<1>4. CallbackInv'
  BY DEF CallbackInv, WinnerInv, StartInv
<1>5. FlagInv'
  BY DEF FlagInv, WinnerInv, StartInv
<1> QED BY <1>1, <1>2, <1>3, <1>4, <1>5

\* start() stops the nested operation instead of starting it.
LEMMA StopEarlyStep ==
  ASSUME CancelInv, StopEarly
  PROVE  CancelInv'
<1> USE DEF CancelInv, TypeOK, Actors, Winner, config, StopEarly
<1>1. TypeOK'
  OBVIOUS
<1>2. WinnerInv'
  BY DEF WinnerInv
<1>3. StartInv'
  BY DEF StartInv
<1>4. CallbackInv'
  BY DEF CallbackInv, WinnerInv, StartInv
<1>5. FlagInv'
  BY DEF FlagInv, WinnerInv, StartInv
<1> QED BY <1>1, <1>2, <1>3, <1>4, <1>5

\* start() starts the nested operation.
LEMMA StartNestedStep ==
  ASSUME CancelInv, StartNested
  PROVE  CancelInv'
<1> USE DEF CancelInv, TypeOK, Actors, Winner, config, StartNested
<1>1. TypeOK'
  OBVIOUS
<1>2. WinnerInv'
  BY DEF WinnerInv
<1>3. StartInv'
  BY DEF StartInv
<1>4. CallbackInv'
  BY DEF CallbackInv, WinnerInv, StartInv
<1>5. FlagInv'
  BY DEF FlagInv, WinnerInv, StartInv
<1> QED BY <1>1, <1>2, <1>3, <1>4, <1>5

\* start() looks at the flag: if it is set, the winner has stored to it.
LEMMA CheckFlagStep ==
  ASSUME CancelInv, NestedReturns \/ CheckFlag
  PROVE  CancelInv'
<1> USE DEF CancelInv, TypeOK, Actors, Winner, config, NestedReturns, CheckFlag
<1>1. TypeOK'
  OBVIOUS
<1>2. WinnerInv'
  BY DEF WinnerInv
<1>3. StartInv'
  BY DEF StartInv
<1>4. CallbackInv'
  BY DEF CallbackInv, WinnerInv, StartInv
<1>5. FlagInv'
  BY DEF FlagInv, WinnerInv, StartInv
<1> QED BY <1>1, <1>2, <1>3, <1>4, <1>5

\* The fetch_or(started): only a winner makes start() wait.
LEMMA MarkStartedStep ==
  ASSUME CancelInv, MarkStarted
  PROVE  CancelInv'
<1> USE DEF CancelInv, TypeOK, Actors, Winner, config, MarkStarted
<1>1. TypeOK'
  BY DEF StartInv
<1>2. WinnerInv'
  BY DEF WinnerInv
<1>3. StartInv'
  BY DEF StartInv
<1>4. CallbackInv'
  BY DEF CallbackInv, WinnerInv, StartInv
<1>5. FlagInv'
  BY DEF FlagInv, WinnerInv, StartInv
<1> QED BY <1>1, <1>2, <1>3, <1>4, <1>5

\* The wait of start() ends when the winner has stored to the flag.
LEMMA SpinOnFlagStep ==
  ASSUME CancelInv, SpinOnFlag
  PROVE  CancelInv'
<1> USE DEF CancelInv, TypeOK, Actors, Winner, config, SpinOnFlag
<1>1. TypeOK'
  OBVIOUS
<1>2. WinnerInv'
  BY DEF WinnerInv
<1>3. StartInv'
  BY DEF StartInv
<1>4. CallbackInv'
  BY DEF CallbackInv, WinnerInv, StartInv
<1>5. FlagInv'
  BY DEF FlagInv, WinnerInv, StartInv
<1> QED BY <1>1, <1>2, <1>3, <1>4, <1>5

\* start() forwards a stop request.
LEMMA ForwardStopStep ==
  ASSUME CancelInv, ForwardStop
  PROVE  CancelInv'
<1> USE DEF CancelInv, TypeOK, Actors, Winner, config, ForwardStop, NestedStop
<1>1. TypeOK'
  <2>1. {claims, armed, armed'} \subseteq BOOLEAN
    <3>1. claims \in BOOLEAN /\ armed \in BOOLEAN
      OBVIOUS
    <3>2. armed' = armed \/ armed' = (armed /\ ~claims)
      BY Zenon
    <3> QED BY <3>1, <3>2
  <2>2. cpc' \in [Actors -> {"none", "try", "flag", "cleanup", "deliver", "done", "lost"}]
    OBVIOUS
  <2> QED BY <2>1, <2>2
<1>2. WinnerInv'
  BY DEF WinnerInv
<1>3. StartInv'
  BY DEF StartInv
<1>4. CallbackInv'
  BY DEF CallbackInv, WinnerInv, StartInv
<1>5. FlagInv'
  BY DEF FlagInv, WinnerInv, StartInv
<1> QED BY <1>1, <1>2, <1>3, <1>4, <1>5

\* start() returns from the nested stop().
LEMMA StopReturnsStep ==
  ASSUME CancelInv, StopReturns
  PROVE  CancelInv'
<1> USE DEF CancelInv, TypeOK, Actors, Winner, config, StopReturns
<1>1. TypeOK'
  OBVIOUS
<1>2. WinnerInv'
  BY DEF WinnerInv
<1>3. StartInv'
  BY DEF StartInv
<1>4. CallbackInv'
  BY DEF CallbackInv, WinnerInv, StartInv
<1>5. FlagInv'
  BY DEF FlagInv, WinnerInv, StartInv
<1> QED BY <1>1, <1>2, <1>3, <1>4, <1>5

\* The source goes to complete.
LEMMA SourceCompletesStep ==
  ASSUME CancelInv, SourceCompletes
  PROVE  CancelInv'
<1> USE DEF CancelInv, TypeOK, Actors, Winner, config, SourceCompletes
<1>1. TypeOK'
  OBVIOUS
<1>2. WinnerInv'
  BY DEF WinnerInv
<1>3. StartInv'
  BY DEF StartInv
<1>4. CallbackInv'
  BY DEF CallbackInv, WinnerInv, StartInv
<1>5. FlagInv'
  BY DEF FlagInv, WinnerInv, StartInv
<1> QED BY <1>1, <1>2, <1>3, <1>4, <1>5

\* Stop is requested.
LEMMA RequestStopStep ==
  ASSUME CancelInv, RequestStop
  PROVE  CancelInv'
<1> USE DEF CancelInv, TypeOK, Actors, Winner, config, RequestStop
<1>1. TypeOK'
  OBVIOUS
<1>2. WinnerInv'
  BY DEF WinnerInv
<1>3. StartInv'
  BY DEF StartInv
<1>4. CallbackInv'
  BY DEF CallbackInv, WinnerInv, StartInv
<1>5. FlagInv'
  BY DEF FlagInv, WinnerInv, StartInv
<1> QED BY <1>1, <1>2, <1>3, <1>4, <1>5

\* The fetch_or(stopped): stop() goes on only when start() has returned.
LEMMA StopCallbackStep ==
  ASSUME CancelInv, StopCallback
  PROVE  CancelInv'
<1> USE DEF CancelInv, TypeOK, Actors, Winner, config, StopCallback
<1>1. TypeOK'
  BY DEF StartInv
<1>2. WinnerInv'
  BY DEF WinnerInv
<1>3. StartInv'
  BY DEF StartInv
<1>4. CallbackInv'
  BY DEF CallbackInv, WinnerInv, StartInv
<1>5. FlagInv'
  BY DEF FlagInv, WinnerInv, StartInv
<1> QED BY <1>1, <1>2, <1>3, <1>4, <1>5

\* The callback calls the nested stop().
LEMMA CallbackStopsStep ==
  ASSUME CancelInv, CallbackStops
  PROVE  CancelInv'
<1> USE DEF CancelInv, TypeOK, Actors, Winner, config, CallbackStops, NestedStop
<1>1. TypeOK'
  <2>1. {claims, armed, armed'} \subseteq BOOLEAN
    <3>1. claims \in BOOLEAN /\ armed \in BOOLEAN
      OBVIOUS
    <3>2. armed' = armed \/ armed' = (armed /\ ~claims)
      BY Zenon
    <3> QED BY <3>1, <3>2
  <2>2. cpc' \in [Actors -> {"none", "try", "flag", "cleanup", "deliver", "done", "lost"}]
    OBVIOUS
  <2> QED BY <2>1, <2>2
<1>2. WinnerInv'
  BY DEF WinnerInv
<1>3. StartInv'
  BY DEF StartInv
<1>4. CallbackInv'
  BY DEF CallbackInv, WinnerInv, StartInv
<1>5. FlagInv'
  BY DEF FlagInv, WinnerInv, StartInv
<1> QED BY <1>1, <1>2, <1>3, <1>4, <1>5

\* The callback returns.
LEMMA CallbackReturnsStep ==
  ASSUME CancelInv, CallbackReturns
  PROVE  CancelInv'
<1> USE DEF CancelInv, TypeOK, Actors, Winner, config, CallbackReturns
<1>1. TypeOK'
  OBVIOUS
<1>2. WinnerInv'
  BY DEF WinnerInv
<1>3. StartInv'
  BY DEF StartInv
<1>4. CallbackInv'
  BY DEF CallbackInv, WinnerInv, StartInv
<1>5. FlagInv'
  BY DEF FlagInv, WinnerInv, StartInv
<1> QED BY <1>1, <1>2, <1>3, <1>4, <1>5

\* The receiver destroys the operation.
LEMMA DestroyStep ==
  ASSUME CancelInv, Destroy
  PROVE  CancelInv'
<1> USE DEF CancelInv, TypeOK, Actors, Winner, config, Destroy, AllReturned
<1>1. TypeOK'
  OBVIOUS
<1>2. WinnerInv'
  BY DEF WinnerInv
<1>3. StartInv'
  BY DEF StartInv
<1>4. CallbackInv'
  BY DEF CallbackInv, WinnerInv, StartInv
<1>5. FlagInv'
  BY DEF FlagInv, WinnerInv, StartInv
<1> QED BY <1>1, <1>2, <1>3, <1>4, <1>5

-----------------------------------------------------------------------------
\* Every step keeps the invariant.
LEMMA NextCancelInv == CancelInv /\ [Next]_vars => CancelInv'
<1> SUFFICES ASSUME CancelInv, [Next]_vars PROVE CancelInv'
  OBVIOUS
<1>1. ASSUME NEW a \in Actors, Complete(a) PROVE CancelInv'
  BY <1>1, TryCompleteStep, StoreFlagStep, CleanupStep, DeliverStep DEF Complete
<1>2. CASE StartStep
  BY <1>2, StartNonStopStep, RegisterStep, AssignCleanupStep, StopEarlyStep, StartNestedStep,
     CheckFlagStep, MarkStartedStep, SpinOnFlagStep, ForwardStopStep, StopReturnsStep DEF StartStep
<1>3. CASE StopStep
  BY <1>3, StopCallbackStep, CallbackStopsStep, CallbackReturnsStep DEF StopStep
<1>4. CASE SourceCompletes \/ RequestStop \/ Destroy
  BY <1>4, SourceCompletesStep, RequestStopStep, DestroyStep
<1>5. CASE UNCHANGED vars
  BY <1>5 DEF vars, config, CancelInv, TypeOK, WinnerInv, Winner, StartInv, CallbackInv, FlagInv
<1> QED BY <1>1, <1>2, <1>3, <1>4, <1>5 DEF Next

\* The inductive invariant holds in every state the operation can reach.
THEOREM CancelInvariance == Spec => []CancelInv
<1>1. Init => CancelInv
  <2> USE DEF Init
  <2>1. Init => TypeOK
    <3>1. cpc = [a \in Actors |-> "none"] =>
            cpc \in [Actors -> {"none", "try", "flag", "cleanup", "deliver", "done", "lost"}]
      OBVIOUS
    <3>2. Init => bits \in (SUBSET {"stopped", "started", "completed"})
                          \union {{"non_stop"}, {"non_stop", "completed"}}
      OBVIOUS
    <3>3. Init => {syncComplete, cleanup, stopRequested, early, claims, armed} \subseteq BOOLEAN
      OBVIOUS
    <3> QED BY <3>1, <3>2, <3>3 DEF TypeOK
  <2>2. Init => WinnerInv /\ StartInv /\ CallbackInv /\ FlagInv
    BY DEF WinnerInv, Winner, StartInv, CallbackInv, FlagInv, Actors
  <2> QED BY <2>1, <2>2 DEF CancelInv
<1> QED BY <1>1, NextCancelInv, PTL DEF Spec

\* However the source, a stop request and start() race, the receiver is completed
\* once at most, and never under a stop callback that can still run.
THEOREM ReceiverCompletedOnce == Spec => []CompletesOnce
<1>1. CancelInv => CompletesOnce
  BY DEF CancelInv, TypeOK, WinnerInv, Winner, StartInv, CallbackInv, CompletesOnce, Actors
<1> QED BY <1>1, CancelInvariance, PTL

\* stop() is called only on a started operation, and the local flag of start() is
\* stored to only while start() is there.
THEOREM StopFindsStarted == Spec => []StopsOnlyStarted
<1>1. CancelInv => StopsOnlyStarted
  BY DEF CancelInv, TypeOK, StartInv, FlagInv, StopsOnlyStarted, Actors
<1> QED BY <1>1, CancelInvariance, PTL
=============================================================================
