----------------------------- MODULE AsyncScope -----------------------------
(***************************************************************************)
(* v2::async_scope (include/unifex/v2/async_scope.hpp) and the operations  *)
(* that v1::async_scope adds to end it (include/unifex/v1/async_scope.hpp).*)
(*                                                                         *)
(* A handle is a nest_sender or the nest_op made from it: whatever owns    *)
(* the scope_reference of one nest() call.  A closer is a caller of        *)
(* join() / complete(), cleanup() or request_stop().  Every access to      *)
(* opState_ is one step; evt_ is the one-shot part of                      *)
(* async_manual_reset_event that the scope uses: set() and async_wait().   *)
(***************************************************************************)
EXTENDS Integers, FiniteSets

CONSTANTS
  Handles,   \* scope_references that can be made
  Closers,   \* callers that end the scope
  Kinds      \* how they do it: a subset of {"join", "cleanup", "request_stop"}

ASSUME ScopeAssumption ==
  /\ IsFiniteSet(Handles)
  /\ Kinds \subseteq {"join", "cleanup", "request_stop"}

VARIABLES
  opState,   \* opState_
  evt,       \* evt_ is set
  stopSource,\* v1: stop was requested on stopSource_
  scope,     \* "alive" or "destroyed"
  hpc,       \* what each handle is doing
  expected,  \* try_record_start(): the local opState
  target,    \* what the handle becomes when it gets its reference
  jpc, kind  \* the closers

hVars == <<hpc, expected, target>>
jVars == <<jpc, kind>>
vars  == <<opState, evt, stopSource, scope, hVars, jVars>>

scope_ended(s) == s % 2 = 0
use_count(s)   == s \div 2

Init ==
  /\ opState = 1 /\ evt = FALSE /\ stopSource = FALSE /\ scope = "alive"
  /\ hpc = [h \in Handles |-> "none"]
  /\ expected = [h \in Handles |-> 0]
  /\ target = [h \in Handles |-> "sender"]
  /\ jpc = [j \in Closers |-> "none"]
  /\ kind = [j \in Closers |-> "join"]

-----------------------------------------------------------------------------
(* scope_reference: try_record_start() and record_completion(). *)

\* The load that begins try_record_start(), called to make t.
LoadOpState(h, t) ==
  /\ hpc[h] = "none"
  /\ hpc' = [hpc EXCEPT ![h] = "try"]
  /\ expected' = [expected EXCEPT ![h] = opState]
  /\ target' = [target EXCEPT ![h] = t]

\* nest(): a new nest_sender.
Nest(h) ==
  /\ scope = "alive"
  /\ LoadOpState(h, "sender")
  /\ UNCHANGED <<opState, evt, stopSource, scope, jVars>>

\* The copy constructor of a nest_sender that has a scope.
Copy(h, from) ==
  /\ hpc[from] = "sender"
  /\ LoadOpState(h, "sender")
  /\ UNCHANGED <<opState, evt, stopSource, scope, jVars>>

\* connect() of an lvalue makes a nest_op with a copy of the reference.
ConnectCopy(h, from) ==
  /\ hpc[from] = "sender"
  /\ LoadOpState(h, "op")
  /\ UNCHANGED <<opState, evt, stopSource, scope, jVars>>

\* One round of the loop of try_record_start().
TryRecordStart(h) ==
  /\ hpc[h] = "try"
  /\ \/ /\ scope_ended(expected[h])
        /\ hpc' = [hpc EXCEPT ![h] = "empty"]
        /\ UNCHANGED <<opState, expected>>
     \/ /\ ~scope_ended(expected[h])
        /\ expected[h] = opState
        /\ opState' = opState + 2
        /\ hpc' = [hpc EXCEPT ![h] = target[h]]
        /\ UNCHANGED expected
     \/ /\ ~scope_ended(expected[h])
        /\ expected[h] # opState
        /\ expected' = [expected EXCEPT ![h] = opState]
        /\ UNCHANGED <<opState, hpc>>
  /\ UNCHANGED <<evt, stopSource, scope, target, jVars>>

\* connect() of an rvalue: the reference moves into the nest_op.
Connect(h) ==
  /\ hpc[h] = "sender"
  /\ hpc' = [hpc EXCEPT ![h] = "op"]
  /\ UNCHANGED <<opState, evt, stopSource, scope, expected, target, jVars>>

\* start() of a nest_op that has a scope starts the wrapped operation.
Start(h) ==
  /\ hpc[h] = "op"
  /\ hpc' = [hpc EXCEPT ![h] = "started"]
  /\ UNCHANGED <<opState, evt, stopSource, scope, expected, target, jVars>>

\* nest_receiver::complete(): the receiver is completed while the reference
\* is held; the reference is dropped when the function returns.
Complete(h) ==
  /\ hpc[h] = "started"
  /\ hpc' = [hpc EXCEPT ![h] = "drop"]
  /\ UNCHANGED <<opState, evt, stopSource, scope, expected, target, jVars>>

\* Mutation of Discard: the reference is not dropped.
Discard_Leaks(h) ==
  /\ hpc[h] \in {"sender", "op"}
  /\ hpc' = [hpc EXCEPT ![h] = "gone"]
  /\ UNCHANGED <<opState, evt, stopSource, scope, expected, target, jVars>>

\* A sender, or an operation that was never started, is destroyed.
Discard(h) ==
  /\ hpc[h] \in {"sender", "op"}
  /\ hpc' = [hpc EXCEPT ![h] = "drop"]
  /\ UNCHANGED <<opState, evt, stopSource, scope, expected, target, jVars>>

\* Mutation of RecordCompletion: only looks at the count.
RecordCompletion_AnyLast(h) ==
  /\ hpc[h] = "drop"
  /\ opState' = opState - 2
  /\ hpc' = [hpc EXCEPT ![h] = IF use_count(opState) = 1 THEN "set" ELSE "gone"]
  /\ UNCHANGED <<evt, stopSource, scope, expected, target, jVars>>

\* Mutation of RecordCompletion: compares with the new count.
RecordCompletion_OffByOne(h) ==
  /\ hpc[h] = "drop"
  /\ opState' = opState - 2
  /\ hpc' = [hpc EXCEPT ![h] = IF scope_ended(opState) /\ use_count(opState) = 0
                               THEN "set" ELSE "gone"]
  /\ UNCHANGED <<evt, stopSource, scope, expected, target, jVars>>

\* record_completion(): the fetch_sub, and what it says of being the last.
RecordCompletion(h) ==
  /\ hpc[h] = "drop"
  /\ opState' = opState - 2
  /\ hpc' = [hpc EXCEPT ![h] = IF scope_ended(opState) /\ use_count(opState) = 1
                               THEN "set" ELSE "gone"]
  /\ UNCHANGED <<evt, stopSource, scope, expected, target, jVars>>

\* record_completion(): evt_.set().
SetEvent(h) ==
  /\ hpc[h] = "set"
  /\ evt' = TRUE
  /\ hpc' = [hpc EXCEPT ![h] = "gone"]
  /\ UNCHANGED <<opState, stopSource, scope, expected, target, jVars>>

-----------------------------------------------------------------------------
(* Ending the scope. *)

\* v1 cleanup() and request_stop() call request_stop() first; v1 complete()
\* and v2 join() go straight to join().
Close(j) ==
  /\ scope = "alive" /\ jpc[j] = "none"
  /\ \E k \in Kinds :
       /\ kind' = [kind EXCEPT ![j] = k]
       /\ jpc' = [jpc EXCEPT ![j] = IF k = "join" THEN "join_end" ELSE "stop_end"]
  /\ UNCHANGED <<opState, evt, stopSource, scope, hVars>>

\* Mutation of EndScope: sets the event whatever is outstanding.
EndScope_AlwaysSets(j, pc, setting, after) ==
  /\ jpc[j] = pc
  /\ opState' = 2 * use_count(opState)
  /\ jpc' = [jpc EXCEPT ![j] = setting]
  /\ UNCHANGED <<evt, stopSource, scope, hVars, kind>>

\* end_scope(): the fetch_and.
EndScope(j, pc, setting, after) ==
  /\ jpc[j] = pc
  /\ opState' = 2 * use_count(opState)
  /\ jpc' = [jpc EXCEPT ![j] = IF use_count(opState) = 0 THEN setting ELSE after]
  /\ UNCHANGED <<evt, stopSource, scope, hVars, kind>>

\* end_scope(): evt_.set().
EndScopeSet(j, setting, after) ==
  /\ jpc[j] = setting
  /\ evt' = TRUE
  /\ jpc' = [jpc EXCEPT ![j] = after]
  /\ UNCHANGED <<opState, stopSource, scope, hVars, kind>>

\* v1 request_stop(): stopSource_.request_stop(); cleanup() goes on to join().
RequestStop(j) ==
  /\ jpc[j] = "stop"
  /\ stopSource' = TRUE
  /\ jpc' = [jpc EXCEPT ![j] = IF kind[j] = "cleanup" THEN "join_end" ELSE "done"]
  /\ UNCHANGED <<opState, evt, scope, hVars, kind>>

\* evt_.async_wait() completes.
Joined(j) ==
  /\ jpc[j] = "wait" /\ evt
  /\ jpc' = [jpc EXCEPT ![j] = "done"]
  /\ UNCHANGED <<opState, evt, stopSource, scope, hVars, kind>>

\* The owner destroys the scope once a join has completed, no closer is
\* running and no call of nest() is in progress.
Destroy ==
  /\ scope = "alive"
  /\ \E j \in Closers : jpc[j] = "done" /\ kind[j] # "request_stop"
  /\ \A j \in Closers : jpc[j] \in {"none", "done"}
  /\ \A h \in Handles : hpc[h] # "try"
  /\ scope' = "destroyed"
  /\ UNCHANGED <<opState, evt, stopSource, hVars, jVars>>

-----------------------------------------------------------------------------
HandleStep(h) == TryRecordStart(h) \/ RecordCompletion(h) \/ SetEvent(h)

CloserStep(j) ==
  \/ EndScope(j, "stop_end", "stop_set", "stop")
  \/ EndScopeSet(j, "stop_set", "stop")
  \/ RequestStop(j)
  \/ EndScope(j, "join_end", "join_set", "wait")
  \/ EndScopeSet(j, "join_set", "wait")
  \/ Joined(j)

Use(h) ==
  \/ Nest(h) \/ Connect(h) \/ Start(h)
  \/ \E g \in Handles : Copy(h, g) \/ ConnectCopy(h, g)

Next ==
  \/ \E h \in Handles : HandleStep(h) \/ Use(h) \/ Complete(h) \/ Discard(h)
  \/ \E j \in Closers : Close(j) \/ CloserStep(j)
  \/ Destroy

Spec == Init /\ [][Next]_vars

\* Running code is scheduled; every nested sender is used up or discarded, and
\* every nested operation completes.
Fairness ==
  /\ \A h \in Handles : WF_vars(HandleStep(h)) /\ WF_vars(Complete(h) \/ Discard(h))
  /\ \A j \in Closers : WF_vars(CloserStep(j))

FairSpec == Spec /\ Fairness

-----------------------------------------------------------------------------
\* The handles that own a scope_reference.
References == {h \in Handles : hpc[h] \in {"sender", "op", "started", "drop"}}

\* The type of every variable.
TypeOK ==
  /\ opState \in Nat
  /\ evt \in BOOLEAN /\ stopSource \in BOOLEAN /\ scope \in {"alive", "destroyed"}
  /\ hpc \in [Handles -> {"none", "try", "empty", "sender", "op", "started", "drop", "set", "gone"}]
  /\ expected \in [Handles -> Nat]
  /\ target \in [Handles -> {"sender", "op"}]
  /\ jpc \in [Closers -> {"none", "stop_end", "stop_set", "stop",
                          "join_end", "join_set", "wait", "done"}]
  /\ kind \in [Closers -> {"join", "cleanup", "request_stop"}]

\* opState_ >> 1 is the number of scope_references, whatever the order of
\* starts, copies, completions and end_scope().
CountsReferences == use_count(opState) = Cardinality(References)

\* evt_ is set only when the scope has ended and nothing nested in it is left;
\* so a join never completes over outstanding work.
EventMeansDrained == evt => opState = 0

\* When the scope is destroyed no handle owns a reference to it: the two
\* assertions of ~async_scope() hold and no record_completion() is to come.
DestroyedWhenUnreferenced ==
  scope = "destroyed" => opState = 0 /\ References = {}

\* When the scope is destroyed nobody is still to call set() on its evt_.
EventOutlivesSetters ==
  scope = "destroyed" => \A h \in Handles : hpc[h] # "set"

\* Nobody but j has ended the scope or is ending it, and j calls join().
SoleJoin(j) ==
  /\ jpc[j] # "none" /\ kind[j] = "join"
  /\ \A i \in Closers \ {j} : jpc[i] = "none"

\* A scope that is ended once, by one join() or complete(), is not destroyed
\* before everyone has called set() on its evt_.
JoinOutlivesSetters ==
  (\E j \in Closers : SoleJoin(j)) => EventOutlivesSetters

\* No work is nested once the scope has ended, not even by a nest() that read
\* opState_ before.
NothingNestedAfterEnd ==
  [][ scope_ended(opState) => References' \subseteq References /\ scope_ended(opState') ]_vars

\* A join completes, provided that whatever was nested finishes.
JoinCompletes ==
  \A j \in Closers : jpc[j] # "none" ~> jpc[j] = "done"
=============================================================================
