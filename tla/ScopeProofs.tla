---------------------------- MODULE ScopeProofs ----------------------------
(***************************************************************************)
(* Proofs about AsyncScope, for any finite set of references and any set   *)
(* of closers, and about SpawnFuture, which nests an operation in a scope, *)
(* for every set of uses.                                                  *)
(*                                                                         *)
(* The properties of the scope are not inductive: whoever is about to call *)
(* evt_.set() decided so on an earlier value of opState_, and a join that  *)
(* is done passed through evt_.  ScopeInv adds these two facts to the      *)
(* count.                                                                  *)
(*                                                                         *)
(* The state_ of a future alone does not say who deletes: "complete" is    *)
(* reached by a dropped future, by an operation that hands over to an      *)
(* abandoned future, and by an abandoned future that claims first.  The    *)
(* inductive invariant is that the operation state is in one of six        *)
(* phases, each of which says where the three parties can be and what they *)
(* remember.                                                               *)
(***************************************************************************)
EXTENDS AsyncScope, SpawnFuture, FiniteSetTheorems, TLAPS

-----------------------------------------------------------------------------
(* The scope.                                                              *)

\* Whoever is going to set the event has seen the scope drained.
SettersInv ==
  /\ \A h \in Handles : hpc[h] = "set" => opState = 0
  /\ \A j \in Closers : jpc[j] \in {"stop_set", "join_set"} => opState = 0

\* A closer that waited is done only once the event is set; join() alone does
\* not pass through request_stop().
JoinedInv ==
  \A j \in Closers :
    /\ jpc[j] = "done" /\ kind[j] # "request_stop" => evt
    /\ jpc[j] \in {"stop_end", "stop_set", "stop"} => kind[j] # "join"

\* The count and the open bit make up opState_.
CountInv == \E open \in {0, 1} : opState = 2 * Cardinality(References) + open

ScopeInv ==
  /\ TypeOK /\ CountInv /\ EventMeansDrained /\ SettersInv /\ JoinedInv
  /\ scope = "destroyed" => evt

\* The references are finitely many, so their number is a natural number.
LEMMA ReferencesFinite == IsFiniteSet(References) /\ Cardinality(References) \in Nat
BY ScopeAssumption, FS_Subset, FS_CardinalityType DEF References

\* The arithmetic of opState_: its count and its open bit.
LEMMA OpStateArithmetic ==
  ASSUME NEW n \in Nat, NEW b \in {0, 1}
  PROVE  /\ use_count(2 * n + b) = n
         /\ scope_ended(2 * n + b) <=> b = 0
BY DEF use_count, scope_ended

\* The invariant gives the properties that the runs check.
LEMMA ScopeInvImplies ==
  ScopeInv => CountsReferences /\ DestroyedWhenUnreferenced
<1> SUFFICES ASSUME ScopeInv PROVE CountsReferences /\ DestroyedWhenUnreferenced
  OBVIOUS
<1>1. PICK b \in {0, 1} : opState = 2 * Cardinality(References) + b
  BY DEF ScopeInv, CountInv
<1>2. CountsReferences
  BY <1>1, ReferencesFinite, OpStateArithmetic DEF CountsReferences
<1>3. ASSUME scope = "destroyed" PROVE opState = 0 /\ References = {}
  <2>1. opState = 0
    BY <1>3 DEF ScopeInv, EventMeansDrained
  <2>2. Cardinality(References) = 0
    BY <1>1, <2>1, ReferencesFinite
  <2> QED BY <2>1, <2>2, ReferencesFinite, FS_EmptySet
<1> QED BY <1>2, <1>3 DEF DestroyedWhenUnreferenced

\* A new scope satisfies the invariant.
LEMMA InitScopeInv == Init => ScopeInv
<1> SUFFICES ASSUME Init PROVE ScopeInv
  OBVIOUS
<1>1. TypeOK
  BY DEF Init, TypeOK
<1>2. CountInv
  <2>1. References = {}
    BY DEF Init, References
  <2>2. Cardinality(References) = 0
    BY <2>1, FS_EmptySet
  <2> QED BY <2>2 DEF CountInv, Init
<1> QED BY <1>1, <1>2 DEF Init, ScopeInv, EventMeansDrained, SettersInv, JoinedInv

-----------------------------------------------------------------------------
\* A step that leaves opState_ and the set of references alone keeps CountInv.
LEMMA CountKept ==
  ASSUME CountInv, UNCHANGED opState, References' = References PROVE CountInv'
BY DEF CountInv

\* A step of h that changes neither opState_, evt_, the scope nor a closer, and
\* does not decide to set the event, keeps the invariant if it keeps References.
LEMMA QuietHandleStep ==
  ASSUME ScopeInv, NEW h \in Handles,
         UNCHANGED <<opState, evt, stopSource, scope, jVars>>, TypeOK',
         References' = References,
         \A g \in Handles : hpc'[g] = "set" => hpc[g] = "set"
  PROVE  ScopeInv'
<1>1. CountInv'
  BY CountKept DEF ScopeInv
<1> QED BY <1>1 DEF ScopeInv, EventMeansDrained, SettersInv, JoinedInv, jVars

\* nest(), copies and connects only begin try_record_start().
LEMMA LoadStep ==
  ASSUME ScopeInv, NEW h \in Handles, NEW t \in {"sender", "op"}, LoadOpState(h, t),
         UNCHANGED <<opState, evt, stopSource, scope, jVars>>
  PROVE  ScopeInv'
<1>1. TypeOK'
  BY DEF ScopeInv, TypeOK, LoadOpState, jVars
<1>2. References' = References
  BY DEF ScopeInv, TypeOK, LoadOpState, References
<1>3. \A g \in Handles : hpc'[g] = "set" => hpc[g] = "set"
  BY DEF ScopeInv, TypeOK, LoadOpState
<1> QED BY <1>1, <1>2, <1>3, QuietHandleStep

\* Connect, Start, Complete and Discard pass a reference on.
LEMMA PassOnStep ==
  ASSUME ScopeInv, NEW h \in Handles, Connect(h) \/ Start(h) \/ Complete(h) \/ Discard(h)
  PROVE  ScopeInv'
<1> USE DEF ScopeInv, TypeOK, Connect, Start, Complete, Discard, jVars
<1>1. TypeOK'
  OBVIOUS
<1>2. References' = References
  BY DEF References
<1>3. \A g \in Handles : hpc'[g] = "set" => hpc[g] = "set"
  OBVIOUS
<1> QED BY <1>1, <1>2, <1>3, QuietHandleStep

\* try_record_start() counts the reference it makes, and none once the scope
\* has ended.
LEMMA TryRecordStartStep ==
  ASSUME ScopeInv, NEW h \in Handles, TryRecordStart(h) PROVE ScopeInv'
<1> USE DEF ScopeInv, TypeOK, TryRecordStart, jVars
<1>1. TypeOK'
  OBVIOUS
<1>2. CASE opState' # opState
  <2>1. PICK b \in {0, 1} : opState = 2 * Cardinality(References) + b
    BY DEF CountInv
  <2>2. /\ ~scope_ended(opState) /\ opState' = opState + 2
        /\ hpc[h] = "try" /\ hpc' = [hpc EXCEPT ![h] = target[h]]
    BY <1>2
  <2>3. b = 1
    BY <2>1, <2>2, ReferencesFinite, OpStateArithmetic
  <2>4. References' = References \union {h} /\ h \notin References
    BY <2>2 DEF References
  <2>5. Cardinality(References') = Cardinality(References) + 1
    BY <2>4, ReferencesFinite, FS_AddElement
  <2>6. CountInv'
    BY <2>1, <2>2, <2>5, ReferencesFinite DEF CountInv
  <2>7. opState # 0
    BY <2>1, <2>3, ReferencesFinite
  <2> QED BY <1>1, <2>2, <2>6, <2>7 DEF EventMeansDrained, SettersInv, JoinedInv
<1>3. CASE opState' = opState
  <2>1. hpc' = hpc \/ (hpc[h] = "try" /\ hpc' = [hpc EXCEPT ![h] = "empty"])
    BY <1>3
  <2>2. References' = References
    BY <2>1 DEF References
  <2>3. \A g \in Handles : hpc'[g] = "set" => hpc[g] = "set"
    BY <2>1
  <2> QED BY <1>1, <1>3, <2>2, <2>3, QuietHandleStep
<1> QED BY <1>2, <1>3

\* record_completion() takes one off the count and decides to set the event
\* only if nothing is left of an ended scope.
LEMMA RecordCompletionStep ==
  ASSUME ScopeInv, NEW h \in Handles, RecordCompletion(h) PROVE ScopeInv'
<1> USE DEF ScopeInv, TypeOK, RecordCompletion, jVars
<1>1. PICK b \in {0, 1} : opState = 2 * Cardinality(References) + b
  BY DEF CountInv
<1>2. References' = References \ {h} /\ h \in References
  BY DEF References
<1>3. /\ Cardinality(References') = Cardinality(References) - 1
      /\ Cardinality(References') \in Nat
  BY <1>2, ReferencesFinite, FS_RemoveElement, FS_CardinalityType
<1>4. opState' = 2 * Cardinality(References') + b /\ opState # 0
  BY <1>1, <1>3, ReferencesFinite
<1>5. TypeOK'
  BY <1>3, <1>4
<1>6. CountInv'
  BY <1>4 DEF CountInv
<1>7. hpc'[h] = "set" => opState' = 0
  BY <1>1, <1>3, <1>4, ReferencesFinite, OpStateArithmetic
<1>8. \A g \in Handles : hpc'[g] = "set" => g = h
  BY <1>4 DEF SettersInv
<1> QED BY <1>4, <1>5, <1>6, <1>7, <1>8 DEF EventMeansDrained, SettersInv, JoinedInv

\* evt_.set() by an operation.
LEMMA SetEventStep ==
  ASSUME ScopeInv, NEW h \in Handles, SetEvent(h) PROVE ScopeInv'
<1> USE DEF ScopeInv, TypeOK, SetEvent, jVars
<1>1. TypeOK'
  OBVIOUS
<1>2. References' = References
  BY DEF References
<1>3. CountInv'
  BY <1>2, CountKept
<1> QED BY <1>1, <1>3 DEF EventMeansDrained, SettersInv, JoinedInv

-----------------------------------------------------------------------------
\* end_scope() clears the open bit and keeps the count.
LEMMA EndScopeStep ==
  ASSUME ScopeInv, NEW j \in Closers,
         \/ EndScope(j, "stop_end", "stop_set", "stop")
         \/ EndScope(j, "join_end", "join_set", "wait")
  PROVE  ScopeInv'
<1> USE DEF ScopeInv, TypeOK, EndScope, hVars
<1>1. PICK b \in {0, 1} : opState = 2 * Cardinality(References) + b
  BY DEF CountInv
<1>2. opState' = 2 * Cardinality(References) /\ References' = References
  BY <1>1, ReferencesFinite, OpStateArithmetic DEF References
<1>3. CountInv'
  BY <1>2, ReferencesFinite DEF CountInv
<1>4. TypeOK'
  BY <1>2, ReferencesFinite
<1>5. use_count(opState) = 0 => opState' = 0
  BY <1>1, <1>2, ReferencesFinite, OpStateArithmetic
<1>6. opState = 0 => opState' = 0
  BY <1>1, <1>2, ReferencesFinite
<1>7. EventMeansDrained' /\ (scope = "destroyed" => evt)'
  BY <1>6 DEF EventMeansDrained
<1>8. SettersInv'
  BY <1>5, <1>6 DEF SettersInv
<1>9. JoinedInv'
  BY DEF JoinedInv
<1> QED BY <1>3, <1>4, <1>7, <1>8, <1>9

\* evt_.set() by a closer.
LEMMA EndScopeSetStep ==
  ASSUME ScopeInv, NEW j \in Closers,
         EndScopeSet(j, "stop_set", "stop") \/ EndScopeSet(j, "join_set", "wait")
  PROVE  ScopeInv'
<1> USE DEF ScopeInv, TypeOK, EndScopeSet, hVars
<1>1. TypeOK'
  OBVIOUS
<1>2. References' = References
  BY DEF References
<1>3. CountInv'
  BY <1>2, CountKept
<1>4. EventMeansDrained' /\ SettersInv' /\ (scope = "destroyed" => evt)'
  BY DEF EventMeansDrained, SettersInv
<1>5. JoinedInv'
  BY DEF JoinedInv
<1> QED BY <1>1, <1>3, <1>4, <1>5

\* The steps of a closer that touch neither opState_ nor evt_: a new closer,
\* stopSource_.request_stop(), and the end of async_wait().
LEMMA QuietCloserStep ==
  ASSUME ScopeInv, NEW j \in Closers, Close(j) \/ RequestStop(j) \/ Joined(j)
  PROVE  ScopeInv'
<1> USE DEF ScopeInv, hVars
<1>1. PICK pc \in {"join_end", "stop_end", "done"}, k \in {"join", "cleanup", "request_stop"} :
        /\ jpc' = [jpc EXCEPT ![j] = pc] /\ kind' = [kind EXCEPT ![j] = k]
        /\ pc = "stop_end" => k # "join"
        /\ pc = "done" /\ k # "request_stop" => evt
  <2>1. CASE Close(j)
    BY <2>1, ScopeAssumption DEF Close, TypeOK
  <2>2. CASE RequestStop(j)
    BY <2>2 DEF RequestStop, TypeOK, JoinedInv
  <2>3. CASE Joined(j)
    BY <2>3 DEF Joined, TypeOK
  <2> QED BY <2>1, <2>2, <2>3
<1>2. /\ UNCHANGED <<opState, evt, scope, hpc, expected, target>>
      /\ stopSource' \in BOOLEAN
  BY DEF Close, RequestStop, Joined, TypeOK
<1>3. TypeOK'
  BY <1>1, <1>2 DEF TypeOK
<1>4. References' = References
  BY <1>2 DEF References
<1>5. CountInv'
  BY <1>2, <1>4, CountKept
<1>6. EventMeansDrained' /\ SettersInv' /\ (scope = "destroyed" => evt)'
  BY <1>1, <1>2 DEF EventMeansDrained, SettersInv, TypeOK
<1>7. JoinedInv'
  BY <1>1, <1>2 DEF JoinedInv, TypeOK
<1> QED BY <1>3, <1>5, <1>6, <1>7

\* Whoever destroys the scope has waited for it.
LEMMA DestroyStep == ASSUME ScopeInv, Destroy PROVE ScopeInv'
<1> USE DEF ScopeInv, Destroy, hVars, jVars
<1>1. TypeOK'
  BY DEF TypeOK
<1>2. References' = References
  BY DEF References
<1>3. CountInv'
  BY <1>2, CountKept
<1>4. EventMeansDrained' /\ SettersInv' /\ JoinedInv' /\ (scope = "destroyed" => evt)'
  BY DEF EventMeansDrained, SettersInv, JoinedInv
<1> QED BY <1>1, <1>3, <1>4

\* Every step keeps the invariant.
LEMMA NextScopeInv == ScopeInv /\ [Next]_vars => ScopeInv'
<1> SUFFICES ASSUME ScopeInv, [Next]_vars PROVE ScopeInv'
  OBVIOUS
<1>1. ASSUME NEW h \in Handles, HandleStep(h) \/ Use(h) \/ Complete(h) \/ Discard(h)
      PROVE  ScopeInv'
  <2>1. CASE HandleStep(h)
    BY <2>1, TryRecordStartStep, RecordCompletionStep, SetEventStep DEF HandleStep
  <2>2. CASE Use(h)
    BY <2>2, LoadStep, PassOnStep DEF Use, Nest, Copy, ConnectCopy
  <2> QED BY <1>1, <2>1, <2>2, PassOnStep
<1>2. ASSUME NEW j \in Closers, Close(j) \/ CloserStep(j) PROVE ScopeInv'
  BY <1>2, EndScopeStep, EndScopeSetStep, QuietCloserStep DEF CloserStep
<1>3. CASE Destroy
  BY <1>3, DestroyStep
<1>4. CASE UNCHANGED vars
  BY <1>4 DEF vars, hVars, jVars, ScopeInv, TypeOK, CountInv, References, EventMeansDrained,
     SettersInv, JoinedInv
<1> QED BY <1>1, <1>2, <1>3, <1>4 DEF Next

\* The inductive invariant holds in every state the scope can reach.
THEOREM ScopeInvariance == Spec => []ScopeInv
BY InitScopeInv, NextScopeInv, PTL DEF Spec

\* The count kept in opState_ is exact at every moment.
THEOREM CountIsExact == Spec => []CountsReferences
BY ScopeInvariance, ScopeInvImplies, PTL

\* The event is set, and so a join completes, only when nothing is left.
THEOREM EventOnlyWhenDrained == Spec => []EventMeansDrained
<1>1. ScopeInv => EventMeansDrained BY DEF ScopeInv
<1> QED BY <1>1, ScopeInvariance, PTL

\* The assertions of ~async_scope() hold and no reference outlives the scope.
THEOREM DestructorAssertionsHold == Spec => []DestroyedWhenUnreferenced
BY ScopeInvariance, ScopeInvImplies, PTL

-----------------------------------------------------------------------------
\* Once the open bit is clear no step makes a reference or sets the bit again.
LEMMA StepAfterEnd ==
  ASSUME ScopeInv, Next, scope_ended(opState)
  PROVE  References' \subseteq References /\ scope_ended(opState')
<1> USE DEF ScopeInv, TypeOK, References, jVars, hVars
<1>1. ASSUME NEW h \in Handles, HandleStep(h) \/ Use(h) \/ Complete(h) \/ Discard(h)
      PROVE  References' \subseteq References /\ scope_ended(opState')
  <2>1. CASE TryRecordStart(h)
    BY <2>1 DEF TryRecordStart
  <2>2. CASE RecordCompletion(h)
    <3>1. References' \subseteq References /\ opState' = opState - 2
      BY <2>2 DEF RecordCompletion
    <3> QED BY <3>1 DEF scope_ended
  <2>3. CASE SetEvent(h) \/ Complete(h) \/ Discard(h) \/ Connect(h) \/ Start(h)
    BY <2>3 DEF SetEvent, Complete, Discard, Connect, Start
  <2>4. CASE Nest(h) \/ \E g \in Handles : Copy(h, g) \/ ConnectCopy(h, g)
    BY <2>4 DEF Nest, Copy, ConnectCopy, LoadOpState
  <2> QED BY <1>1, <2>1, <2>2, <2>3, <2>4 DEF HandleStep, Use
<1>2. ASSUME NEW j \in Closers, Close(j) \/ CloserStep(j)
      PROVE  References' \subseteq References /\ scope_ended(opState')
  <2>1. UNCHANGED hpc /\ opState' \in {opState, 2 * use_count(opState)}
    BY <1>2 DEF Close, CloserStep, EndScope, EndScopeSet, RequestStop, Joined
  <2>2. scope_ended(2 * use_count(opState))
    BY DEF scope_ended, use_count
  <2> QED BY <2>1, <2>2
<1>3. CASE Destroy
  BY <1>3 DEF Destroy
<1> QED BY <1>1, <1>2, <1>3 DEF Next

\* No work is nested in a scope that has ended, however the steps of nest(),
\* of copies and of end_scope() interleave.
THEOREM EndIsFinal == Spec => NothingNestedAfterEnd
<1>1. ScopeInv /\ [Next]_vars =>
        [scope_ended(opState) => References' \subseteq References /\ scope_ended(opState')]_vars
  BY StepAfterEnd
<1> QED BY <1>1, ScopeInvariance, PTL DEF Spec, NothingNestedAfterEnd

-----------------------------------------------------------------------------
(* A scope with one join.  Whoever calls evt_.set() was the last of an      *)
(* ended scope; with one call of end_scope() there is only one such caller, *)
(* so the join that wakes up knows that no other set() is to come.          *)

\* Nobody but j may have ended the scope, and j not by request_stop().
OnlyJoin(j) ==
  /\ jpc[j] = "none" \/ kind[j] = "join"
  /\ \A i \in Closers \ {j} : jpc[i] = "none"

\* With one join, the scope is open until its end_scope(), and the event is set
\* by one caller: a reference or the join, and once.
OneSetterInv ==
  \A j \in Closers : OnlyJoin(j) =>
    /\ jpc[j] \in {"none", "join_end"} => opState % 2 = 1
    /\ evt \/ jpc[j] = "join_set" => \A h \in Handles : hpc[h] # "set"
    /\ \A g, h \in Handles : hpc[g] = "set" /\ hpc[h] = "set" => g = h

\* A step that keeps the closers, the event and the open bit, and decides to set
\* nothing, keeps OneSetterInv.
LEMMA NoNewSetter ==
  ASSUME OneSetterInv, UNCHANGED <<evt, jVars>>, opState' % 2 = opState % 2,
         \A g \in Handles : hpc'[g] = "set" => hpc[g] = "set"
  PROVE  OneSetterInv'
BY DEF OneSetterInv, OnlyJoin, jVars

\* try_record_start() and whatever passes a reference on decide nothing.
LEMMA UseOneSetter ==
  ASSUME ScopeInv, OneSetterInv, NEW h \in Handles,
         TryRecordStart(h) \/ Use(h) \/ Complete(h) \/ Discard(h)
  PROVE  OneSetterInv'
<1> USE DEF ScopeInv, TypeOK
<1>1. UNCHANGED <<evt, jVars>> /\ opState' \in {opState, opState + 2}
  BY DEF TryRecordStart, Use, Nest, Copy, ConnectCopy, Connect, Start, Complete, Discard, LoadOpState
<1>2. opState' % 2 = opState % 2
  BY <1>1
<1>3. \A g \in Handles : hpc'[g] = "set" => hpc[g] = "set"
  BY DEF TryRecordStart, Use, Nest, Copy, ConnectCopy, Connect, Start, Complete, Discard, LoadOpState
<1> QED BY <1>1, <1>2, <1>3, NoNewSetter

\* Whoever drops the last reference of an ended scope is the first to decide to
\* set the event: until then opState_ was not 0.
LEMMA RecordCompletionOneSetter ==
  ASSUME ScopeInv, OneSetterInv, NEW h \in Handles, RecordCompletion(h)
  PROVE  OneSetterInv'
<1> USE DEF ScopeInv, TypeOK
<1>1. PICK b \in {0, 1} : opState = 2 * Cardinality(References) + b
  BY DEF CountInv
<1>2. h \in References
  BY DEF RecordCompletion, References
<1>3. Cardinality(References) # 0
  BY <1>2, ReferencesFinite, FS_EmptySet
<1>4. opState # 0 /\ opState' % 2 = opState % 2
  BY <1>1, <1>3, ReferencesFinite DEF RecordCompletion
<1>5. /\ \A g \in Handles : hpc[g] # "set"
      /\ \A j \in Closers : jpc[j] # "join_set"
      /\ ~evt
  BY <1>4 DEF SettersInv, EventMeansDrained
<1>6. \A g \in Handles : hpc'[g] = "set" => g = h
  BY <1>5 DEF RecordCompletion
<1> QED BY <1>4, <1>5, <1>6 DEF OneSetterInv, OnlyJoin, RecordCompletion, jVars

\* The one setter sets the event: none is left.
LEMMA SetEventOneSetter ==
  ASSUME ScopeInv, OneSetterInv, NEW h \in Handles, SetEvent(h)
  PROVE  OneSetterInv'
BY DEF ScopeInv, TypeOK, OneSetterInv, OnlyJoin, SetEvent, jVars

\* The one end_scope() finds the scope open, so no reference has decided to set
\* the event before; and only it may set the event itself.
LEMMA CloserOneSetter ==
  ASSUME ScopeInv, OneSetterInv, NEW i \in Closers, Close(i) \/ CloserStep(i)
  PROVE  OneSetterInv'
<1> USE DEF ScopeInv, TypeOK, hVars
<1>1. \A j \in Closers : OnlyJoin(j)' => j = i
  BY DEF Close, CloserStep, EndScope, EndScopeSet, RequestStop, Joined, OnlyJoin, TypeOK
<1>2. ASSUME OnlyJoin(i)' PROVE OnlyJoin(i)
  BY <1>2 DEF Close, CloserStep, EndScope, EndScopeSet, RequestStop, Joined, OnlyJoin
<1>3. UNCHANGED hpc
  BY DEF Close, CloserStep, EndScope, EndScopeSet, RequestStop, Joined
<1>4. ASSUME OnlyJoin(i)', OnlyJoin(i)
      PROVE  /\ jpc'[i] \in {"none", "join_end"} => opState' % 2 = 1
             /\ evt' \/ jpc'[i] = "join_set" => \A h \in Handles : hpc[h] # "set"
  <2>1. CASE Close(i)
    BY <1>4, <2>1 DEF Close, OneSetterInv
  <2>2. CASE jpc[i] \in {"stop_end", "stop_set", "stop"}
    BY <1>4, <2>2 DEF OnlyJoin, JoinedInv
  <2>3. CASE EndScope(i, "join_end", "join_set", "wait")
    <3>1. opState % 2 = 1
      BY <1>4, <2>3 DEF EndScope, OneSetterInv
    <3>2. \A h \in Handles : hpc[h] # "set"
      BY <3>1 DEF SettersInv
    <3> QED BY <2>3, <3>2 DEF EndScope
  <2>4. CASE EndScopeSet(i, "join_set", "wait")
    BY <1>4, <2>4 DEF EndScopeSet, OneSetterInv
  <2>5. CASE Joined(i)
    BY <1>4, <2>5 DEF Joined, OneSetterInv
  <2> QED BY <2>1, <2>2, <2>3, <2>4, <2>5 DEF CloserStep, EndScope, EndScopeSet, RequestStop
<1> QED BY <1>1, <1>2, <1>3, <1>4 DEF OneSetterInv

\* Every step keeps OneSetterInv.
LEMMA NextOneSetter == ScopeInv /\ OneSetterInv /\ [Next]_vars => OneSetterInv'
<1> SUFFICES ASSUME ScopeInv, OneSetterInv, [Next]_vars PROVE OneSetterInv'
  OBVIOUS
<1>1. ASSUME NEW h \in Handles, HandleStep(h) \/ Use(h) \/ Complete(h) \/ Discard(h)
      PROVE  OneSetterInv'
  BY <1>1, UseOneSetter, RecordCompletionOneSetter, SetEventOneSetter DEF HandleStep
<1>2. ASSUME NEW j \in Closers, Close(j) \/ CloserStep(j) PROVE OneSetterInv'
  BY <1>2, CloserOneSetter
<1>3. CASE Destroy \/ UNCHANGED vars
  BY <1>3, NoNewSetter DEF Destroy, vars, hVars, jVars
<1> QED BY <1>1, <1>2, <1>3 DEF Next

\* While one join() is all that has ended the scope (OnlyJoin), there is at most
\* one caller of evt_.set(), and none once the event is set.
THEOREM OneSetter == Spec => []OneSetterInv
<1>1. Init => OneSetterInv
  BY DEF Init, OneSetterInv
<1> QED BY <1>1, ScopeInvariance, NextOneSetter, PTL DEF Spec

\* A scope that is ended by one join() is not destroyed under a set() of its
\* evt_: whoever sets the event has done so before the join completes.
THEOREM JoinWaitsForSetters == Spec => []JoinOutlivesSetters
<1>1. ScopeInv /\ OneSetterInv => JoinOutlivesSetters
  BY DEF ScopeInv, OneSetterInv, OnlyJoin, SoleJoin, JoinOutlivesSetters, EventOutlivesSetters
<1> QED BY <1>1, ScopeInvariance, OneSetter, PTL

-----------------------------------------------------------------------------
(* A future and the operation it was spawned with.                         *)

\* The stop callback is registered exactly while the future is connected, and
\* only then does a stop request run abandon().
CallbackInv ==
  /\ callback = "registered" <=>
       fpc \in {"connected", "wait", "claim", "result", "cleanup", "completed"}
  /\ fpc = "held" => callback = "none"
  /\ spc \in {"exchange", "publish"} => callback = "registered"

\* Deletions so far: one if done, none otherwise; unless storing threw, with the
\* current state.
FreedIf(done) ==
  /\ frees = IF done THEN 1 ELSE 0
  /\ "throw" \notin use => freedAs # "stale"

\* Nobody has completed, dropped or abandoned.
Undecided ==
  /\ state = "init" /\ ~evt_ /\ FreedIf(FALSE)
  /\ stored = None /\ produced = None /\ oexp = "init"
  /\ opc \in {"constructing", "throwing", "running"} /\ (nested <=> opc = "running")
  /\ fpc \in {"held", "d_load", "d_exchange", "connected", "wait"}
  /\ opc = "constructing" => fpc \notin {"connected", "wait"}
  /\ opc = "throwing" => fpc \in {"d_load", "d_exchange"}
  /\ spc \in {"idle", "exchange"}

\* The operation completed first: the future deletes, once evt_ is set.
Completed ==
  /\ state \in Signals /\ produced = state /\ oexp = "init"
  /\ opc \in {"store", "destruct", "set", "end"}
  /\ (nested <=> opc \in {"store", "destruct"}) /\ (evt_ <=> opc = "end")
  /\ FreedIf(fpc \in {"completed", "end"})
  /\ opc = "store" => stored = None
  /\ opc # "store" /\ frees = 0 => stored = IF state = "done" THEN None ELSE state
  /\ frees = 1 /\ "throw" \notin use => stored = None
  /\ fpc \in {"held", "d_load", "d_exchange", "d_wait", "connected", "wait", "result", "cleanup",
              "completed", "end"}
  /\ fpc = "d_wait" => fst \in Signals /\ ("throw" \notin use => fst = state)
  /\ fpc \in {"result", "cleanup", "completed"} => owns /\ fst = state
  /\ fpc \in {"result", "cleanup", "completed", "end"} => evt_
  /\ fpc \in {"cleanup", "completed"} => delivered = state
  /\ spc # "publish"

\* The future was dropped first: the operation deletes.
Dropped ==
  /\ state = "complete" /\ fpc = "end" /\ ~evt_ /\ stored = None
  /\ opc \in {"constructing", "throwing", "running", "negotiate", "delete", "end"}
  /\ (nested <=> opc \in {"running", "negotiate"})
  /\ opc \in {"negotiate", "delete"} => oexp = "complete"
  /\ FreedIf(opc = "end")

\* A stop request came first: whoever exchanges abandoned for complete leaves the
\* deletion to the other.
Abandoned ==
  /\ state = "abandoned" /\ FreedIf(FALSE) /\ stored = None
  /\ spc \in {"publish", "end"} /\ (evt_ <=> spc = "end")
  /\ opc \in {"running", "negotiate", "handover"} /\ (nested <=> opc # "handover")
  /\ IF opc = "running" THEN produced = None ELSE oexp = "abandoned"
  /\ fpc \in {"connected", "wait", "claim", "d_load", "terminate"}
  /\ fpc = "claim" => owns /\ evt_ /\ fst = "abandoned"
  /\ fpc \in {"d_load", "terminate"} => "discard" \in use

\* The operation exchanged: the abandoned future deletes.
HandedOver ==
  /\ state = "complete" /\ stored = None /\ ~nested
  /\ spc \in {"publish", "end"} /\ (evt_ <=> spc = "end")
  /\ opc = "end" /\ oexp = "abandoned"
  /\ fpc \in {"connected", "wait", "claim", "result", "cleanup", "completed", "end", "d_load",
              "terminate"}
  /\ FreedIf(fpc \in {"completed", "end"})
  /\ fpc \in {"claim", "result", "cleanup"} => owns /\ evt_
  /\ fpc \in {"result", "cleanup"} => fst = "complete"
  /\ fpc \in {"cleanup", "completed"} => delivered = "done"
  /\ fpc \in {"d_load", "terminate"} => "discard" \in use

\* The abandoned future exchanged: the operation deletes.
Claimed ==
  /\ state = "complete" /\ stored = None /\ evt_ /\ spc = "end"
  /\ fpc \in {"result", "cleanup", "completed", "end"} /\ ~owns /\ fst = "abandoned"
  /\ fpc \in {"cleanup", "completed"} => delivered = "done"
  /\ opc \in {"running", "negotiate", "handover", "delete", "end"}
  /\ (nested <=> opc \in {"running", "negotiate"})
  /\ IF opc = "running" THEN produced = None ELSE oexp \in {"abandoned", "complete"}
  /\ opc = "delete" => oexp = "complete"
  /\ FreedIf(opc = "end")

PhaseInv == Undecided \/ Completed \/ Dropped \/ Abandoned \/ HandedOver \/ Claimed

FutureInv == FutureTypeOK /\ CallbackInv /\ PhaseInv

-----------------------------------------------------------------------------

\* init_operation() and start().
LEMMA StartOperationStep ==
  ASSUME FutureInv, StartOperation, UNCHANGED use
  PROVE  FutureInv'
<1> USE DEF FutureInv, FutureTypeOK, CallbackInv, FreedIf, Signals, States, None, dataVars, memVars, oVars,
        fVars, StartOperation
<1>1. FutureTypeOK' /\ CallbackInv'
  OBVIOUS
<1>2. CASE Undecided
  <2>1. Undecided'
    BY <1>2 DEF Undecided
  <2> QED BY <1>1, <2>1 DEF PhaseInv
<1>3. CASE Dropped
  <2>1. Dropped'
    BY <1>3 DEF Dropped
  <2> QED BY <1>1, <2>1 DEF PhaseInv
<1> QED BY <1>2, <1>3 DEF PhaseInv, Completed, Abandoned, HandedOver, Claimed

\* init_operation() throws; the future is destroyed first.
LEMMA InitThrowsStep ==
  ASSUME FutureInv, InitThrows, UNCHANGED use
  PROVE  FutureInv'
<1> USE DEF FutureInv, FutureTypeOK, CallbackInv, FreedIf, Signals, States, None, dataVars, memVars, oVars,
        fVars, InitThrows
<1>1. FutureTypeOK' /\ CallbackInv'
  OBVIOUS
<1>2. CASE Undecided
  <2>1. Undecided'
    BY <1>2 DEF Undecided
  <2> QED BY <1>1, <2>1 DEF PhaseInv
<1>3. CASE Dropped
  <2>1. Dropped'
    BY <1>3 DEF Dropped
  <2> QED BY <1>1, <2>1 DEF PhaseInv
<1> QED BY <1>2, <1>3 DEF PhaseInv, Completed, Abandoned, HandedOver, Claimed

\* The operation state is destroyed after the future, which dropped it.
LEMMA InitCatchStep ==
  ASSUME FutureInv, InitCatch, UNCHANGED use
  PROVE  FutureInv'
<1> USE DEF FutureInv, FutureTypeOK, CallbackInv, FreedIf, Signals, States, None, dataVars, memVars, oVars,
        fVars, InitCatch, Deleter
<1>1. FutureTypeOK' /\ CallbackInv'
  OBVIOUS
<1>2. CASE Dropped
  <2>1. Dropped'
    BY <1>2 DEF Dropped
  <2> QED BY <1>1, <2>1 DEF PhaseInv
<1> QED BY <1>2 DEF PhaseInv, Undecided, Completed, Abandoned, HandedOver, Claimed

\* complete(): the exchange from init decides whether the operation was first.
LEMMA CompleteStep ==
  ASSUME FutureInv, NEW s \in Signals, complete(s), UNCHANGED use
  PROVE  FutureInv'
<1> USE DEF FutureInv, FutureTypeOK, CallbackInv, FreedIf, Signals, States, None, dataVars, memVars, oVars,
        fVars, complete
<1>1. FutureTypeOK' /\ CallbackInv'
  OBVIOUS
<1>2. CASE Undecided
  <2>1. Completed'
    BY <1>2 DEF Undecided, Completed
  <2> QED BY <1>1, <2>1 DEF PhaseInv
<1>3. CASE Dropped
  <2>1. Dropped'
    BY <1>3 DEF Dropped
  <2> QED BY <1>1, <2>1 DEF PhaseInv
<1>4. CASE Abandoned
  <2>1. Abandoned'
    BY <1>4 DEF Abandoned
  <2> QED BY <1>1, <2>1 DEF PhaseInv
<1>5. CASE Claimed
  <2>1. Claimed'
    BY <1>5 DEF Claimed
  <2> QED BY <1>1, <2>1 DEF PhaseInv
<1> QED BY <1>2, <1>3, <1>4, <1>5 DEF PhaseInv, Completed, HandedOver

\* The result is stored; a throw makes it an error.
LEMMA StoreStep ==
  ASSUME FutureInv, Store, UNCHANGED use
  PROVE  FutureInv'
<1> USE DEF FutureInv, FutureTypeOK, CallbackInv, FreedIf, Signals, States, None, dataVars, memVars, oVars,
        fVars, Store
<1>1. FutureTypeOK' /\ CallbackInv'
  OBVIOUS
<1>2. CASE Completed
  <2>1. Completed'
    BY <1>2 DEF Completed
  <2> QED BY <1>1, <2>1 DEF PhaseInv
<1> QED BY <1>2 DEF PhaseInv, Undecided, Dropped, Abandoned, HandedOver, Claimed

\* The nested operation is destroyed before the future is woken.
LEMMA DestructOpStep ==
  ASSUME FutureInv, DestructOp, UNCHANGED use
  PROVE  FutureInv'
<1> USE DEF FutureInv, FutureTypeOK, CallbackInv, FreedIf, Signals, States, None, dataVars, memVars, oVars,
        fVars, DestructOp
<1>1. FutureTypeOK' /\ CallbackInv'
  <2>1. nested' \in BOOLEAN
    OBVIOUS
  <2> QED BY <2>1
<1>2. CASE Completed
  <2>1. Completed'
    BY <1>2 DEF Completed
  <2> QED BY <1>1, <2>1 DEF PhaseInv
<1> QED BY <1>2 DEF PhaseInv, Undecided, Dropped, Abandoned, HandedOver, Claimed

\* The future is woken; from here on the operation uses nothing.
LEMMA SetEvtStep ==
  ASSUME FutureInv, SetEvt, UNCHANGED use
  PROVE  FutureInv'
<1> USE DEF FutureInv, FutureTypeOK, CallbackInv, FreedIf, Signals, States, None, dataVars, memVars, oVars,
        fVars, SetEvt
<1>1. FutureTypeOK' /\ CallbackInv'
  OBVIOUS
<1>2. CASE Completed
  <2>1. Completed'
    BY <1>2 DEF Completed
  <2> QED BY <1>1, <2>1 DEF PhaseInv
<1> QED BY <1>2 DEF PhaseInv, Undecided, Dropped, Abandoned, HandedOver, Claimed

\* negotiate_deletion() sees what the failed exchange has read.
LEMMA NegotiateDeletionStep ==
  ASSUME FutureInv, NegotiateDeletion, UNCHANGED use
  PROVE  FutureInv'
<1> USE DEF FutureInv, FutureTypeOK, CallbackInv, FreedIf, Signals, States, None, dataVars, memVars, oVars,
        fVars, NegotiateDeletion
<1>1. FutureTypeOK' /\ CallbackInv'
  <2>1. nested' \in BOOLEAN
    OBVIOUS
  <2> QED BY <2>1
<1>2. CASE Dropped
  <2>1. Dropped'
    BY <1>2 DEF Dropped
  <2> QED BY <1>1, <2>1 DEF PhaseInv
<1>3. CASE Abandoned
  <2>1. Abandoned'
    BY <1>3 DEF Abandoned
  <2> QED BY <1>1, <2>1 DEF PhaseInv
<1>4. CASE Claimed
  <2>1. Claimed'
    BY <1>4 DEF Claimed
  <2> QED BY <1>1, <2>1 DEF PhaseInv
<1> QED BY <1>2, <1>3, <1>4 DEF PhaseInv, Undecided, Completed, HandedOver

\* The exchange from abandoned decides who deletes.
LEMMA HandOverStep ==
  ASSUME FutureInv, HandOver, UNCHANGED use
  PROVE  FutureInv'
<1> USE DEF FutureInv, FutureTypeOK, CallbackInv, FreedIf, Signals, States, None, dataVars, memVars, oVars,
        fVars, HandOver
<1>1. FutureTypeOK' /\ CallbackInv'
  OBVIOUS
<1>2. CASE Abandoned
  <2>1. HandedOver'
    BY <1>2 DEF Abandoned, HandedOver
  <2> QED BY <1>1, <2>1 DEF PhaseInv
<1>3. CASE Claimed
  <2>1. Claimed'
    BY <1>3 DEF Claimed
  <2> QED BY <1>1, <2>1 DEF PhaseInv
<1> QED BY <1>2, <1>3 DEF PhaseInv, Undecided, Completed, Dropped, HandedOver

\* The operation deletes what the future has left to it.
LEMMA OperationDeletesStep ==
  ASSUME FutureInv, OperationDeletes, UNCHANGED use
  PROVE  FutureInv'
<1> USE DEF FutureInv, FutureTypeOK, CallbackInv, FreedIf, Signals, States, None, dataVars, memVars, oVars,
        fVars, OperationDeletes, Deleter
<1>1. FutureTypeOK' /\ CallbackInv'
  OBVIOUS
<1>2. CASE Dropped
  <2>1. Dropped'
    BY <1>2 DEF Dropped
  <2> QED BY <1>1, <2>1 DEF PhaseInv
<1>3. CASE Claimed
  <2>1. Claimed'
    BY <1>3 DEF Claimed
  <2> QED BY <1>1, <2>1 DEF PhaseInv
<1> QED BY <1>2, <1>3 DEF PhaseInv, Undecided, Completed, Abandoned, HandedOver

\* A future that is not connected is dropped.
LEMMA DiscardStep ==
  ASSUME FutureInv, DiscardFuture, UNCHANGED use
  PROVE  FutureInv'
<1> USE DEF FutureInv, FutureTypeOK, CallbackInv, FreedIf, Signals, States, None, dataVars, memVars, oVars,
        fVars, DiscardFuture
<1>1. FutureTypeOK' /\ CallbackInv'
  OBVIOUS
<1>2. CASE Undecided
  <2>1. Undecided'
    BY <1>2 DEF Undecided
  <2> QED BY <1>1, <2>1 DEF PhaseInv
<1>3. CASE Completed
  <2>1. Completed'
    BY <1>3 DEF Completed
  <2> QED BY <1>1, <2>1 DEF PhaseInv
<1> QED BY <1>2, <1>3 DEF PhaseInv, Dropped, Abandoned, HandedOver, Claimed

\* drop() loads state_.
LEMMA DropLoadStep ==
  ASSUME FutureInv, DropLoad, UNCHANGED use
  PROVE  FutureInv'
<1> USE DEF FutureInv, FutureTypeOK, CallbackInv, FreedIf, Signals, States, None, dataVars, memVars, oVars,
        fVars, DropLoad
<1>1. FutureTypeOK' /\ CallbackInv'
  OBVIOUS
<1>2. CASE Undecided
  <2>1. Undecided'
    BY <1>2 DEF Undecided
  <2> QED BY <1>1, <2>1 DEF PhaseInv
<1>3. CASE Completed
  <2>1. Completed'
    BY <1>3 DEF Completed
  <2> QED BY <1>1, <2>1 DEF PhaseInv
<1>4. CASE Abandoned
  <2>1. Abandoned'
    BY <1>4 DEF Abandoned
  <2> QED BY <1>1, <2>1 DEF PhaseInv
<1>5. CASE HandedOver
  <2>1. HandedOver'
    BY <1>5 DEF HandedOver
  <2> QED BY <1>1, <2>1 DEF PhaseInv
<1> QED BY <1>2, <1>3, <1>4, <1>5 DEF PhaseInv, Dropped, Claimed

\* drop()'s exchange fails only when the operation completed.
LEMMA DropExchangeStep ==
  ASSUME FutureInv, DropExchange, UNCHANGED use
  PROVE  FutureInv'
<1> USE DEF FutureInv, FutureTypeOK, CallbackInv, FreedIf, Signals, States, None, dataVars, memVars, oVars,
        fVars, DropExchange
<1>1. FutureTypeOK' /\ CallbackInv'
  OBVIOUS
<1>2. CASE Undecided
  <2>1. Dropped'
    BY <1>2 DEF Undecided, Dropped
  <2> QED BY <1>1, <2>1 DEF PhaseInv
<1>3. CASE Completed
  <2>1. Completed'
    BY <1>3 DEF Completed
  <2> QED BY <1>1, <2>1 DEF PhaseInv
<1> QED BY <1>2, <1>3 DEF PhaseInv, Dropped, Abandoned, HandedOver, Claimed

\* drop() deletes once the operation has set evt_.
LEMMA DropWaitStep ==
  ASSUME FutureInv, DropWait, UNCHANGED use
  PROVE  FutureInv'
<1> USE DEF FutureInv, FutureTypeOK, CallbackInv, FreedIf, Signals, States, None, dataVars, memVars, oVars,
        fVars, DropWait, Deleter
<1>1. FutureTypeOK' /\ CallbackInv'
  OBVIOUS
<1>2. CASE Completed
  <2>1. Completed'
    BY <1>2 DEF Completed
  <2> QED BY <1>1, <2>1 DEF PhaseInv
<1> QED BY <1>2 DEF PhaseInv, Undecided, Dropped, Abandoned, HandedOver, Claimed

\* The future is connected.
LEMMA ConnectStep ==
  ASSUME FutureInv, ConnectFuture, UNCHANGED use
  PROVE  FutureInv'
<1> USE DEF FutureInv, FutureTypeOK, CallbackInv, FreedIf, Signals, States, None, dataVars, memVars, oVars,
        fVars, ConnectFuture
<1>1. FutureTypeOK' /\ CallbackInv'
  OBVIOUS
<1>2. CASE Undecided
  <2>1. Undecided'
    BY <1>2 DEF Undecided
  <2> QED BY <1>1, <2>1 DEF PhaseInv
<1>3. CASE Completed
  <2>1. Completed'
    BY <1>3 DEF Completed
  <2> QED BY <1>1, <2>1 DEF PhaseInv
<1> QED BY <1>2, <1>3 DEF PhaseInv, Dropped, Abandoned, HandedOver, Claimed

\* A connected future is dropped unstarted.
LEMMA DiscardConnectedStep ==
  ASSUME FutureInv, DiscardConnected, UNCHANGED use
  PROVE  FutureInv'
<1> USE DEF FutureInv, FutureTypeOK, CallbackInv, FreedIf, Signals, States, None, dataVars, memVars, oVars,
        fVars, DiscardConnected, CallbackIdle
<1>1. FutureTypeOK' /\ CallbackInv'
  OBVIOUS
<1>2. CASE Undecided
  <2>1. Undecided'
    BY <1>2 DEF Undecided
  <2> QED BY <1>1, <2>1 DEF PhaseInv
<1>3. CASE Completed
  <2>1. Completed'
    BY <1>3 DEF Completed
  <2> QED BY <1>1, <2>1 DEF PhaseInv
<1>4. CASE Abandoned
  <2>1. Abandoned'
    BY <1>4 DEF Abandoned
  <2> QED BY <1>1, <2>1 DEF PhaseInv
<1>5. CASE HandedOver
  <2>1. HandedOver'
    BY <1>5 DEF HandedOver
  <2> QED BY <1>1, <2>1 DEF PhaseInv
<1> QED BY <1>2, <1>3, <1>4, <1>5 DEF PhaseInv, Dropped, Claimed

\* The future waits for evt_.
LEMMA StartFutureStep ==
  ASSUME FutureInv, StartFuture, UNCHANGED use
  PROVE  FutureInv'
<1> USE DEF FutureInv, FutureTypeOK, CallbackInv, FreedIf, Signals, States, None, dataVars, memVars, oVars,
        fVars, StartFuture
<1>1. FutureTypeOK' /\ CallbackInv'
  OBVIOUS
<1>2. CASE Undecided
  <2>1. Undecided'
    BY <1>2 DEF Undecided
  <2> QED BY <1>1, <2>1 DEF PhaseInv
<1>3. CASE Completed
  <2>1. Completed'
    BY <1>3 DEF Completed
  <2> QED BY <1>1, <2>1 DEF PhaseInv
<1>4. CASE Abandoned
  <2>1. Abandoned'
    BY <1>4 DEF Abandoned
  <2> QED BY <1>1, <2>1 DEF PhaseInv
<1>5. CASE HandedOver
  <2>1. HandedOver'
    BY <1>5 DEF HandedOver
  <2> QED BY <1>1, <2>1 DEF PhaseInv
<1> QED BY <1>2, <1>3, <1>4, <1>5 DEF PhaseInv, Dropped, Claimed

\* The future resumes, arms its guard and loads state_.
LEMMA ResumeStep ==
  ASSUME FutureInv, Resume, UNCHANGED use
  PROVE  FutureInv'
<1> USE DEF FutureInv, FutureTypeOK, CallbackInv, FreedIf, Signals, States, None, dataVars, memVars, oVars,
        fVars, Resume
<1>1. FutureTypeOK' /\ CallbackInv'
  OBVIOUS
<1>2. CASE Completed
  <2>1. Completed'
    BY <1>2 DEF Completed
  <2> QED BY <1>1, <2>1 DEF PhaseInv
<1>3. CASE Abandoned
  <2>1. Abandoned'
    BY <1>3 DEF Abandoned
  <2> QED BY <1>1, <2>1 DEF PhaseInv
<1>4. CASE HandedOver
  <2>1. HandedOver'
    BY <1>4 DEF HandedOver
  <2> QED BY <1>1, <2>1 DEF PhaseInv
<1> QED BY <1>2, <1>3, <1>4 DEF PhaseInv, Undecided, Dropped, Claimed

\* The abandoned future's exchange decides who deletes.
LEMMA ClaimStep ==
  ASSUME FutureInv, Claim, UNCHANGED use
  PROVE  FutureInv'
<1> USE DEF FutureInv, FutureTypeOK, CallbackInv, FreedIf, Signals, States, None, dataVars, memVars, oVars,
        fVars, Claim
<1>1. FutureTypeOK' /\ CallbackInv'
  <2>1. owns' \in BOOLEAN
    OBVIOUS
  <2> QED BY <2>1
<1>2. CASE Abandoned
  <2>1. Claimed'
    BY <1>2 DEF Abandoned, Claimed
  <2> QED BY <1>1, <2>1 DEF PhaseInv
<1>3. CASE HandedOver
  <2>1. HandedOver'
    BY <1>3 DEF HandedOver
  <2> QED BY <1>1, <2>1 DEF PhaseInv
<1> QED BY <1>2, <1>3 DEF PhaseInv, Undecided, Completed, Dropped, Claimed

\* The future takes the result.
LEMMA ResultStep ==
  ASSUME FutureInv, Result, UNCHANGED use
  PROVE  FutureInv'
<1> USE DEF FutureInv, FutureTypeOK, CallbackInv, FreedIf, Signals, States, None, dataVars, memVars, oVars,
        fVars, Result
<1>1. FutureTypeOK' /\ CallbackInv'
  OBVIOUS
<1>2. CASE Completed
  <2>1. Completed'
    BY <1>2 DEF Completed
  <2> QED BY <1>1, <2>1 DEF PhaseInv
<1>3. CASE HandedOver
  <2>1. HandedOver'
    BY <1>3 DEF HandedOver
  <2> QED BY <1>1, <2>1 DEF PhaseInv
<1>4. CASE Claimed
  <2>1. Claimed'
    BY <1>4 DEF Claimed
  <2> QED BY <1>1, <2>1 DEF PhaseInv
<1> QED BY <1>2, <1>3, <1>4 DEF PhaseInv, Undecided, Dropped, Abandoned

\* The guard deletes, if it is still armed.
LEMMA CleanupStep ==
  ASSUME FutureInv, Cleanup, UNCHANGED use
  PROVE  FutureInv'
<1> USE DEF FutureInv, FutureTypeOK, CallbackInv, FreedIf, Signals, States, None, dataVars, memVars, oVars,
        fVars, Cleanup, Deleter
<1>1. FutureTypeOK' /\ CallbackInv'
  OBVIOUS
<1>2. CASE Completed
  <2>1. Completed'
    BY <1>2 DEF Completed
  <2> QED BY <1>1, <2>1 DEF PhaseInv
<1>3. CASE HandedOver
  <2>1. HandedOver'
    BY <1>3 DEF HandedOver
  <2> QED BY <1>1, <2>1 DEF PhaseInv
<1>4. CASE Claimed
  <2>1. Claimed'
    BY <1>4 DEF Claimed
  <2> QED BY <1>1, <2>1 DEF PhaseInv
<1> QED BY <1>2, <1>3, <1>4 DEF PhaseInv, Undecided, Dropped, Abandoned

\* The future's operation state goes, and with it the stop callback.
LEMMA DestroyFutureStep ==
  ASSUME FutureInv, DestroyFuture, UNCHANGED use
  PROVE  FutureInv'
<1> USE DEF FutureInv, FutureTypeOK, CallbackInv, FreedIf, Signals, States, None, dataVars, memVars, oVars,
        fVars, DestroyFuture, CallbackIdle
<1>1. FutureTypeOK' /\ CallbackInv'
  OBVIOUS
<1>2. CASE Completed
  <2>1. Completed'
    BY <1>2 DEF Completed
  <2> QED BY <1>1, <2>1 DEF PhaseInv
<1>3. CASE HandedOver
  <2>1. HandedOver'
    BY <1>3 DEF HandedOver
  <2> QED BY <1>1, <2>1 DEF PhaseInv
<1>4. CASE Claimed
  <2>1. Claimed'
    BY <1>4 DEF Claimed
  <2> QED BY <1>1, <2>1 DEF PhaseInv
<1> QED BY <1>2, <1>3, <1>4 DEF PhaseInv, Undecided, Dropped, Abandoned

\* A stop request runs the callback.
LEMMA StopRequestedStep ==
  ASSUME FutureInv, StopRequested, UNCHANGED use
  PROVE  FutureInv'
<1> USE DEF FutureInv, FutureTypeOK, CallbackInv, FreedIf, Signals, States, None, dataVars, memVars, oVars,
        fVars, StopRequested
<1>1. FutureTypeOK' /\ CallbackInv'
  OBVIOUS
<1>2. CASE Undecided
  <2>1. Undecided'
    BY <1>2 DEF Undecided
  <2> QED BY <1>1, <2>1 DEF PhaseInv
<1>3. CASE Completed
  <2>1. Completed'
    BY <1>3 DEF Completed
  <2> QED BY <1>1, <2>1 DEF PhaseInv
<1> QED BY <1>2, <1>3 DEF PhaseInv, Dropped, Abandoned, HandedOver, Claimed

\* abandon()'s exchange fails when the operation has completed.
LEMMA AbandonStep ==
  ASSUME FutureInv, Abandon, UNCHANGED use
  PROVE  FutureInv'
<1> USE DEF FutureInv, FutureTypeOK, CallbackInv, FreedIf, Signals, States, None, dataVars, memVars, oVars,
        fVars, Abandon
<1>1. FutureTypeOK' /\ CallbackInv'
  OBVIOUS
<1>2. CASE Undecided
  <2>1. Abandoned'
    BY <1>2 DEF Undecided, Abandoned
  <2> QED BY <1>1, <2>1 DEF PhaseInv
<1>3. CASE Completed
  <2>1. Completed'
    BY <1>3 DEF Completed
  <2> QED BY <1>1, <2>1 DEF PhaseInv
<1> QED BY <1>2, <1>3 DEF PhaseInv, Dropped, Abandoned, HandedOver, Claimed

\* abandon() wakes the future.
LEMMA AbandonPublishStep ==
  ASSUME FutureInv, AbandonPublish, UNCHANGED use
  PROVE  FutureInv'
<1> USE DEF FutureInv, FutureTypeOK, CallbackInv, FreedIf, Signals, States, None, dataVars, memVars, oVars,
        fVars, AbandonPublish
<1>1. FutureTypeOK' /\ CallbackInv'
  OBVIOUS
<1>2. CASE Abandoned
  <2>1. Abandoned'
    BY <1>2 DEF Abandoned
  <2> QED BY <1>1, <2>1 DEF PhaseInv
<1>3. CASE HandedOver
  <2>1. HandedOver'
    BY <1>3 DEF HandedOver
  <2> QED BY <1>1, <2>1 DEF PhaseInv
<1> QED BY <1>2, <1>3 DEF PhaseInv, Undecided, Completed, Dropped, Claimed

-----------------------------------------------------------------------------
\* Every step keeps the invariant.
LEMMA NextFutureInv == FutureInv /\ [FutureNext]_futureVars => FutureInv'
<1> SUFFICES ASSUME FutureInv, [FutureNext]_futureVars PROVE FutureInv'
  OBVIOUS
<1>1. CASE OStep /\ UNCHANGED use
  BY <1>1, StartOperationStep, InitThrowsStep, InitCatchStep, CompleteStep, StoreStep,
     DestructOpStep, SetEvtStep, NegotiateDeletionStep, HandOverStep, OperationDeletesStep
     DEF OStep
<1>2. CASE FStep /\ UNCHANGED use
  BY <1>2, DropLoadStep, DropExchangeStep, DropWaitStep, ResumeStep, ClaimStep, ResultStep,
     CleanupStep, DestroyFutureStep DEF FStep
<1>3. CASE FCall /\ UNCHANGED use
  BY <1>3, DiscardStep, ConnectStep, DiscardConnectedStep, StartFutureStep DEF FCall
<1>4. CASE (StopRequested \/ SStep) /\ UNCHANGED use
  BY <1>4, StopRequestedStep, AbandonStep, AbandonPublishStep DEF SStep
<1>5. CASE UNCHANGED futureVars
  <2> USE <1>5 DEF futureVars, dataVars, memVars, oVars, fVars
  <2>1. FutureTypeOK' /\ CallbackInv'
    BY DEF FutureInv, FutureTypeOK, CallbackInv
  <2>2. PhaseInv'
    BY DEF FutureInv, PhaseInv, FreedIf, Undecided, Completed, Dropped, Abandoned, HandedOver,
       Claimed
  <2> QED BY <2>1, <2>2 DEF FutureInv
<1> QED BY <1>1, <1>2, <1>3, <1>4, <1>5 DEF FutureNext

\* The phases describe every state that the three parties can reach.
THEOREM FutureInvariance == FutureSpec => []FutureInv
<1>1. FutureInit => FutureInv
  <2> USE DEF FutureInit, Signals, States, None
  <2>1. FutureInit => FutureTypeOK /\ CallbackInv
    <3>1. FutureInit => evt_ \in BOOLEAN /\ nested \in BOOLEAN /\ owns \in BOOLEAN
      OBVIOUS
    <3> QED BY <3>1 DEF FutureTypeOK, CallbackInv
  <2>2. FutureInit => Undecided
    BY DEF Undecided, FreedIf
  <2> QED BY <2>1, <2>2 DEF FutureInv, PhaseInv
<1> QED BY <1>1, NextFutureInv, PTL DEF FutureSpec

\* The operation state is deleted once at most, by the last of the operation and
\* the future to use it, and without leaking what it holds.
THEOREM LastUserDeletes == FutureSpec => []DeletedByTheLastUser
<1>1. FutureInv => DeletedByTheLastUser
  <2> SUFFICES ASSUME FutureInv PROVE DeletedByTheLastUser
    OBVIOUS
  <2> USE DEF FutureInv, FutureTypeOK, DeletedByTheLastUser, OUses, FUses, FreedIf
  <2>1. CASE Undecided \/ Abandoned
    BY <2>1 DEF Undecided, Abandoned
  <2>2. CASE Completed
    BY <2>2 DEF Completed
  <2>3. CASE Dropped
    BY <2>3 DEF Dropped
  <2>4. CASE HandedOver
    BY <2>4 DEF HandedOver
  <2>5. CASE Claimed
    BY <2>5 DEF Claimed
  <2> QED BY <2>1, <2>2, <2>3, <2>4, <2>5 DEF PhaseInv
<1> QED BY <1>1, FutureInvariance, PTL

\* When storing does not throw, deleter() is called with the current state; when
\* every connected future is started, drop() finds only states it handles.
THEOREM AssertionsHold == FutureSpec => []AssertionsHoldInPlainUse
<1>1. FutureInv => AssertionsHoldInPlainUse
  BY DEF FutureInv, PhaseInv, Undecided, Completed, Dropped, Abandoned, HandedOver, Claimed, FreedIf,
     AssertionsHoldInPlainUse, DeleterKnowsState, DropNeverTerminates
<1> QED BY <1>1, FutureInvariance, PTL

\* The future completes with the operation's result, or with done if it was
\* abandoned before there was one.
THEOREM ResultIsDelivered == FutureSpec => []DeliversWhatWasProduced
<1>1. FutureInv => DeliversWhatWasProduced
  BY DEF FutureInv, PhaseInv, Undecided, Completed, Dropped, Abandoned, HandedOver, Claimed,
     DeliversWhatWasProduced, Signals, None
<1> QED BY <1>1, FutureInvariance, PTL
=============================================================================
