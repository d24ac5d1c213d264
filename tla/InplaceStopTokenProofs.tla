------------------------ MODULE InplaceStopTokenProofs ------------------------
(***************************************************************************)
(* Proofs about InplaceStopToken, for any set of threads and callbacks.    *)
(*                                                                         *)
(* IInv is inductive: LockInv makes the critical sections exclusive, which *)
(* ListWellFormed rests on; NotifierInv says there is one notifying thread *)
(* and that remove_callback() recognises it; CallInv and CallbackInv tie   *)
(* every object to the one constructor or destructor working on it; RunInv *)
(* follows the callback that request_stop() has taken off the list.        *)
(***************************************************************************)
EXTENDS InplaceStopToken, Integers, TLAPS

\* A new stop source satisfies the invariant.
LEMMA InitIInv == Init => IInv
BY StopTokenAssumption
   DEF Init, IInv, TypeOK, Flags, LockInv, LockExclusion, Holds, NotifierInv, Notifying,
       CallInv, ListWellFormed, Linked, CallbackInv, RunInv

(* One lemma per action: the action preserves each part of the invariant. *)

\* The call of request_stop() preserves the invariant.
LEMMA RequestStopIInv ==
  ASSUME IInv, NEW t \in Threads, RequestStop(t)
  PROVE  IInv'
<1>1. TypeOK'
  BY DEF RequestStop, IInv, TypeOK, Flags, listVars, cbVars, opVars
<1>2. LockInv'
  BY DEF RequestStop, IInv, LockInv, LockExclusion, Holds, listVars, cbVars, opVars
<1>3. NotifierInv'
  BY DEF RequestStop, IInv, NotifierInv, Notifying, listVars, cbVars, opVars
<1>4. CallInv'
  BY DEF RequestStop, IInv, CallInv, listVars, cbVars, opVars
<1>5. ListWellFormed'
  BY DEF RequestStop, IInv, ListWellFormed, Linked, listVars, cbVars, opVars
<1>6. CallbackInv'
  BY DEF RequestStop, IInv, CallbackInv, Linked, listVars, cbVars, opVars
<1>7. RunInv'
  BY DEF RequestStop, IInv, RunInv, listVars, cbVars, opVars
<1> QED BY <1>1, <1>2, <1>3, <1>4, <1>5, <1>6, <1>7 DEF IInv

\* request_stop() taking the lock and the stop bit, or finding stop requested, preserves the invariant.
LEMMA RequestStopLockIInv ==
  ASSUME IInv, NEW t \in Threads, RequestStopLock(t)
  PROVE  IInv'
<1>1. TypeOK'
  <2> USE DEF IInv, TypeOK, RequestStopLock, listVars, cbVars, opVars
  <2>1. state' \in SUBSET Flags
    BY DEF TryLock, StopAlreadyRequested, Flags
  <2> QED BY <2>1
<1>2. LockInv'
  <2> USE DEF IInv, TypeOK, RequestStopLock, opVars, LockInv
  <2>1. CASE StopAlreadyRequested
    BY <2>1 DEF StopAlreadyRequested, TryLock, LockExclusion, Holds
  <2>2. CASE TryLock({"stop", "locked"})
    <3>1. \A u \in Threads : ~Holds(u)
      BY <2>2 DEF TryLock, LockExclusion
    <3>2. "locked" \in state' /\ Holds(t)'
      BY <2>2 DEF TryLock, StopAlreadyRequested, Holds
    <3>3. LockExclusion'
      BY <3>1, <3>2 DEF LockExclusion, Holds
    <3> QED BY <3>1, <3>3 DEF Holds
  <2> QED BY <2>1, <2>2
<1>3. NotifierInv'
  BY StopTokenAssumption, SMTT(30) DEF RequestStopLock, TryLock, StopAlreadyRequested, IInv,
     NotifierInv, Notifying, TypeOK, Flags, listVars, cbVars, opVars
<1>4. CallInv'
  BY SMTT(30) DEF RequestStopLock, TryLock, StopAlreadyRequested, IInv, CallInv,
     NotifierInv, Notifying, listVars, cbVars, opVars
<1>5. ListWellFormed'
  BY DEF RequestStopLock, IInv, ListWellFormed, Linked, listVars, cbVars, opVars
<1>6. CallbackInv'
  BY SMTT(30) DEF RequestStopLock, TryLock, StopAlreadyRequested, IInv, CallbackInv, Linked,
     NotifierInv, Notifying, TypeOK, Flags, listVars, cbVars, opVars
<1>7. RunInv'
  BY SMTT(30) DEF RequestStopLock, IInv, RunInv, TypeOK, Flags, listVars, cbVars, opVars
<1> QED BY <1>1, <1>2, <1>3, <1>4, <1>5, <1>6, <1>7 DEF IInv

\* The loop of request_stop() taking a callback, or ending, preserves the invariant.
LEMMA RequestStopPopIInv ==
  ASSUME IInv, NEW t \in Threads, RequestStopPop(t)
  PROVE  IInv'
<1>1. TypeOK'
  <2> USE DEF IInv, TypeOK, RequestStopPop, listVars, cbVars, opVars
  <2>1. state' \in SUBSET Flags
    BY DEF Flags
  <2>2. CASE callbacks = Null
    BY <2>1, <2>2
  <2>3. CASE callbacks # Null
    BY <2>1, <2>3 DEF PopHead
  <2> QED BY <2>2, <2>3
<1>2. LockInv'
  BY SMTT(30) DEF RequestStopPop, IInv, LockInv, LockExclusion, Holds, TypeOK, Flags,
     listVars, cbVars, opVars
<1>3. NotifierInv'
  BY SMTT(30) DEF RequestStopPop, IInv, NotifierInv, Notifying, TypeOK, Flags, listVars,
     cbVars, opVars
<1>4. CallInv'
  BY StopTokenAssumption, SMTT(30) DEF RequestStopPop, PopHead, IInv, CallInv,
     ListWellFormed, Linked, TypeOK, Flags, listVars, cbVars, opVars
<1>5. ListWellFormed'
  BY StopTokenAssumption, SMTT(30) DEF RequestStopPop, PopHead, IInv, ListWellFormed,
     Linked, TypeOK, Flags, listVars, cbVars, opVars
<1>6. CallbackInv'
  BY StopTokenAssumption, SMTT(30) DEF RequestStopPop, PopHead, IInv, CallbackInv, Linked,
     NotifierInv, Notifying, ListWellFormed, TypeOK, Flags, listVars, cbVars, opVars
<1>7. RunInv'
  BY SMTT(30) DEF RequestStopPop, PopHead, IInv, RunInv, NotifierInv, Notifying,
     ListWellFormed, Linked, CallbackInv, TypeOK, Flags, listVars, cbVars, opVars
<1> QED BY <1>1, <1>2, <1>3, <1>4, <1>5, <1>6, <1>7 DEF IInv

\* request_stop() entering callback->execute() preserves the invariant.
LEMMA RequestStopExecuteIInv ==
  ASSUME IInv, NEW t \in Threads, RequestStopExecute(t)
  PROVE  IInv'
<1>1. TypeOK'
  BY SMTT(30) DEF RequestStopExecute, IInv, TypeOK, Flags, RunInv, listVars, opVars
<1>2. LockInv'
  BY DEF RequestStopExecute, IInv, LockInv, LockExclusion, Holds, listVars, opVars
<1>3. NotifierInv'
  BY DEF RequestStopExecute, IInv, NotifierInv, Notifying, listVars, opVars
<1>4. CallInv'
  BY SMTT(30) DEF RequestStopExecute, IInv, CallInv, RunInv, listVars, opVars
<1>5. ListWellFormed'
  BY SMTT(30) DEF RequestStopExecute, IInv, ListWellFormed, Linked, RunInv, listVars, opVars
<1>6. CallbackInv'
  BY SMTT(30) DEF RequestStopExecute, IInv, CallbackInv, Linked, RunInv, TypeOK, Flags,
     listVars, opVars
<1>7. RunInv'
  BY SMTT(30) DEF RequestStopExecute, IInv, RunInv, NotifierInv, Notifying, TypeOK, Flags,
     listVars, opVars
<1> QED BY <1>1, <1>2, <1>3, <1>4, <1>5, <1>6, <1>7 DEF IInv

\* The end of a callback that request_stop() runs preserves the invariant.
LEMMA CallbackReturnsIInv ==
  ASSUME IInv, NEW t \in Threads, CallbackReturns(t)
  PROVE  IInv'
<1>1. TypeOK'
  BY DEF CallbackReturns, IInv, TypeOK, Flags, listVars, opVars
<1>2. LockInv'
  BY DEF CallbackReturns, IInv, LockInv, LockExclusion, Holds, listVars, opVars
<1>3. NotifierInv'
  BY DEF CallbackReturns, IInv, NotifierInv, Notifying, listVars, opVars
<1>4. CallInv'
  BY DEF CallbackReturns, IInv, CallInv, listVars, opVars
<1>5. ListWellFormed'
  BY DEF CallbackReturns, IInv, ListWellFormed, Linked, listVars, opVars
<1>6. CallbackInv'
  BY SMTT(30) DEF CallbackReturns, IInv, CallbackInv, Linked, TypeOK, Flags, listVars,
     opVars
<1>7. RunInv'
  BY DEF CallbackReturns, IInv, RunInv, listVars, opVars
<1> QED BY <1>1, <1>2, <1>3, <1>4, <1>5, <1>6, <1>7 DEF IInv

\* request_stop() publishing callbackCompleted_ preserves the invariant.
LEMMA RequestStopPublishIInv ==
  ASSUME IInv, NEW t \in Threads, RequestStopPublish(t)
  PROVE  IInv'
<1>1. TypeOK'
  <2> USE DEF IInv, TypeOK, RequestStopPublish, listVars, opVars
  <2>1. cur[t] \in Callbacks
    BY DEF RunInv
  <2>2. completed' \in [Callbacks -> BOOLEAN]
    BY <2>1, Zenon
  <2> QED BY <2>1, <2>2
<1>2. LockInv'
  BY DEF RequestStopPublish, IInv, LockInv, LockExclusion, Holds, listVars, opVars
<1>3. NotifierInv'
  BY DEF RequestStopPublish, IInv, NotifierInv, Notifying, listVars, opVars
<1>4. CallInv'
  BY DEF RequestStopPublish, IInv, CallInv, listVars, opVars
<1>5. ListWellFormed'
  BY DEF RequestStopPublish, IInv, ListWellFormed, Linked, listVars, opVars
<1>6. CallbackInv'
  BY SMTT(30) DEF RequestStopPublish, IInv, CallbackInv, Linked, RunInv, TypeOK, Flags,
     listVars, opVars
<1>7. RunInv'
  BY SMTT(30) DEF RequestStopPublish, IInv, RunInv, NotifierInv, Notifying, TypeOK, Flags,
     listVars, opVars
<1> QED BY <1>1, <1>2, <1>3, <1>4, <1>5, <1>6, <1>7 DEF IInv

\* request_stop() taking the lock again preserves the invariant.
LEMMA RequestStopRelockIInv ==
  ASSUME IInv, NEW t \in Threads, RequestStopRelock(t)
  PROVE  IInv'
<1>1. TypeOK'
  BY SMTT(30) DEF RequestStopRelock, Lock, IInv, TypeOK, Flags, listVars, cbVars, opVars
<1>2. LockInv'
  BY SMTT(30) DEF RequestStopRelock, Lock, IInv, LockInv, LockExclusion, Holds, TypeOK,
     Flags, listVars, cbVars, opVars
<1>3. NotifierInv'
  BY SMTT(30) DEF RequestStopRelock, Lock, IInv, NotifierInv, Notifying, listVars, cbVars,
     opVars
<1>4. CallInv'
  BY DEF RequestStopRelock, IInv, CallInv, listVars, cbVars, opVars
<1>5. ListWellFormed'
  BY DEF RequestStopRelock, IInv, ListWellFormed, Linked, listVars, cbVars, opVars
<1>6. CallbackInv'
  BY DEF RequestStopRelock, IInv, CallbackInv, Linked, listVars, cbVars, opVars
<1>7. RunInv'
  BY DEF RequestStopRelock, IInv, RunInv, listVars, cbVars, opVars
<1> QED BY <1>1, <1>2, <1>3, <1>4, <1>5, <1>6, <1>7 DEF IInv

\* The start of a constructor preserves the invariant.
LEMMA ConstructIInv ==
  ASSUME IInv, NEW t \in Threads, NEW c \in Callbacks, Construct(t, c)
  PROVE  IInv'
<1>1. TypeOK'
  BY DEF Construct, IInv, TypeOK, Flags, listVars, reqVars
<1>2. LockInv'
  BY SMTT(30) DEF Construct, MayCall, IInv, LockInv, LockExclusion, Holds, listVars, reqVars
<1>3. NotifierInv'
  BY DEF Construct, IInv, NotifierInv, Notifying, listVars, reqVars
<1>4. CallInv'
  BY SMTT(30) DEF Construct, IInv, CallInv, CallbackInv, Linked, TypeOK, Flags, listVars,
     reqVars
<1>5. ListWellFormed'
  BY DEF Construct, IInv, ListWellFormed, Linked, listVars, reqVars
<1>6. CallbackInv'
  BY SMTT(30) DEF Construct, MayCall, IInv, CallbackInv, Linked, listVars, reqVars
<1>7. RunInv'
  BY DEF Construct, IInv, RunInv, listVars, reqVars
<1> QED BY <1>1, <1>2, <1>3, <1>4, <1>5, <1>6, <1>7 DEF IInv

\* try_add_callback() taking the lock, or finding stop requested, preserves the invariant.
LEMMA AddLockIInv ==
  ASSUME IInv, NEW t \in Threads, AddLock(t)
  PROVE  IInv'
<1>1. TypeOK'
  <2> USE DEF IInv, TypeOK, AddLock, listVars, reqVars
  <2>1. state' \in SUBSET Flags
    BY DEF TryLock, StopAlreadyRequested, Flags
  <2>2. ocb[t] \in Callbacks
    BY DEF CallInv
  <2>3. ran' \in [Callbacks -> Nat] /\ runner' \in [Callbacks -> Threads \union {Null}]
    BY <2>2
  <2>4. source' \in [Callbacks -> BOOLEAN]
    BY <2>2, Zenon
  <2> QED BY <2>1, <2>3, <2>4
<1>2. LockInv'
  BY SMTT(30) DEF AddLock, TryLock, StopAlreadyRequested, IInv, LockInv, LockExclusion,
     Holds, TypeOK, Flags, listVars, reqVars
<1>3. NotifierInv'
  BY SMTT(30) DEF AddLock, TryLock, StopAlreadyRequested, IInv, NotifierInv, Notifying,
     listVars, reqVars
<1>4. CallInv'
  BY SMTT(30) DEF AddLock, IInv, CallInv, TypeOK, Flags, listVars, reqVars
<1>5. ListWellFormed'
  BY SMTT(30) DEF AddLock, IInv, ListWellFormed, Linked, CallInv, TypeOK, Flags, listVars,
     reqVars
<1>6. CallbackInv'
  BY SMTT(30) DEF AddLock, IInv, CallbackInv, Linked, CallInv, TypeOK, Flags, listVars,
     reqVars
<1>7. RunInv'
  BY SMTT(30) DEF AddLock, IInv, RunInv, CallInv, TypeOK, Flags, listVars, reqVars
<1> QED BY <1>1, <1>2, <1>3, <1>4, <1>5, <1>6, <1>7 DEF IInv

\* try_add_callback() linking the callback preserves the invariant.
LEMMA AddLinkIInv ==
  ASSUME IInv, NEW t \in Threads, AddLink(t)
  PROVE  IInv'
<1>1. TypeOK'
  BY SMTT(30) DEF AddLink, PushFront, IInv, TypeOK, Flags, CallInv, reqVars
<1>2. LockInv'
  BY SMTT(30) DEF AddLink, IInv, LockInv, LockExclusion, Holds, TypeOK, Flags, reqVars
<1>3. NotifierInv'
  BY SMTT(30) DEF AddLink, IInv, NotifierInv, Notifying, LockInv, LockExclusion, Holds,
     reqVars
<1>4. CallInv'
  BY SMTT(30) DEF AddLink, IInv, CallInv, LockInv, LockExclusion, Holds, NotifierInv,
     Notifying, TypeOK, Flags, reqVars
<1>5. ListWellFormed'
  BY StopTokenAssumption, SMTT(30) DEF AddLink, PushFront, IInv, ListWellFormed, Linked,
     CallInv, TypeOK, Flags, reqVars
<1>6. CallbackInv'
  BY StopTokenAssumption, SMTT(30) DEF AddLink, PushFront, IInv, CallbackInv, Linked,
     CallInv, ListWellFormed, TypeOK, Flags, reqVars
<1>7. RunInv'
  BY StopTokenAssumption, SMTT(30) DEF AddLink, IInv, RunInv, LockInv, LockExclusion, Holds,
     NotifierInv, Notifying, reqVars
<1> QED BY <1>1, <1>2, <1>3, <1>4, <1>5, <1>6, <1>7 DEF IInv

\* The end of a callback that its constructor runs preserves the invariant.
LEMMA InlineReturnsIInv ==
  ASSUME IInv, NEW t \in Threads, InlineReturns(t)
  PROVE  IInv'
<1>1. TypeOK'
  BY DEF InlineReturns, IInv, TypeOK, Flags, listVars, reqVars
<1>2. LockInv'
  BY DEF InlineReturns, IInv, LockInv, LockExclusion, Holds, listVars, reqVars
<1>3. NotifierInv'
  BY DEF InlineReturns, IInv, NotifierInv, Notifying, listVars, reqVars
<1>4. CallInv'
  BY SMTT(30) DEF InlineReturns, IInv, CallInv, TypeOK, Flags, listVars, reqVars
<1>5. ListWellFormed'
  BY SMTT(30) DEF InlineReturns, IInv, ListWellFormed, Linked, CallInv, CallbackInv,
     listVars, reqVars
<1>6. CallbackInv'
  BY SMTT(30) DEF InlineReturns, IInv, CallbackInv, Linked, CallInv, TypeOK, Flags,
     listVars, reqVars
<1>7. RunInv'
  BY SMTT(30) DEF InlineReturns, IInv, RunInv, CallInv, listVars, reqVars
<1> QED BY <1>1, <1>2, <1>3, <1>4, <1>5, <1>6, <1>7 DEF IInv

\* The start of a destructor preserves the invariant.
LEMMA DestroyIInv ==
  ASSUME IInv, NEW t \in Threads, NEW c \in Callbacks, Destroy(t, c)
  PROVE  IInv'
<1>1. TypeOK'
  BY DEF Destroy, IInv, TypeOK, Flags, listVars, reqVars
<1>2. LockInv'
  BY SMTT(30) DEF Destroy, MayCall, IInv, LockInv, LockExclusion, Holds, TypeOK, Flags,
     listVars, reqVars
<1>3. NotifierInv'
  BY DEF Destroy, IInv, NotifierInv, Notifying, listVars, reqVars
<1>4. CallInv'
  BY SMTT(30) DEF Destroy, MayCall, IInv, CallInv, TypeOK, Flags, listVars, reqVars
<1>5. ListWellFormed'
  BY SMTT(30) DEF Destroy, IInv, ListWellFormed, Linked, TypeOK, Flags, listVars, reqVars
<1>6. CallbackInv'
  BY SMTT(30) DEF Destroy, MayCall, IInv, CallbackInv, Linked, TypeOK, Flags, listVars,
     reqVars
<1>7. RunInv'
  BY SMTT(30) DEF Destroy, IInv, RunInv, TypeOK, Flags, listVars, reqVars
<1> QED BY <1>1, <1>2, <1>3, <1>4, <1>5, <1>6, <1>7 DEF IInv

\* remove_callback() taking the lock preserves the invariant.
LEMMA RemoveLockIInv ==
  ASSUME IInv, NEW t \in Threads, RemoveLock(t)
  PROVE  IInv'
<1>1. TypeOK'
  BY SMTT(30) DEF RemoveLock, Lock, IInv, TypeOK, Flags, listVars, cbVars, reqVars
<1>2. LockInv'
  BY SMTT(30) DEF RemoveLock, Lock, IInv, LockInv, LockExclusion, Holds, TypeOK, Flags,
     listVars, cbVars, reqVars
<1>3. NotifierInv'
  BY SMTT(30) DEF RemoveLock, Lock, IInv, NotifierInv, Notifying, listVars, cbVars, reqVars
<1>4. CallInv'
  BY DEF RemoveLock, IInv, CallInv, listVars, cbVars, reqVars
<1>5. ListWellFormed'
  BY DEF RemoveLock, IInv, ListWellFormed, Linked, listVars, cbVars, reqVars
<1>6. CallbackInv'
  BY DEF RemoveLock, IInv, CallbackInv, Linked, listVars, cbVars, reqVars
<1>7. RunInv'
  BY DEF RemoveLock, IInv, RunInv, listVars, cbVars, reqVars
<1> QED BY <1>1, <1>2, <1>3, <1>4, <1>5, <1>6, <1>7 DEF IInv

\* remove_callback() unlinking the callback, or finding it taken, preserves the invariant.
LEMMA RemoveIInv ==
  ASSUME IInv, NEW t \in Threads, Remove(t)
  PROVE  IInv'
<1>1. TypeOK'
  <2> USE DEF IInv, TypeOK, Remove, reqVars
  <2>1. ocb[t] \in Callbacks
    BY DEF CallInv
  <2>2. /\ callbacks' \in Callbacks \union {Null}
        /\ next' \in [Callbacks -> Callbacks \union {Null}]
        /\ prevPtr' \in [Callbacks -> Callbacks \union {Null, Head}]
    BY <2>1 DEF Unlink, listVars
  <2>3. life' \in [Callbacks -> {"none", "constructing", "alive", "destroying", "dead"}]
    BY <2>1
  <2>4. nid' \in [Threads -> Threads \union {Null}]
    OBVIOUS
  <2>5. opc' \in [Threads -> {"idle", "addlock", "link", "inline",
                              "rmlock", "remove", "rmcheck", "rmwait"}]
    OBVIOUS
  <2>6. state' \in SUBSET Flags
    OBVIOUS
  <2> QED BY <2>2, <2>3, <2>4, <2>5, <2>6
<1>2. LockInv'
  BY SMTT(30) DEF Remove, IInv, LockInv, LockExclusion, Holds, TypeOK, Flags, listVars,
     reqVars
<1>3. NotifierInv'
  BY SMTT(30) DEF Remove, IInv, NotifierInv, Notifying, LockInv, LockExclusion, Holds,
     listVars, reqVars
<1>4. CallInv'
  <2> USE DEF IInv, TypeOK, Remove, reqVars, CallInv
  <2>1. CASE prevPtr[ocb[t]] = Null
    <3>1. UNCHANGED <<listVars, life>> /\ notifyingThreadId # Null
      BY <2>1 DEF CallbackInv
    <3> QED BY <2>1, <3>1 DEF listVars
  <2>2. CASE prevPtr[ocb[t]] # Null
    <3>1. ASSUME NEW u \in Threads \ {t}, opc[u] \in {"rmcheck", "rmwait"}
          PROVE  prevPtr'[ocb[u]] = Null
      <4>1. Linked(ocb[t])
        BY <2>2 DEF Linked
      <4>2. ocb[u] # next[ocb[t]]
        BY <3>1, <4>1, StopTokenAssumption DEF ListWellFormed, Linked
      <4> QED BY <2>2, <3>1, <4>2 DEF Unlink
    <3> QED BY <2>2, <3>1
  <2> QED BY <2>1, <2>2
<1>5. ListWellFormed'
  BY StopTokenAssumption, SMTT(30) DEF Remove, Unlink, IInv, ListWellFormed, Linked,
     CallInv, TypeOK, Flags, listVars, reqVars
<1>6. CallbackInv'
  BY StopTokenAssumption, SMTT(30) DEF Remove, Unlink, IInv, CallbackInv, Linked, CallInv,
     ListWellFormed, TypeOK, Flags, listVars, reqVars
<1>7. RunInv'
  BY StopTokenAssumption, SMTT(30) DEF Remove, Unlink, IInv, RunInv, CallInv,
     ListWellFormed, Linked, TypeOK, Flags, listVars, reqVars
<1> QED BY <1>1, <1>2, <1>3, <1>4, <1>5, <1>6, <1>7 DEF IInv

\* remove_callback() comparing thread ids preserves the invariant.
LEMMA RemoveCheckThreadIInv ==
  ASSUME IInv, NEW t \in Threads, RemoveCheckThread(t)
  PROVE  IInv'
<1>1. TypeOK'
  BY StopTokenAssumption, SMTT(30) DEF RemoveCheckThread, IInv, TypeOK, Flags, CallInv,
     listVars
<1>2. LockInv'
  BY SMTT(30) DEF RemoveCheckThread, IInv, LockInv, LockExclusion, Holds, TypeOK, Flags,
     listVars
<1>3. NotifierInv'
  BY DEF RemoveCheckThread, IInv, NotifierInv, Notifying, listVars
<1>4. CallInv'
  BY SMTT(30) DEF RemoveCheckThread, IInv, CallInv, TypeOK, Flags, listVars
<1>5. ListWellFormed'
  BY SMTT(30) DEF RemoveCheckThread, IInv, ListWellFormed, Linked, CallInv, TypeOK, Flags,
     listVars
<1>6. CallbackInv'
  BY SMTT(30) DEF RemoveCheckThread, IInv, CallbackInv, Linked, TypeOK, Flags, listVars
<1>7. RunInv'
  BY SMTT(30) DEF RemoveCheckThread, IInv, RunInv, LockInv, LockExclusion, Holds,
     NotifierInv, Notifying, CallInv, CallbackInv, Linked, TypeOK, Flags, listVars
<1> QED BY <1>1, <1>2, <1>3, <1>4, <1>5, <1>6, <1>7 DEF IInv

\* The end of the spin of remove_callback() preserves the invariant.
LEMMA RemoveWaitIInv ==
  ASSUME IInv, NEW t \in Threads, RemoveWait(t)
  PROVE  IInv'
<1>1. TypeOK'
  BY DEF RemoveWait, IInv, TypeOK, Flags, listVars, reqVars
<1>2. LockInv'
  BY DEF RemoveWait, IInv, LockInv, LockExclusion, Holds, listVars, reqVars
<1>3. NotifierInv'
  BY DEF RemoveWait, IInv, NotifierInv, Notifying, listVars, reqVars
<1>4. CallInv'
  BY SMTT(30) DEF RemoveWait, IInv, CallInv, TypeOK, Flags, listVars, reqVars
<1>5. ListWellFormed'
  BY SMTT(30) DEF RemoveWait, IInv, ListWellFormed, Linked, CallbackInv, TypeOK, Flags,
     listVars, reqVars
<1>6. CallbackInv'
  BY DEF RemoveWait, IInv, CallbackInv, Linked, listVars, reqVars
<1>7. RunInv'
  BY DEF RemoveWait, IInv, RunInv, listVars, reqVars
<1> QED BY <1>1, <1>2, <1>3, <1>4, <1>5, <1>6, <1>7 DEF IInv

\* Every step of the specification preserves the invariant.
LEMMA NextIInv == IInv /\ [Next]_vars => IInv'
<1> SUFFICES ASSUME IInv, [Next]_vars PROVE IInv'
  OBVIOUS
<1>1. CASE Next
  <2>1. PICK t \in Threads : Step(t) \/ Call(t)
    BY <1>1 DEF Next
  <2>2. CASE Step(t)
    BY <2>2, RequestStopLockIInv, RequestStopPopIInv, RequestStopExecuteIInv,
       CallbackReturnsIInv, RequestStopPublishIInv, RequestStopRelockIInv, AddLockIInv,
       AddLinkIInv, InlineReturnsIInv, RemoveLockIInv, RemoveIInv,
       RemoveCheckThreadIInv, RemoveWaitIInv DEF Step
  <2>3. CASE Call(t)
    BY <2>3, RequestStopIInv, ConstructIInv, DestroyIInv DEF Call
  <2> QED BY <2>1, <2>2, <2>3
<1>2. CASE UNCHANGED vars
  BY <1>2 DEF vars, listVars, cbVars, reqVars, opVars, IInv, TypeOK, LockInv, LockExclusion, Holds,
     NotifierInv, Notifying, CallInv, ListWellFormed, Linked, CallbackInv, RunInv
<1> QED BY <1>1, <1>2

\* The invariant holds in every reachable state of inplace_stop_source.
THEOREM Invariance == Spec => []IInv
BY InitIInv, NextIInv, PTL DEF Spec

\* Every variable keeps its type.
THEOREM TypeCorrect == Spec => []TypeOK
<1>1. IInv => TypeOK BY DEF IInv
<1> QED BY <1>1, Invariance, PTL

\* The lock bit of state_ gives mutual exclusion to the critical sections of
\* request_stop(), try_add_callback() and remove_callback().
THEOREM LockIsExclusive == Spec => []LockExclusion
<1>1. IInv => LockExclusion BY DEF IInv, LockInv
<1> QED BY <1>1, Invariance, PTL

\* The list of callbacks stays well formed and leads only to live objects that
\* have not been run, for any number of callbacks.
THEOREM ListStaysWellFormed == Spec => []ListWellFormed
<1>1. IInv => ListWellFormed BY DEF IInv
<1> QED BY <1>1, Invariance, PTL

\* request_stop() never touches a callback whose destructor has returned.
THEOREM NotifierIsSafe == Spec => []NoUseAfterDestroy
<1>1. IInv => NoUseAfterDestroy BY DEF IInv, RunInv, NoUseAfterDestroy
<1> QED BY <1>1, Invariance, PTL

\* No callback is executed twice.
THEOREM ExecutedAtMostOnce == Spec => []RunsAtMostOnce
<1>1. IInv => RunsAtMostOnce BY DEF IInv, CallbackInv, RunsAtMostOnce
<1> QED BY <1>1, Invariance, PTL

\* The destructor of a callback never returns while the callback runs on
\* another thread: when it returns with the body running, it is the destructor
\* that the body itself has called.
THEOREM DestructorWaits == Spec => DestructorSynchronises
<1> DEFINE Promise(c) ==
      life[c] # "dead" /\ life'[c] = "dead" /\ runner[c] # Null
        => ocb[runner[c]] = c /\ opc[runner[c]] = "rmcheck" /\ opc'[runner[c]] = "idle"
<1>1. ASSUME IInv, [Next]_vars, NEW c \in Callbacks PROVE Promise(c)
  <2> SUFFICES ASSUME life[c] # "dead", life'[c] = "dead", runner[c] # Null
               PROVE  ocb[runner[c]] = c /\ opc[runner[c]] = "rmcheck" /\ opc'[runner[c]] = "idle"
    OBVIOUS
  <2>1. PICK t \in Threads : Step(t) \/ Call(t)
    BY <1>1 DEF Next, vars, cbVars
  <2>2. runner[c] \in Threads
    BY <1>1 DEF IInv, TypeOK
  <2>3. \/ rpc[runner[c]] = "body" /\ cur[runner[c]] = c
        \/ opc[runner[c]] = "inline" /\ ocb[runner[c]] = c
    BY <1>1, <2>2 DEF IInv, CallbackInv
  <2>4. \/ life[c] = "constructing"
        \/ /\ prevPtr[c] = Null /\ source[c] /\ ~completed[c]
           /\ runner[c] = notifyingThreadId
    BY <1>1, <2>2, <2>3 DEF IInv, CallInv, RunInv, NotifierInv, Notifying
  <2>5. CASE RemoveCheckThread(t)
    <3>1. c = ocb[t] /\ nid[t] = t /\ opc[t] = "rmcheck" /\ opc'[t] = "idle"
      BY <1>1, <2>5 DEF RemoveCheckThread, IInv, TypeOK
    <3>2. life[c] = "destroying" /\ nid[t] = notifyingThreadId
      BY <1>1, <3>1 DEF IInv, CallInv
    <3> QED BY <2>4, <3>1, <3>2
  <2>6. CASE RemoveWait(t)
    <3>1. c = ocb[t] /\ opc[t] = "rmwait" /\ completed[c]
      BY <1>1, <2>6 DEF RemoveWait, IInv, TypeOK
    <3>2. life[c] = "destroying"
      BY <1>1, <3>1 DEF IInv, CallInv
    <3> QED BY <2>4, <3>1, <3>2
  <2>7. CASE Remove(t)
    <3>1. c = ocb[t] /\ opc[t] = "remove" /\ prevPtr[c] # Null
      BY <1>1, <2>7 DEF Remove, IInv, TypeOK
    <3>2. life[c] = "destroying"
      BY <1>1, <3>1 DEF IInv, CallInv
    <3> QED BY <2>4, <3>1, <3>2
  <2>8. CASE \E d \in Callbacks : Destroy(t, d)
    <3>1. life[c] = "alive" /\ ~source[c]
      BY <1>1, <2>8 DEF Destroy, IInv, TypeOK
    <3> QED BY <2>4, <3>1
  <2>9. CASE \/ RequestStop(t) \/ RequestStopLock(t) \/ RequestStopPop(t)
            \/ RequestStopExecute(t) \/ CallbackReturns(t) \/ RequestStopPublish(t)
            \/ RequestStopRelock(t) \/ RemoveLock(t)
    BY <2>9 DEF RequestStop, RequestStopLock, RequestStopPop, RequestStopExecute,
       CallbackReturns, RequestStopPublish, RequestStopRelock, RemoveLock, listVars, cbVars
  <2>10. CASE \/ AddLock(t) \/ AddLink(t) \/ InlineReturns(t)
             \/ \E d \in Callbacks : Construct(t, d)
    BY <1>1, <2>10 DEF AddLock, AddLink, InlineReturns, Construct, listVars, cbVars, IInv, TypeOK
  <2> QED BY <2>1, <2>5, <2>6, <2>7, <2>8, <2>9, <2>10 DEF Step, Call
<1>2. IInv /\ [Next]_vars => [\A c \in Callbacks : Promise(c)]_vars
  BY <1>1
<1> HIDE DEF Promise
<1>3. [][\A c \in Callbacks : Promise(c)]_vars => DestructorSynchronises
  BY PTL DEF DestructorSynchronises, Promise
<1> QED BY <1>2, <1>3, Invariance, PTL DEF Spec

\* A stop request is never withdrawn, not even by an unlock() that stores a
\* state read earlier, and no callback enters the list after it.
THEOREM StopStays == Spec => StopIsFinal
<1> DEFINE Final == "stop" \in state =>
                      "stop" \in state' /\ \A c \in Callbacks : Linked(c)' => Linked(c)
<1>1. ASSUME IInv, [Next]_vars PROVE Final
  <2> SUFFICES ASSUME "stop" \in state
               PROVE  "stop" \in state' /\ \A c \in Callbacks : Linked(c)' => Linked(c)
    OBVIOUS
  <2>1. CASE UNCHANGED vars
    BY <2>1 DEF vars, listVars, cbVars, Linked
  <2>2. CASE Next
    <3>1. PICK t \in Threads : Step(t) \/ Call(t)
      BY <2>2 DEF Next
    <3>2. CASE \/ RequestStop(t) \/ RequestStopLock(t) \/ RequestStopExecute(t)
              \/ CallbackReturns(t) \/ RequestStopPublish(t) \/ RequestStopRelock(t)
              \/ RemoveLock(t)
      BY <3>2 DEF RequestStop, RequestStopLock, StopAlreadyRequested, TryLock, RequestStopExecute,
         CallbackReturns, RequestStopPublish, RequestStopRelock, RemoveLock, Lock, Linked,
         listVars, cbVars
    <3>3. CASE RequestStopPop(t)
      BY <1>1, <3>3, StopTokenAssumption DEF RequestStopPop, PopHead, IInv, TypeOK,
         ListWellFormed, Linked, listVars, cbVars
    <3>4. CASE \E c \in Callbacks : Construct(t, c) \/ Destroy(t, c)
      BY <1>1, <3>4 DEF Construct, Destroy, IInv, TypeOK, CallbackInv, Linked, listVars, cbVars
    <3>5. CASE AddLock(t)
      BY <1>1, <3>5 DEF AddLock, StopAlreadyRequested, TryLock, IInv, TypeOK, Linked, listVars, cbVars
    <3>6. CASE AddLink(t)
      BY <1>1, <3>6 DEF AddLink, IInv, LockInv
    <3>7. CASE InlineReturns(t)
      BY <1>1, <3>7 DEF InlineReturns, IInv, TypeOK, CallInv, CallbackInv, Linked, listVars, cbVars
    <3>8. CASE Remove(t)
      <4>1. "stop" \in state'
        BY <1>1, <3>8 DEF Remove, IInv, LockInv
      <4>2. \A c \in Callbacks : Linked(c)' => Linked(c)
        BY <1>1, <3>8, StopTokenAssumption, SMTT(30) DEF Remove, Unlink, IInv, TypeOK, CallInv,
           ListWellFormed, Linked, listVars, cbVars
      <4> QED BY <4>1, <4>2
    <3>9. CASE RemoveCheckThread(t) \/ RemoveWait(t)
      BY <1>1, <3>9 DEF RemoveCheckThread, RemoveWait, IInv, TypeOK, Linked, listVars, cbVars
    <3> QED BY <3>1, <3>2, <3>3, <3>4, <3>5, <3>6, <3>7, <3>8, <3>9 DEF Step, Call
  <2> QED BY <1>1, <2>1, <2>2
<1>2. IInv /\ [Next]_vars => [Final]_vars
  BY <1>1
<1> HIDE DEF Final
<1>3. [][Final]_vars => StopIsFinal
  BY PTL DEF StopIsFinal, Final
<1> QED BY <1>2, <1>3, Invariance, PTL DEF Spec

-----------------------------------------------------------------------------
(* No callback is missed: the list leads from callbacks_ to everything that *)
(* was linked, so request_stop(), which ends when it finds the list empty,  *)
(* leaves nothing behind.                                                   *)

\* Following next_ from callbacks_ passes f[1], ..., f[n] and ends; these are
\* the callbacks that are linked.
ListIs(n, f) ==
  /\ \A i, j \in 1..n : f[i] = f[j] => i = j
  /\ callbacks = IF n = 0 THEN Null ELSE f[1]
  /\ \A i \in 1..n : next[f[i]] = IF i = n THEN Null ELSE f[i + 1]
  /\ \A c \in Callbacks : Linked(c) <=> \E i \in 1..n : f[i] = c
IsList == \E n \in Nat : \E f \in [1..n -> Callbacks] : ListIs(n, f)

\* After a stop request the list is empty or somebody still empties it; a
\* callback is linked, has been run, or is about to be.
Taken(c) == \E t \in Threads : rpc[t] = "execute" /\ cur[t] = c
ReachInv ==
  /\ "stop" \in state => callbacks = Null \/ \E t \in Threads : Notifying(t)
  /\ \A c \in Callbacks : life[c] \in {"alive", "destroying"} => Linked(c) \/ ran[c] = 1 \/ Taken(c)
  /\ \A t \in Threads : opc[t] = "inline" => ran[ocb[t]] = 1

\* A step that leaves the fields of the list alone keeps it.
LEMMA ListKept ==
  ASSUME IsList, UNCHANGED listVars, \A c \in Callbacks : Linked(c)' <=> Linked(c)
  PROVE  IsList'
BY DEF IsList, ListIs, listVars

\* Taking the first callback off the list keeps it.
LEMMA ListPop ==
  ASSUME IInv, IsList, callbacks # Null, PopHead(callbacks), UNCHANGED life
  PROVE  IsList' /\ \A c \in Callbacks : Linked(c)' <=> Linked(c) /\ c # callbacks
<1>0. PICK n \in Nat : \E f \in [1..n -> Callbacks] : ListIs(n, f)
  BY DEF IsList
<1>1. PICK f \in [1..n -> Callbacks] : ListIs(n, f)
  BY <1>0
<1> DEFINE g == [i \in 1..(n - 1) |-> f[i + 1]]
<1>2. n - 1 \in Nat /\ callbacks = f[1] /\ callbacks \in Callbacks
  BY <1>1 DEF ListIs
<1>3. g \in [1..(n - 1) -> Callbacks]
  BY <1>2
<1>4. \A c \in Callbacks : Linked(c)' <=> Linked(c) /\ c # callbacks
  BY <1>2, StopTokenAssumption DEF PopHead, Linked, IInv, TypeOK, ListWellFormed
<1>5. ListIs(n - 1, g)'
  <2>1. \A i, j \in 1..(n - 1) : g[i] = g[j] => i = j
    BY <1>1, <1>2 DEF ListIs
  <2>2. callbacks' = IF n - 1 = 0 THEN Null ELSE g[1]
    BY <1>1, <1>2 DEF ListIs, PopHead
  <2>3. \A i \in 1..(n - 1) : next'[g[i]] = IF i = n - 1 THEN Null ELSE g[i + 1]
    BY <1>1, <1>2 DEF ListIs, PopHead
  <2>4. ASSUME NEW c \in Callbacks PROVE Linked(c)' <=> \E i \in 1..(n - 1) : g[i] = c
    <3>1. Linked(c) /\ c # callbacks <=> \E i \in 2..n : f[i] = c
      BY <1>1, <1>2 DEF ListIs
    <3>2. ASSUME NEW i \in 2..n PROVE i - 1 \in 1..(n - 1) /\ g[i - 1] = f[i]
      BY <1>2, <3>2
    <3>3. ASSUME NEW i \in 1..(n - 1) PROVE i + 1 \in 2..n /\ g[i] = f[i + 1]
      BY <1>2, <3>3
    <3> QED BY <1>4, <3>1, <3>2, <3>3
  <2> HIDE DEF g
  <2> QED BY <2>1, <2>2, <2>3, <2>4 DEF ListIs
<1> QED BY <1>2, <1>3, <1>4, <1>5 DEF IsList

\* Nothing is linked when callbacks_ is null.
LEMMA EmptyList ==
  ASSUME IsList, callbacks = Null
  PROVE  \A c \in Callbacks : ~Linked(c)
<1>1. PICK n \in Nat : \E f \in [1..n -> Callbacks] : ListIs(n, f)
  BY DEF IsList
<1>2. PICK f \in [1..n -> Callbacks] : ListIs(n, f)
  BY <1>1
<1>3. n = 0
  BY <1>2, StopTokenAssumption DEF ListIs
<1> QED BY <1>2, <1>3 DEF ListIs

\* Pushing a callback that is not linked keeps it.
LEMMA ListPush ==
  ASSUME IInv, IsList, NEW c \in Callbacks, life[c] = "constructing", PushFront(c),
         life' = [life EXCEPT ![c] = "alive"]
  PROVE  IsList' /\ \A d \in Callbacks : Linked(d)' <=> Linked(d) \/ d = c
<1>0. PICK n \in Nat : \E f \in [1..n -> Callbacks] : ListIs(n, f)
  BY DEF IsList
<1>1. PICK f \in [1..n -> Callbacks] : ListIs(n, f)
  BY <1>0
<1> DEFINE g == [i \in 1..(n + 1) |-> IF i = 1 THEN c ELSE f[i - 1]]
<1>2. n + 1 \in Nat /\ ~Linked(c) /\ \A i \in 1..n : f[i] # c
  BY <1>1 DEF Linked, ListIs
<1>3. g \in [1..(n + 1) -> Callbacks]
  BY <1>2
<1>4. \A d \in Callbacks : Linked(d)' <=> Linked(d) \/ d = c
  BY <1>2, StopTokenAssumption DEF PushFront, Linked, IInv, TypeOK, ListWellFormed
<1>5. ListIs(n + 1, g)'
  <2>1. \A i, j \in 1..(n + 1) : g[i] = g[j] => i = j
    BY <1>1, <1>2 DEF ListIs
  <2>2. callbacks' = IF n + 1 = 0 THEN Null ELSE g[1]
    BY <1>2 DEF PushFront
  <2>3. ASSUME NEW i \in 1..(n + 1)
        PROVE  next'[g[i]] = IF i = n + 1 THEN Null ELSE g[i + 1]
    <3>1. CASE i = 1
      BY <1>1, <1>2, <3>1 DEF ListIs, PushFront, IInv, TypeOK
    <3>2. CASE i # 1
      <4>1. i - 1 \in 1..n /\ g[i] = f[i - 1] /\ (i # n + 1 => g[i + 1] = f[i])
        BY <1>2, <3>2
      <4>2. next'[f[i - 1]] = next[f[i - 1]]
        BY <1>2, <4>1 DEF PushFront, IInv, TypeOK
      <4> HIDE DEF g
      <4> QED BY <1>1, <4>1, <4>2 DEF ListIs
    <3> QED BY <3>1, <3>2
  <2>4. ASSUME NEW d \in Callbacks PROVE Linked(d)' <=> \E i \in 1..(n + 1) : g[i] = d
    <3>1. ASSUME NEW i \in 1..n PROVE i + 1 \in 1..(n + 1) /\ g[i + 1] = f[i]
      BY <1>2, <3>1
    <3>2. ASSUME NEW i \in 1..(n + 1), i # 1 PROVE i - 1 \in 1..n /\ g[i] = f[i - 1]
      BY <1>2, <3>2
    <3>3. 1 \in 1..(n + 1) /\ g[1] = c
      BY <1>2
    <3>4. Linked(d) <=> \E i \in 1..n : f[i] = d
      BY <1>1 DEF ListIs
    <3> HIDE DEF g
    <3> QED BY <1>4, <3>1, <3>2, <3>3, <3>4
  <2> HIDE DEF g
  <2> QED BY <2>1, <2>2, <2>3, <2>4 DEF ListIs
<1> QED BY <1>2, <1>3, <1>4, <1>5 DEF IsList

\* Taking a linked callback out of its place keeps it.
LEMMA ListUnlink ==
  ASSUME IInv, IsList, NEW c \in Callbacks, Linked(c), Unlink(c),
         life' = [life EXCEPT ![c] = "dead"]
  PROVE  IsList' /\ \A d \in Callbacks : Linked(d)' <=> Linked(d) /\ d # c
<1>0. PICK n \in Nat : \E f \in [1..n -> Callbacks] : ListIs(n, f)
  BY DEF IsList
<1>1. PICK f \in [1..n -> Callbacks] : ListIs(n, f)
  BY <1>0
<1>2. PICK k \in 1..n : f[k] = c
  BY <1>1 DEF ListIs
<1> DEFINE g == [i \in 1..(n - 1) |-> IF i < k THEN f[i] ELSE f[i + 1]]
<1>3. n - 1 \in Nat /\ k \in Nat /\ next[c] = IF k = n THEN Null ELSE f[k + 1]
  BY <1>1, <1>2 DEF ListIs
<1>4. g \in [1..(n - 1) -> Callbacks]
  BY <1>3
<1>5. \A d \in Callbacks : Linked(d)' <=> Linked(d) /\ d # c
  BY StopTokenAssumption DEF Unlink, Linked, IInv, TypeOK, ListWellFormed
<1>6. prevPtr[c] = IF k = 1 THEN Head ELSE f[k - 1]
  <2>1. CASE k = 1
    BY <1>1, <1>2, <1>3, <2>1, StopTokenAssumption DEF ListIs, IInv, TypeOK, ListWellFormed
  <2>2. CASE k # 1
    <3>1. k - 1 \in 1..n /\ next[f[k - 1]] = c /\ Linked(f[k - 1])
      BY <1>1, <1>2, <1>3, <2>2 DEF ListIs
    <3> QED BY <2>2, <3>1, StopTokenAssumption DEF IInv, TypeOK, ListWellFormed
  <2> QED BY <2>1, <2>2
<1>7. ListIs(n - 1, g)'
  <2>1. ASSUME NEW i \in 1..(n - 1), NEW j \in 1..(n - 1), g[i] = g[j] PROVE i = j
    BY <1>1, <1>3, <2>1 DEF ListIs
  <2>2. callbacks' = IF n - 1 = 0 THEN Null ELSE g[1]
    BY <1>1, <1>2, <1>3, <1>6, StopTokenAssumption DEF ListIs, Unlink
  <2>3. ASSUME NEW i \in 1..(n - 1)
        PROVE  next'[g[i]] = IF i = n - 1 THEN Null ELSE g[i + 1]
    <3>1. CASE i < k - 1
      <4>1. i \in 1..n /\ i + 1 \in 1..n /\ i # n - 1 /\ g[i] = f[i] /\ g[i + 1] = f[i + 1]
        BY <1>3, <3>1
      <4> HIDE DEF g
      <4>2. k - 1 \in 1..n /\ k # 1 /\ i # k - 1
        BY <1>3, <3>1
      <4>3. f[i] # prevPtr[c]
        BY <1>1, <1>6, <4>1, <4>2 DEF ListIs
      <4>4. next'[f[i]] = next[f[i]]
        BY <4>1, <4>3 DEF Unlink
      <4> QED BY <1>1, <4>1, <4>4 DEF ListIs
    <3>2. CASE i = k - 1
      <4>1. i \in 1..n /\ g[i] = f[i] /\ f[i] = prevPtr[c] /\ (k # n => g[i + 1] = f[k + 1])
        BY <1>3, <1>6, <3>2
      <4>2. next'[f[i]] = next[c]
        BY <4>1 DEF Unlink
      <4> HIDE DEF g
      <4> QED BY <1>3, <3>2, <4>1, <4>2
    <3>3. CASE i >= k
      <4>1. i + 1 \in 1..n /\ g[i] = f[i + 1] /\ (i # n - 1 => g[i + 1] = f[i + 2])
        BY <1>3, <3>3
      <4> HIDE DEF g
      <4>2. k # 1 => k - 1 \in 1..n /\ i + 1 # k - 1
        BY <1>3, <3>3
      <4>3. f[i + 1] # prevPtr[c]
        BY <1>1, <1>6, <4>1, <4>2, StopTokenAssumption DEF ListIs
      <4>4. next'[f[i + 1]] = next[f[i + 1]]
        BY <4>1, <4>3 DEF Unlink
      <4> QED BY <1>1, <1>3, <4>1, <4>4 DEF ListIs
    <3> QED BY <1>3, <3>1, <3>2, <3>3
  <2>4. ASSUME NEW d \in Callbacks PROVE Linked(d)' <=> \E i \in 1..(n - 1) : g[i] = d
    <3>1. ASSUME NEW i \in 1..n, i < k PROVE i \in 1..(n - 1) /\ g[i] = f[i]
      BY <1>3, <3>1
    <3>2. ASSUME NEW i \in 1..n, i > k PROVE i - 1 \in 1..(n - 1) /\ g[i - 1] = f[i]
      BY <1>3, <3>2
    <3>3. ASSUME NEW i \in 1..(n - 1)
          PROVE  \E j \in 1..n : j # k /\ g[i] = f[j]
      <4>1. CASE i < k
        BY <1>3, <4>1
      <4>2. CASE i >= k
        <5>1. i + 1 \in 1..n /\ i + 1 # k /\ g[i] = f[i + 1]
          BY <1>3, <4>2
        <5> QED BY <5>1
      <4> QED BY <1>3, <4>1, <4>2
    <3>4. Linked(d) /\ d # c <=> \E i \in 1..n : i # k /\ f[i] = d
      BY <1>1, <1>2 DEF ListIs
    <3>5. \A i \in 1..n : i # k => i < k \/ i > k
      BY <1>3
    <3> HIDE DEF g
    <3> QED BY <1>5, <3>1, <3>2, <3>3, <3>4, <3>5
  <2> HIDE DEF g
  <2> QED BY <2>1, <2>2, <2>3, <2>4 DEF ListIs
<1> QED BY <1>3, <1>4, <1>5, <1>7 DEF IsList

\* What the list and a callback owe to a step that links or unlinks nothing and
\* takes nothing off the list.
LEMMA ReachKept ==
  ASSUME IsList, ReachInv, UNCHANGED listVars, \A c \in Callbacks : Linked(c)' <=> Linked(c),
         \A c \in Callbacks : life'[c] \in {"alive", "destroying"} =>
           life[c] \in {"alive", "destroying"} \/ ran'[c] = 1,
         \A c \in Callbacks : ran[c] = 1 => ran'[c] = 1,
         \A c \in Callbacks : Taken(c) => Taken(c)' \/ ran'[c] = 1,
         \A t \in Threads : Notifying(t) => Notifying(t)',
         "stop" \in state' => "stop" \in state \/ \E t \in Threads : Notifying(t)',
         \A t \in Threads : opc'[t] = "inline" => ran'[ocb'[t]] = 1
  PROVE  IsList' /\ ReachInv'
<1>1. IsList'
  BY ListKept
<1> QED BY <1>1 DEF ReachInv, listVars

\* The steps of request_stop() before and after the loop test.
LEMMA NotifierReach ==
  ASSUME IInv, IsList, ReachInv, NEW t \in Threads,
         \/ RequestStop(t) \/ RequestStopLock(t) \/ RequestStopExecute(t)
         \/ CallbackReturns(t) \/ RequestStopPublish(t) \/ RequestStopRelock(t)
  PROVE  IsList' /\ ReachInv'
<1> USE DEF IInv, TypeOK, listVars, cbVars, reqVars, opVars
<1>1. \A c \in Callbacks : Linked(c)' <=> Linked(c)
  BY DEF RequestStop, RequestStopLock, RequestStopExecute, CallbackReturns, RequestStopPublish,
     RequestStopRelock, Linked
<1>2. UNCHANGED listVars /\ UNCHANGED <<life, opc, ocb, cur>>
  BY DEF RequestStop, RequestStopLock, RequestStopExecute, CallbackReturns, RequestStopPublish,
     RequestStopRelock
<1>3. \A u \in Threads : Notifying(u) => Notifying(u)'
  BY DEF RequestStop, RequestStopLock, RequestStopExecute, CallbackReturns, RequestStopPublish,
     RequestStopRelock, Notifying
<1>4. "stop" \in state' => "stop" \in state \/ Notifying(t)'
  BY DEF RequestStop, RequestStopLock, StopAlreadyRequested, TryLock, RequestStopExecute, CallbackReturns,
     RequestStopPublish, RequestStopRelock, Lock, Notifying
<1>5. \A c \in Callbacks : /\ ran[c] = 1 => ran'[c] = 1
                           /\ Taken(c) => Taken(c)' \/ ran'[c] = 1
  <2>1. CASE RequestStopExecute(t)
    <3>1. cur[t] \in Callbacks /\ ran[cur[t]] = 0 /\ ran' = [ran EXCEPT ![cur[t]] = @ + 1]
      BY <2>1 DEF RequestStopExecute, RunInv
    <3>2. \A u \in Threads : rpc[u] = "execute" => u = t
      BY <2>1 DEF RequestStopExecute, NotifierInv, Notifying
    <3>3. ran'[cur[t]] = 1 /\ \A c \in Callbacks : c # cur[t] => ran'[c] = ran[c]
      BY <3>1
    <3> QED BY <3>1, <3>2, <3>3 DEF Taken
  <2>2. CASE ~RequestStopExecute(t)
    BY <1>2, <2>2 DEF RequestStop, RequestStopLock, CallbackReturns, RequestStopPublish,
       RequestStopRelock, Taken
  <2> QED BY <2>1, <2>2
<1>6. \A u \in Threads : opc'[u] = "inline" => ran'[ocb'[u]] = 1
  BY <1>2, <1>5 DEF ReachInv, CallInv
<1> QED BY <1>1, <1>2, <1>3, <1>4, <1>5, <1>6, ReachKept

\* The loop test: request_stop() ends when the list is empty, and otherwise is
\* about to run what it has taken.
LEMMA PopReach ==
  ASSUME IInv, IsList, ReachInv, NEW t \in Threads, RequestStopPop(t)
  PROVE  IsList' /\ ReachInv'
<1> USE DEF RequestStopPop, IInv, TypeOK, cbVars, opVars
<1>1. CASE callbacks = Null
  <2>1. UNCHANGED listVars /\ \A c \in Callbacks : Linked(c)' <=> Linked(c)
    BY <1>1, StopTokenAssumption DEF listVars, Linked
  <2>2. IsList'
    BY <2>1, ListKept
  <2>3. \A c \in Callbacks : Taken(c) => Taken(c)'
    BY <1>1, StopTokenAssumption DEF Taken
  <2> QED BY <1>1, <2>1, <2>2, <2>3, StopTokenAssumption DEF ReachInv, listVars
<1>2. CASE callbacks # Null
  <2>1. PICK d \in Callbacks : d = callbacks
    BY <1>2
  <2>2. IsList' /\ \A c \in Callbacks : Linked(c)' <=> Linked(c) /\ c # d
    BY <1>2, <2>1, ListPop
  <2>3. Notifying(t)' /\ Taken(d)'
    BY <1>2, <2>1 DEF Notifying, Taken
  <2>4. \A c \in Callbacks : Taken(c) => Taken(c)'
    BY <1>2 DEF Taken
  <2> QED BY <1>2, <2>2, <2>3, <2>4 DEF ReachInv
<1> QED BY <1>1, <1>2

\* The steps of a constructor or destructor that link and unlink nothing.
LEMMA CallReach ==
  ASSUME IInv, IsList, ReachInv, NEW t \in Threads,
         \/ \E c \in Callbacks : Construct(t, c) \/ Destroy(t, c)
         \/ InlineReturns(t) \/ RemoveLock(t) \/ RemoveCheckThread(t) \/ RemoveWait(t)
  PROVE  IsList' /\ ReachInv'
<1> USE DEF IInv, TypeOK, listVars, cbVars, reqVars, opVars
<1>1. UNCHANGED listVars /\ UNCHANGED <<ran, rpc, cur>>
  BY DEF Construct, Destroy, InlineReturns, RemoveLock, RemoveCheckThread, RemoveWait
<1>2. \A c \in Callbacks : Linked(c)' <=> Linked(c)
  BY DEF Construct, Destroy, InlineReturns, RemoveLock, RemoveCheckThread, RemoveWait, Linked,
     CallInv, CallbackInv, ListWellFormed
<1>3. \A c \in Callbacks : life'[c] \in {"alive", "destroying"} =>
         life[c] \in {"alive", "destroying"} \/ ran'[c] = 1
  BY <1>1 DEF Construct, Destroy, InlineReturns, RemoveLock, RemoveCheckThread, RemoveWait, CallInv, ReachInv
<1>4. /\ \A c \in Callbacks : Taken(c) => Taken(c)'
      /\ \A u \in Threads : Notifying(u) => Notifying(u)'
  BY <1>1 DEF Taken, Notifying
<1>5. "stop" \in state' => "stop" \in state
  BY DEF Construct, Destroy, InlineReturns, RemoveLock, Lock, RemoveCheckThread, RemoveWait
<1>6. \A u \in Threads : opc'[u] = "inline" => opc[u] = "inline" /\ ocb'[u] = ocb[u]
  BY DEF Construct, Destroy, MayCall, InlineReturns, RemoveLock, RemoveCheckThread, RemoveWait
<1>7. \A u \in Threads : opc'[u] = "inline" => ran'[ocb'[u]] = 1
  BY <1>1, <1>6 DEF ReachInv
<1> QED BY <1>1, <1>2, <1>3, <1>4, <1>5, <1>7, ReachKept

\* try_add_callback(): a callback that comes after the stop request runs inline.
LEMMA AddReach ==
  ASSUME IInv, IsList, ReachInv, NEW t \in Threads, AddLock(t) \/ AddLink(t)
  PROVE  IsList' /\ ReachInv'
<1> USE DEF IInv, TypeOK, reqVars
<1>1. ocb[t] \in Callbacks /\ life[ocb[t]] = "constructing" /\ ran[ocb[t]] = 0
  BY DEF AddLock, AddLink, CallInv
<1>2. UNCHANGED <<rpc, cur>>
  BY DEF AddLock, AddLink
<1>3. /\ \A c \in Callbacks : Taken(c) => Taken(c)'
      /\ \A u \in Threads : Notifying(u) => Notifying(u)'
  BY <1>2 DEF Taken, Notifying
<1>4. CASE AddLock(t)
  <2>1. UNCHANGED listVars /\ UNCHANGED <<life, ocb>>
    BY <1>4 DEF AddLock
  <2>2. \A c \in Callbacks : Linked(c)' <=> Linked(c)
    BY <2>1 DEF listVars, Linked
  <2>3. /\ \A c \in Callbacks : ran[c] = 1 => ran'[c] = 1
        /\ opc'[t] = "inline" => ran'[ocb[t]] = 1
    BY <1>1, <1>4 DEF AddLock
  <2>4. \A u \in Threads : opc'[u] = "inline" => ran'[ocb'[u]] = 1
    BY <1>4, <2>1, <2>3 DEF AddLock, ReachInv, CallInv
  <2>5. "stop" \in state' => "stop" \in state
    BY <1>4 DEF AddLock, TryLock, StopAlreadyRequested
  <2> QED BY <1>3, <2>1, <2>2, <2>3, <2>4, <2>5, ReachKept
<1>5. CASE AddLink(t)
  <2>1. IsList' /\ \A d \in Callbacks : Linked(d)' <=> Linked(d) \/ d = ocb[t]
    BY <1>1, <1>5, ListPush DEF AddLink
  <2> QED BY <1>1, <1>2, <1>3, <1>5, <2>1 DEF AddLink, ReachInv
<1> QED BY <1>4, <1>5

\* remove_callback() with the lock held.
LEMMA RemoveReach ==
  ASSUME IInv, IsList, ReachInv, NEW t \in Threads, Remove(t)
  PROVE  IsList' /\ ReachInv'
<1> USE DEF Remove, IInv, TypeOK, reqVars
<1>1. ocb[t] \in Callbacks /\ life[ocb[t]] = "destroying" /\ ("stop" \in state' => "stop" \in state)
  BY DEF CallInv, LockInv
<1>2. /\ \A c \in Callbacks : Taken(c) => Taken(c)'
      /\ \A u \in Threads : Notifying(u) => Notifying(u)'
  BY DEF Taken, Notifying
<1>3. CASE prevPtr[ocb[t]] = Null
  <2>1. UNCHANGED listVars /\ UNCHANGED <<life, ran>>
    BY <1>3
  <2>2. \A c \in Callbacks : Linked(c)' <=> Linked(c)
    BY <2>1 DEF listVars, Linked
  <2>3. \A u \in Threads : opc'[u] = "inline" => ran'[ocb'[u]] = 1
    BY <1>3 DEF ReachInv
  <2> QED BY <1>1, <1>2, <2>1, <2>2, <2>3, ReachKept
<1>4. CASE prevPtr[ocb[t]] # Null
  <2>1. /\ Linked(ocb[t]) /\ Unlink(ocb[t]) /\ life' = [life EXCEPT ![ocb[t]] = "dead"]
        /\ opc' = [opc EXCEPT ![t] = "idle"]
    BY <1>1, <1>4 DEF Linked
  <2>2. IsList' /\ \A d \in Callbacks : Linked(d)' <=> Linked(d) /\ d # ocb[t]
    BY <1>1, <2>1, ListUnlink
  <2>3. callbacks # Null
    BY <1>1, <2>1, EmptyList
  <2> QED BY <1>1, <1>2, <2>1, <2>2, <2>3 DEF ReachInv
<1> QED BY <1>3, <1>4

\* No callback is missed, in any behaviour.
LEMMA Reach == Spec => [](IsList /\ ReachInv)
<1>1. Init => IsList /\ ReachInv
  <2> SUFFICES ASSUME Init PROVE IsList /\ ReachInv
    OBVIOUS
  <2>1. \A c \in Callbacks : ~Linked(c)
    BY DEF Init, Linked
  <2>2. \A f \in [1..0 -> Callbacks] : ListIs(0, f)
    BY <2>1 DEF Init, ListIs
  <2>3. \E f \in [1..0 -> Callbacks] : TRUE
    <3>1. [i \in 1..0 |-> Null] \in [1..0 -> Callbacks]
      OBVIOUS
    <3> QED BY <3>1
  <2> QED BY <2>2, <2>3 DEF Init, IsList, ReachInv
<1>2. IInv /\ (IsList /\ ReachInv) /\ [Next]_vars => (IsList /\ ReachInv)'
  <2> SUFFICES ASSUME IInv, IsList, ReachInv, [Next]_vars PROVE IsList' /\ ReachInv'
    OBVIOUS
  <2>1. CASE Next
    BY <2>1, NotifierReach, PopReach, CallReach, AddReach, RemoveReach DEF Next, Step, Call
  <2>2. CASE UNCHANGED vars
    BY <2>2, ReachKept DEF vars, cbVars, reqVars, opVars, listVars, Linked, Taken, Notifying, ReachInv
  <2> QED BY <2>1, <2>2
<1> QED BY <1>1, <1>2, Invariance, PTL DEF Spec

\* When the winning request_stop() has returned, every callback that is there
\* has been run: no registration or removal that raced with it hid one.
THEOREM NoCallbackMissed == Spec => []StopReachesEveryCallback
<1>1. IsList /\ ReachInv => StopReachesEveryCallback
  BY EmptyList DEF ReachInv, StopReachesEveryCallback, Taken, Notifying
<1> QED BY <1>1, Reach, PTL

=============================================================================
