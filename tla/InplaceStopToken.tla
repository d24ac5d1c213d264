--------------------------- MODULE InplaceStopToken ---------------------------
(***************************************************************************)
(* inplace_stop_source / inplace_stop_callback                             *)
(* (include/unifex/inplace_stop_token.hpp, source/inplace_stop_token.cpp). *)
(*                                                                         *)
(* One stop source, shared by Threads that construct callbacks, destroy    *)
(* callbacks and request stop.  A thread runs at most one request_stop()   *)
(* (rpc) and one constructor or destructor (opc); while it is inside the   *)
(* body of a callback that request_stop() is executing it may start a      *)
(* constructor or destructor, of that callback or of another.              *)
(*                                                                         *)
(* Every access to state_ is a step of its own.  The fields that are only  *)
(* read and written with the lock bit held are changed in one step with    *)
(* the store that releases the lock: nobody can look in between.           *)
(***************************************************************************)
EXTENDS Naturals

CONSTANTS Threads, Callbacks, Null, Head

ASSUME StopTokenAssumption ==
  /\ Null \notin Threads /\ Null \notin Callbacks
  /\ Head \notin Callbacks /\ Head # Null

VARIABLES
  state,                 \* state_: the subset of {"stop", "locked"} that is set
  callbacks,             \* callbacks_: the head of the intrusive list
  next, prevPtr,         \* next_, prevPtr_ of each callback
  notifyingThreadId,     \* notifyingThreadId_
  completed,             \* callbackCompleted_ of each callback
  removedDuringCallback, \* removedDuringCallback_: whose local it points to
  life,                  \* lifetime of the callback object
  source,                \* FALSE once source_ was reset to nullptr
  ran, runner,           \* executions begun; the thread executing the body
  rpc, cur, removed,     \* request_stop(): pc, callback, the local bool
  opc, ocb, oldState, nid \* constructor/destructor: pc, callback, locals

listVars == <<callbacks, next, prevPtr>>
cbVars   == <<completed, removedDuringCallback, life, source, ran, runner>>
reqVars  == <<rpc, cur, removed>>
opVars   == <<opc, ocb, oldState, nid>>
vars     == <<state, listVars, notifyingThreadId, cbVars, reqVars, opVars>>

Flags == {"stop", "locked"}

Init ==
  /\ state = {} /\ callbacks = Null /\ notifyingThreadId = Null
  /\ next = [c \in Callbacks |-> Null]
  /\ prevPtr = [c \in Callbacks |-> Null]
  /\ completed = [c \in Callbacks |-> FALSE]
  /\ removedDuringCallback = [c \in Callbacks |-> Null]
  /\ life = [c \in Callbacks |-> "none"]
  /\ source = [c \in Callbacks |-> TRUE]
  /\ ran = [c \in Callbacks |-> 0]
  /\ runner = [c \in Callbacks |-> Null]
  /\ rpc = [t \in Threads |-> "idle"]
  /\ cur = [t \in Threads |-> Null]
  /\ removed = [t \in Threads |-> FALSE]
  /\ opc = [t \in Threads |-> "idle"]
  /\ ocb = [t \in Threads |-> Null]
  /\ oldState = [t \in Threads |-> {}]
  /\ nid = [t \in Threads |-> Null]

-----------------------------------------------------------------------------
(* Lock bit. *)

\* try_lock_unless_stop_requested(): the compare_exchange from 0.
TryLock(flags) == state = {} /\ state' = flags

\* try_lock_unless_stop_requested() finds the stop flag and returns false.
StopAlreadyRequested == "stop" \in state /\ UNCHANGED state

\* lock(): spins while the lock bit is set, then sets it.
Lock == "locked" \notin state /\ state' = state \union {"locked"}

-----------------------------------------------------------------------------
(* request_stop() *)

RequestStop(t) ==
  /\ rpc[t] = "idle" /\ opc[t] = "idle"
  /\ rpc' = [rpc EXCEPT ![t] = "trylock"]
  /\ UNCHANGED <<state, listVars, notifyingThreadId, cbVars, cur, removed, opVars>>

RequestStopLock(t) ==
  /\ rpc[t] = "trylock"
  /\ \/ /\ StopAlreadyRequested
        /\ rpc' = [rpc EXCEPT ![t] = "idle"]
        /\ UNCHANGED notifyingThreadId
     \/ /\ TryLock({"stop", "locked"})
        /\ notifyingThreadId' = t
        /\ rpc' = [rpc EXCEPT ![t] = "loop"]
  /\ UNCHANGED <<listVars, cbVars, cur, removed, opVars>>

\* Mutation of PopHead: callbacks_ is not advanced.
PopHead_KeepsHead(c) == prevPtr' = [prevPtr EXCEPT ![c] = Null] /\ UNCHANGED <<callbacks, next>>

\* The list as request_stop() leaves it when it takes the first callback.
PopHead(c) ==
  /\ callbacks' = next[c]
  /\ prevPtr' = [d \in Callbacks |-> IF d = c THEN Null
                                     ELSE IF d = next[c] THEN Head
                                     ELSE prevPtr[d]]
  /\ UNCHANGED next

\* The loop test with the lock held: take one callback, or leave the loop.
RequestStopPop(t) ==
  /\ rpc[t] = "loop"
  /\ state' = {"stop"}
  /\ \/ /\ callbacks = Null
        /\ rpc' = [rpc EXCEPT ![t] = "idle"]
        /\ UNCHANGED <<listVars, cur>>
     \/ /\ callbacks # Null
        /\ PopHead(callbacks)
        /\ cur' = [cur EXCEPT ![t] = callbacks]
        /\ rpc' = [rpc EXCEPT ![t] = "execute"]
  /\ UNCHANGED <<notifyingThreadId, cbVars, removed, opVars>>

RequestStopExecute(t) ==
  /\ rpc[t] = "execute"
  /\ removed' = [removed EXCEPT ![t] = FALSE]
  /\ removedDuringCallback' = [removedDuringCallback EXCEPT ![cur[t]] = t]
  /\ ran' = [ran EXCEPT ![cur[t]] = @ + 1]
  /\ runner' = [runner EXCEPT ![cur[t]] = t]
  /\ rpc' = [rpc EXCEPT ![t] = "body"]
  /\ UNCHANGED <<state, listVars, notifyingThreadId, completed, life, source, cur, opVars>>

\* The callback's body returns; nothing it started on this thread is pending.
CallbackReturns(t) ==
  /\ rpc[t] = "body" /\ opc[t] = "idle"
  /\ runner' = [runner EXCEPT ![cur[t]] = Null]
  /\ rpc' = [rpc EXCEPT ![t] = "executed"]
  /\ UNCHANGED <<state, listVars, notifyingThreadId, completed, removedDuringCallback,
                 life, source, ran, cur, removed, opVars>>

\* Mutation of RequestStopPublish: callbackCompleted_ is not stored.
RequestStopPublish_Forgets(t) ==
  /\ rpc[t] = "executed"
  /\ rpc' = [rpc EXCEPT ![t] = "relock"]
  /\ UNCHANGED <<state, listVars, notifyingThreadId, cbVars, cur, removed, opVars>>

\* Publish the completion unless the callback object is already gone.
RequestStopPublish(t) ==
  /\ rpc[t] = "executed"
  /\ \/ /\ ~removed[t]
        /\ removedDuringCallback' = [removedDuringCallback EXCEPT ![cur[t]] = Null]
        /\ completed' = [completed EXCEPT ![cur[t]] = TRUE]
     \/ /\ removed[t]
        /\ UNCHANGED <<removedDuringCallback, completed>>
  /\ rpc' = [rpc EXCEPT ![t] = "relock"]
  /\ UNCHANGED <<state, listVars, notifyingThreadId, life, source, ran, runner,
                 cur, removed, opVars>>

\* lock() before the next callback is taken off the list.
RequestStopRelock(t) ==
  /\ rpc[t] = "relock"
  /\ Lock
  /\ rpc' = [rpc EXCEPT ![t] = "loop"]
  /\ UNCHANGED <<listVars, notifyingThreadId, cbVars, cur, removed, opVars>>

-----------------------------------------------------------------------------
(* The constructor: register_callback() and try_add_callback(). *)

\* A thread may call a constructor or destructor when it is outside
\* request_stop() or inside a callback's body.
MayCall(t) == opc[t] = "idle" /\ rpc[t] \in {"idle", "body"}

Construct(t, c) ==
  /\ MayCall(t) /\ life[c] = "none"
  /\ life' = [life EXCEPT ![c] = "constructing"]
  /\ ocb' = [ocb EXCEPT ![t] = c]
  /\ opc' = [opc EXCEPT ![t] = "addlock"]
  /\ UNCHANGED <<state, listVars, notifyingThreadId, completed, removedDuringCallback,
                 source, ran, runner, reqVars, oldState, nid>>

\* Mutation of AddLock: the constructor does not run the callback itself.
AddLock_NotInline(t) ==
  /\ opc[t] = "addlock"
  /\ \/ /\ StopAlreadyRequested
        /\ source' = [source EXCEPT ![ocb[t]] = FALSE]
        /\ life' = [life EXCEPT ![ocb[t]] = "alive"]
        /\ opc' = [opc EXCEPT ![t] = "idle"]
     \/ /\ TryLock({"locked"})
        /\ opc' = [opc EXCEPT ![t] = "link"]
        /\ UNCHANGED <<source, life>>
  /\ UNCHANGED <<listVars, notifyingThreadId, completed, removedDuringCallback, ran, runner,
                 reqVars, ocb, oldState, nid>>

AddLock(t) ==
  /\ opc[t] = "addlock"
  /\ \/ /\ StopAlreadyRequested
        /\ source' = [source EXCEPT ![ocb[t]] = FALSE]
        /\ ran' = [ran EXCEPT ![ocb[t]] = @ + 1]
        /\ runner' = [runner EXCEPT ![ocb[t]] = t]
        /\ opc' = [opc EXCEPT ![t] = "inline"]
     \/ /\ TryLock({"locked"})
        /\ opc' = [opc EXCEPT ![t] = "link"]
        /\ UNCHANGED <<source, ran, runner>>
  /\ UNCHANGED <<listVars, notifyingThreadId, completed, removedDuringCallback, life,
                 reqVars, ocb, oldState, nid>>

\* The list with c pushed on its front.
PushFront(c) ==
  /\ next' = [next EXCEPT ![c] = callbacks]
  /\ prevPtr' = [d \in Callbacks |-> IF d = c THEN Head
                                     ELSE IF d = callbacks THEN c
                                     ELSE prevPtr[d]]
  /\ callbacks' = c

AddLink(t) ==
  /\ opc[t] = "link"
  /\ PushFront(ocb[t])
  /\ state' = {}
  /\ life' = [life EXCEPT ![ocb[t]] = "alive"]
  /\ opc' = [opc EXCEPT ![t] = "idle"]
  /\ UNCHANGED <<notifyingThreadId, completed, removedDuringCallback, source, ran, runner,
                 reqVars, ocb, oldState, nid>>

\* The body that the constructor executes inline returns.
InlineReturns(t) ==
  /\ opc[t] = "inline"
  /\ runner' = [runner EXCEPT ![ocb[t]] = Null]
  /\ life' = [life EXCEPT ![ocb[t]] = "alive"]
  /\ opc' = [opc EXCEPT ![t] = "idle"]
  /\ UNCHANGED <<state, listVars, notifyingThreadId, completed, removedDuringCallback,
                 source, ran, reqVars, ocb, oldState, nid>>

-----------------------------------------------------------------------------
(* The destructor: remove_callback(). *)

Destroy(t, c) ==
  /\ MayCall(t) /\ life[c] = "alive"
  /\ \/ /\ source[c]
        /\ life' = [life EXCEPT ![c] = "destroying"]
        /\ opc' = [opc EXCEPT ![t] = "rmlock"]
     \/ /\ ~source[c]
        /\ life' = [life EXCEPT ![c] = "dead"]
        /\ UNCHANGED opc
  /\ ocb' = [ocb EXCEPT ![t] = c]
  /\ UNCHANGED <<state, listVars, notifyingThreadId, completed, removedDuringCallback,
                 source, ran, runner, reqVars, oldState, nid>>

RemoveLock(t) ==
  /\ opc[t] = "rmlock"
  /\ Lock
  /\ oldState' = [oldState EXCEPT ![t] = state]
  /\ opc' = [opc EXCEPT ![t] = "remove"]
  /\ UNCHANGED <<listVars, notifyingThreadId, cbVars, reqVars, ocb, nid>>

\* The list with c taken out of the place prevPtr_ says it is in.
Unlink(c) ==
  LET p == prevPtr[c]  n == next[c] IN
  /\ callbacks' = IF p = Head THEN n ELSE callbacks
  /\ next' = [d \in Callbacks |-> IF d = p THEN n ELSE next[d]]
  /\ prevPtr' = [d \in Callbacks |-> IF d = n THEN p ELSE prevPtr[d]]

\* remove_callback() with the lock held, up to and including unlock(oldState).
Remove(t) ==
  /\ opc[t] = "remove"
  /\ state' = oldState[t]
  /\ \/ /\ prevPtr[ocb[t]] # Null
        /\ Unlink(ocb[t])
        /\ life' = [life EXCEPT ![ocb[t]] = "dead"]
        /\ opc' = [opc EXCEPT ![t] = "idle"]
        /\ UNCHANGED nid
     \/ /\ prevPtr[ocb[t]] = Null
        /\ nid' = [nid EXCEPT ![t] = notifyingThreadId]
        /\ opc' = [opc EXCEPT ![t] = "rmcheck"]
        /\ UNCHANGED <<listVars, life>>
  /\ UNCHANGED <<notifyingThreadId, completed, removedDuringCallback, source, ran, runner,
                 reqVars, ocb, oldState>>

\* Mutation of RemoveCheckThread: does not compare thread ids.
RemoveCheckThread_AnyThread(t) ==
  /\ opc[t] = "rmcheck"
  /\ removed' = [u \in Threads |-> removed[u] \/ u = removedDuringCallback[ocb[t]]]
  /\ life' = [life EXCEPT ![ocb[t]] = "dead"]
  /\ opc' = [opc EXCEPT ![t] = "idle"]
  /\ UNCHANGED <<state, listVars, notifyingThreadId, completed, removedDuringCallback,
                 source, ran, runner, rpc, cur, ocb, oldState, nid>>

\* The callback was taken by request_stop(): on this thread, or on another.
RemoveCheckThread(t) ==
  /\ opc[t] = "rmcheck"
  /\ \/ /\ nid[t] = t
        /\ removed' = [u \in Threads |-> removed[u] \/ u = removedDuringCallback[ocb[t]]]
        /\ life' = [life EXCEPT ![ocb[t]] = "dead"]
        /\ opc' = [opc EXCEPT ![t] = "idle"]
     \/ /\ nid[t] # t
        /\ opc' = [opc EXCEPT ![t] = "rmwait"]
        /\ UNCHANGED <<removed, life>>
  /\ UNCHANGED <<state, listVars, notifyingThreadId, completed, removedDuringCallback,
                 source, ran, runner, rpc, cur, ocb, oldState, nid>>

\* Mutation of RemoveWait: does not wait for callbackCompleted_.
RemoveWait_NoSpin(t) ==
  /\ opc[t] = "rmwait"
  /\ life' = [life EXCEPT ![ocb[t]] = "dead"]
  /\ opc' = [opc EXCEPT ![t] = "idle"]
  /\ UNCHANGED <<state, listVars, notifyingThreadId, completed, removedDuringCallback,
                 source, ran, runner, reqVars, ocb, oldState, nid>>

\* The spin on callbackCompleted_ ends.
RemoveWait(t) ==
  /\ opc[t] = "rmwait"
  /\ completed[ocb[t]]
  /\ life' = [life EXCEPT ![ocb[t]] = "dead"]
  /\ opc' = [opc EXCEPT ![t] = "idle"]
  /\ UNCHANGED <<state, listVars, notifyingThreadId, completed, removedDuringCallback,
                 source, ran, runner, reqVars, ocb, oldState, nid>>

-----------------------------------------------------------------------------
\* The steps of code that has been entered; the code itself never stops.
Step(t) ==
  \/ RequestStopLock(t) \/ RequestStopPop(t) \/ RequestStopExecute(t)
  \/ CallbackReturns(t) \/ RequestStopPublish(t) \/ RequestStopRelock(t)
  \/ AddLock(t) \/ AddLink(t) \/ InlineReturns(t)
  \/ RemoveLock(t) \/ Remove(t) \/ RemoveCheckThread(t) \/ RemoveWait(t)

\* The calls users of the stop source make.
Call(t) ==
  \/ RequestStop(t)
  \/ \E c \in Callbacks : Construct(t, c) \/ Destroy(t, c)

Next == \E t \in Threads : Step(t) \/ Call(t)

Spec == Init /\ [][Next]_vars

\* A callback's body returns after finitely many constructor and destructor
\* calls, and every thread keeps being scheduled.
Fairness == \A t \in Threads : WF_vars(Step(t))

FairSpec == Spec /\ Fairness

-----------------------------------------------------------------------------
Holds(t) == rpc[t] = "loop" \/ opc[t] \in {"link", "remove"}
Notifying(t) == rpc[t] \notin {"idle", "trylock"}
Linked(c) == prevPtr[c] # Null /\ life[c] \in {"alive", "destroying"}

\* The type of every variable.
TypeOK ==
  /\ state \in SUBSET Flags
  /\ callbacks \in Callbacks \union {Null}
  /\ next \in [Callbacks -> Callbacks \union {Null}]
  /\ prevPtr \in [Callbacks -> Callbacks \union {Null, Head}]
  /\ notifyingThreadId \in Threads \union {Null}
  /\ completed \in [Callbacks -> BOOLEAN]
  /\ removedDuringCallback \in [Callbacks -> Threads \union {Null}]
  /\ life \in [Callbacks -> {"none", "constructing", "alive", "destroying", "dead"}]
  /\ source \in [Callbacks -> BOOLEAN]
  /\ ran \in [Callbacks -> Nat]
  /\ runner \in [Callbacks -> Threads \union {Null}]
  /\ rpc \in [Threads -> {"idle", "trylock", "loop", "execute", "body", "executed", "relock"}]
  /\ cur \in [Threads -> Callbacks \union {Null}]
  /\ removed \in [Threads -> BOOLEAN]
  /\ opc \in [Threads -> {"idle", "addlock", "link", "inline", "rmlock", "remove", "rmcheck", "rmwait"}]
  /\ ocb \in [Threads -> Callbacks \union {Null}]
  /\ oldState \in [Threads -> SUBSET Flags]
  /\ nid \in [Threads -> Threads \union {Null}]

\* At most one thread is inside a region protected by the lock bit of state_,
\* and the bit is set exactly while one is: unlock() stores a state computed
\* before the critical section, which must never wipe out a stop request or
\* somebody else's lock.
LockExclusion ==
  /\ \A t, u \in Threads : Holds(t) /\ Holds(u) => t = u
  /\ "locked" \in state <=> \E t \in Threads : Holds(t)

\* The intrusive list: callbacks_, next_ and prevPtr_ agree, they lead only to
\* objects that still exist, and no callback in the list has been run.
ListWellFormed ==
  /\ callbacks # Null => Linked(callbacks) /\ prevPtr[callbacks] = Head
  /\ \A c \in Callbacks : Linked(c) =>
       /\ source[c] /\ ran[c] = 0
       /\ prevPtr[c] = Head => callbacks = c
       /\ prevPtr[c] # Head => Linked(prevPtr[c]) /\ next[prevPtr[c]] = c
       /\ next[c] # Null => Linked(next[c]) /\ prevPtr[next[c]] = c

\* request_stop() dereferences the callback it took before and after it runs
\* it: that object's destructor has not returned, unless the destructor ran
\* inside the body and told request_stop() so (removedDuringCallback).
NoUseAfterDestroy ==
  \A t \in Threads :
    rpc[t] \in {"execute", "executed"} /\ ~(rpc[t] = "executed" /\ removed[t])
      => life[cur[t]] \in {"alive", "destroying"}

\* The destructor's promise: it returns while the body is running only on the
\* thread that is inside that body, never on another one.
DestructorSynchronises ==
  [][ \A c \in Callbacks :
        life[c] # "dead" /\ life'[c] = "dead" /\ runner[c] # Null
          => ocb[runner[c]] = c /\ opc[runner[c]] = "rmcheck" /\ opc'[runner[c]] = "idle" ]_vars

\* No callback runs twice, whether by request_stop() or in its constructor.
RunsAtMostOnce == \A c \in Callbacks : ran[c] <= 1

\* When the winning request_stop() has returned, every callback that is
\* constructed and not being destroyed has been run: none was missed by a
\* registration or removal that raced with it.
StopReachesEveryCallback ==
  "stop" \in state /\ (\A t \in Threads : ~Notifying(t))
    => \A c \in Callbacks : life[c] = "alive" => ran[c] = 1

\* A stop request is never withdrawn, and no callback is registered after it.
StopIsFinal ==
  [][ "stop" \in state =>
        /\ "stop" \in state'
        /\ \A c \in Callbacks : Linked(c)' => Linked(c) ]_vars

\* request_stop(), the constructor and the destructor all return: the spin in
\* remove_callback() never waits for the thread it runs on.
CallsReturn ==
  \A t \in Threads :
    /\ opc[t] # "idle" ~> opc[t] = "idle"
    /\ rpc[t] # "idle" ~> rpc[t] = "idle"

-----------------------------------------------------------------------------
(* The inductive invariant, in parts. *)

\* What each critical section knows about state_.
LockInv ==
  /\ LockExclusion
  /\ \A t \in Threads :
       /\ opc[t] # "idle" => rpc[t] \in {"idle", "body"}
       /\ opc[t] = "link" => "stop" \notin state
       /\ opc[t] = "remove" =>
            /\ "locked" \notin oldState[t]
            /\ "stop" \in oldState[t] <=> "stop" \in state

\* The notifying thread is the one that requested stop first.
NotifierInv ==
  /\ notifyingThreadId # Null => "stop" \in state
  /\ \A t \in Threads : Notifying(t) => notifyingThreadId = t

\* Which object a constructor or destructor works on, and its state.
CallInv ==
  /\ \A t \in Threads :
       /\ opc[t] # "idle" => ocb[t] \in Callbacks
       /\ opc[t] \in {"addlock", "link", "inline"} => life[ocb[t]] = "constructing"
       /\ opc[t] \in {"addlock", "link"} => ran[ocb[t]] = 0 /\ source[ocb[t]]
       /\ opc[t] = "inline" => ~source[ocb[t]]
       /\ opc[t] \in {"rmlock", "remove", "rmcheck", "rmwait"}
            => life[ocb[t]] = "destroying" /\ source[ocb[t]]
       /\ opc[t] \in {"rmcheck", "rmwait"} => prevPtr[ocb[t]] = Null /\ notifyingThreadId # Null
       /\ opc[t] = "rmcheck" => nid[t] = notifyingThreadId
       /\ opc[t] = "rmwait"  => t # notifyingThreadId
  /\ \A t, u \in Threads :
       opc[t] # "idle" /\ opc[u] # "idle" /\ ocb[t] = ocb[u] => t = u

\* The fields of a callback at each point of its life.
CallbackInv ==
  \A c \in Callbacks :
    /\ ran[c] <= 1
    /\ life[c] = "none" => ran[c] = 0 /\ source[c]
    /\ life[c] \in {"none", "constructing"} =>
         prevPtr[c] = Null /\ ~completed[c] /\ removedDuringCallback[c] = Null
    /\ life[c] \in {"alive", "destroying"} /\ source[c] /\ prevPtr[c] = Null
         => notifyingThreadId # Null
    /\ Linked(c) => ~completed[c] /\ removedDuringCallback[c] = Null
    /\ removedDuringCallback[c] # Null /\ life[c] # "dead" =>
         /\ rpc[removedDuringCallback[c]] \in {"body", "executed"}
         /\ cur[removedDuringCallback[c]] = c
    /\ runner[c] # Null =>
         \/ rpc[runner[c]] = "body" /\ cur[runner[c]] = c
         \/ opc[runner[c]] = "inline" /\ ocb[runner[c]] = c

\* The callback that request_stop() is running, or about to.
RunInv ==
  \A t \in Threads :
    rpc[t] \in {"execute", "body", "executed"} =>
      /\ cur[t] \in Callbacks /\ prevPtr[cur[t]] = Null /\ source[cur[t]]
      /\ rpc[t] = "execute" => /\ ran[cur[t]] = 0 /\ ~completed[cur[t]]
                               /\ life[cur[t]] \in {"alive", "destroying"}
                               /\ removedDuringCallback[cur[t]] = Null
      /\ rpc[t] # "execute" /\ ~removed[t] =>
           /\ life[cur[t]] \in {"alive", "destroying"} /\ ~completed[cur[t]]
           /\ removedDuringCallback[cur[t]] = t
      /\ rpc[t] # "execute" /\ removed[t] => life[cur[t]] = "dead"

IInv == /\ TypeOK /\ LockInv /\ NotifierInv /\ CallInv
        /\ ListWellFormed /\ CallbackInv /\ RunInv

=============================================================================
