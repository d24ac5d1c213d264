---------------------------- MODULE AsyncMutexV1 ----------------------------
(***************************************************************************)
(* v1::async_mutex (include/unifex/v1/async_mutex.hpp,                     *)
(* source/async_mutex_v1.cpp) over detail/atomic_intrusive_queue.hpp.      *)
(*                                                                         *)
(* A waiter is a lock operation that is started, owns the lock, unlocks    *)
(* and may be started again at the same address.  head_ is Inactive or     *)
(* the chain of items, newest first: an item's next_ is the head_ that its *)
(* exchange replaced, so the chain grows by the item alone.  An exchange   *)
(* compares addresses (Top), not chains.  Every access to head_ is a step; *)
(* pendingQueue_ belongs to the owner of the lock.                         *)
(***************************************************************************)
EXTENDS Naturals, SequencesExt

CONSTANTS Waiters, Null, Inactive

ASSUME MutexAssumption ==
  /\ Null \notin Waiters /\ Inactive \notin Waiters \union {Null}

VARIABLES
  active,        \* head_ is not producer_inactive_value()
  items,         \* the chain of items from head_, newest first
  pendingQueue,  \* pendingQueue_, oldest first
  oldValue,      \* the local oldValue of each waiter's call
  pc

vars == <<active, items, pendingQueue, oldValue, pc>>

\* What head_ holds.
Top == IF ~active THEN Inactive ELSE IF items = <<>> THEN Null ELSE Head(items)

Init ==
  /\ active = FALSE /\ items = <<>> /\ pendingQueue = <<>>
  /\ oldValue = [w \in Waiters |-> Null]
  /\ pc = [w \in Waiters |-> "idle"]

-----------------------------------------------------------------------------
\* try_lock(): try_mark_active(); when it fails nothing changes.
TryLock(w) ==
  /\ pc[w] = "idle" /\ Top = Inactive
  /\ active' = TRUE
  /\ pc' = [pc EXCEPT ![w] = "own"]
  /\ UNCHANGED <<items, pendingQueue, oldValue>>

\* start() of a lock operation: the load of enqueue_or_mark_active().
Start(w) ==
  /\ pc[w] = "idle"
  /\ oldValue' = [oldValue EXCEPT ![w] = Top]
  /\ pc' = [pc EXCEPT ![w] = "enqueue"]
  /\ UNCHANGED <<active, items, pendingQueue>>

\* One round of the loop of enqueue_or_mark_active(): the lock is taken
\* synchronously, the waiter is enqueued, or the exchange fails.
EnqueueOrMarkActive(w) ==
  /\ pc[w] = "enqueue"
  /\ \/ /\ Top = oldValue[w] /\ oldValue[w] = Inactive
        /\ active' = TRUE
        /\ pc' = [pc EXCEPT ![w] = "own"]
        /\ UNCHANGED <<items, oldValue>>
     \/ /\ Top = oldValue[w] /\ oldValue[w] # Inactive
        /\ items' = <<w>> \o items
        /\ pc' = [pc EXCEPT ![w] = "waiting"]
        /\ UNCHANGED <<active, oldValue>>
     \/ /\ Top # oldValue[w]
        /\ oldValue' = [oldValue EXCEPT ![w] = Top]
        /\ UNCHANGED <<active, items, pc>>
  /\ UNCHANGED pendingQueue

-----------------------------------------------------------------------------
\* pop_front() of q, which becomes pendingQueue_, and resume_(): w's call ends
\* and the oldest waiter owns the lock.
ResumeFirst(w, q) ==
  /\ pendingQueue' = Tail(q)
  /\ pc' = [pc EXCEPT ![w] = "idle", ![Head(q)] = "own"]

\* unlock() with waiters dequeued before.
UnlockPending(w) ==
  /\ pc[w] = "own" /\ pendingQueue # <<>>
  /\ ResumeFirst(w, pendingQueue)
  /\ UNCHANGED <<active, items, oldValue>>

\* unlock() without: the load of try_mark_inactive().
UnlockLoad(w) ==
  /\ pc[w] = "own" /\ pendingQueue = <<>>
  /\ oldValue' = [oldValue EXCEPT ![w] = Top]
  /\ pc' = [pc EXCEPT ![w] = IF Top = Null THEN "mark" ELSE "dequeue"]
  /\ UNCHANGED <<active, items, pendingQueue>>

\* Mutation of MarkInactive: stores, so a waiter enqueued since is lost.
MarkInactive_Store(w) ==
  /\ pc[w] = "mark"
  /\ active' = FALSE /\ items' = <<>>
  /\ pc' = [pc EXCEPT ![w] = "idle"]
  /\ UNCHANGED <<pendingQueue, oldValue>>

\* Mutation of MarkInactive: retries a failed exchange as a loop would.
MarkInactive_Spins(w) ==
  /\ pc[w] = "mark"
  /\ \/ /\ Top = Null
        /\ active' = FALSE
        /\ pc' = [pc EXCEPT ![w] = "idle"]
        /\ UNCHANGED oldValue
     \/ /\ Top # Null
        /\ oldValue' = [oldValue EXCEPT ![w] = Top]
        /\ UNCHANGED <<active, pc>>
  /\ UNCHANGED <<items, pendingQueue>>

\* try_mark_inactive(): the exchange of an empty head_.
MarkInactive(w) ==
  /\ pc[w] = "mark"
  /\ \/ /\ Top = Null
        /\ active' = FALSE
        /\ pc' = [pc EXCEPT ![w] = "idle"]
        /\ UNCHANGED oldValue
     \/ /\ Top # Null
        /\ oldValue' = [oldValue EXCEPT ![w] = Top]
        /\ pc' = [pc EXCEPT ![w] = "dequeue"]
        /\ UNCHANGED active
  /\ UNCHANGED <<items, pendingQueue>>

\* Mutation of DequeueAll: resumes in stack order.
DequeueAll_Unreversed(w) ==
  /\ pc[w] = "dequeue"
  /\ items' = <<>>
  /\ ResumeFirst(w, items)
  /\ UNCHANGED <<active, oldValue>>

\* try_mark_inactive_or_dequeue_all(): the exchange that takes every item;
\* make_reversed() puts the oldest first.
DequeueAll(w) ==
  /\ pc[w] = "dequeue"
  /\ items' = <<>>
  /\ ResumeFirst(w, Reverse(items))
  /\ UNCHANGED <<active, oldValue>>

-----------------------------------------------------------------------------
Unlock(w)  == UnlockPending(w) \/ UnlockLoad(w)
Finish(w)  == MarkInactive(w) \/ DequeueAll(w)
Acquire(w) == TryLock(w) \/ Start(w) \/ EnqueueOrMarkActive(w)

Next == \E w \in Waiters : Acquire(w) \/ Unlock(w) \/ Finish(w)

Spec == Init /\ [][Next]_vars

\* Every owner unlocks, and unlock() runs to its end.
Fairness == \A w \in Waiters : WF_vars(Unlock(w)) /\ WF_vars(Finish(w))

FairSpec == Spec /\ Fairness

-----------------------------------------------------------------------------
\* The type of every variable.
TypeOK ==
  /\ active \in BOOLEAN
  /\ items \in Seq(Waiters) /\ pendingQueue \in Seq(Waiters)
  /\ oldValue \in [Waiters -> Waiters \union {Null, Inactive}]
  /\ pc \in [Waiters -> {"idle", "enqueue", "waiting", "own", "mark", "dequeue"}]

\* From the moment it gets the lock until its unlock() has given it away.
Owns(w) == pc[w] \in {"own", "mark", "dequeue"}

\* At most one waiter owns the lock, and the lock is owned exactly while head_
\* is not the inactive value.
MutualExclusion ==
  /\ \A v, w \in Waiters : Owns(v) /\ Owns(w) => v = w
  /\ active <=> \E w \in Waiters : Owns(w)

\* Every suspended lock operation is queued exactly once, nobody else is, and
\* nobody is queued on a free lock.
QueueIsExact ==
  /\ IsInjective(items) /\ IsInjective(pendingQueue)
  /\ Range(items) \intersect Range(pendingQueue) = {}
  /\ \A w \in Waiters : pc[w] = "waiting" <=> w \in Range(items) \union Range(pendingQueue)
  /\ ~active => items = <<>> /\ pendingQueue = <<>>

\* A suspended lock operation gets the lock if every owner unlocks.
EveryWaiterGetsTheLock == \A w \in Waiters : pc[w] = "waiting" ~> pc[w] = "own"

\* Everybody who waits, in the order in which they will get the lock.
WaitQueue == pendingQueue \o Reverse(items)

\* The owner and the waiters as FifoMutex sees them.
Owner == IF \E w \in Waiters : Owns(w) THEN CHOOSE w \in Waiters : Owns(w) ELSE Null
Fifo  == INSTANCE FifoMutex WITH Clients <- Waiters, Nobody <- Null,
                                 owner <- Owner, queue <- WaitQueue

\* Every step is a step of the abstract mutex or leaves owner and queue alone:
\* waiters get the lock in the order of their exchanges, and a lock that is
\* waited for passes directly to the oldest waiter.
ImplementsFifoMutex == Fifo!Spec
=============================================================================
