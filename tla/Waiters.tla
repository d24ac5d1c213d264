------------------------------- MODULE Waiters -------------------------------
(***************************************************************************)
(* Every primitive one can wait for, each against the same promises: a     *)
(* waiter is in one place until it is completed, once, and it is not left  *)
(* behind.                                                                 *)
(***************************************************************************)
EXTENDS Waiting

CONSTANTS Selected,  \* the primitives that are run
          Items,     \* see ResetEvents and AtomicIntrusiveList
          Reuse      \* see AtomicIntrusiveList

Events == INSTANCE ResetEvents
Mutex == INSTANCE AsyncMutexV2
Pass == INSTANCE AsyncPass
List == INSTANCE AtomicIntrusiveList

Init == which \in Selected /\ (Events!Init \/ Mutex!Init \/ Pass!Init \/ List!Init)
Next == Events!Next \/ Mutex!Next \/ Pass!Next \/ List!Next
Spec == Init /\ [][Next]_vars

AnEvent == which \in {"async_manual_reset_event_v1", "async_manual_reset_event_v2", "async_auto_reset_event"}

AList == which = "atomic_intrusive_list"

(* Threads run, and the owner of a mutex unlocks it.                       *)
System ==
  \/ AnEvent /\ Events!System
  \/ which = "async_mutex_v2" /\ Mutex!System
  \/ which = "async_pass" /\ Pass!System
  \/ AList /\ List!System
FairSpec == Spec /\ WF_vars(System)

-----------------------------------------------------------------------------
Places(o) ==
  CASE AnEvent -> Events!Places(o)
    [] which = "async_mutex_v2" -> Mutex!Places(o)
    [] which = "async_pass" -> Pass!Places(o)
MayWait(o) ==
  CASE AnEvent -> Events!MayWait(o)
    [] which = "async_mutex_v2" -> Mutex!MayWait(o)
    [] which = "async_pass" -> Pass!MayWait(o)
    [] AList -> TRUE

(* A waiter that has not been completed is in the hands of one thread, or  *)
(* of the list or word it waits in, and of no other; a completed one is in *)
(* nobody's and has got one signal, and its stop callback is destroyed.    *)
WaitsInOnePlace ==
  ~AList => \A o \in DOMAIN op :
    /\ Places(o) = One(op[o].life = "started")
    /\ Len(op[o].signals) = One(op[o].life = "completed")
    /\ op[o].life = "completed" => op[o].cb = "none"

(* The mutex has one holder at a time, and is locked while it has one.     *)
LockIsRight == which = "async_mutex_v2" => Mutex!LockIsRight

(* Nobody waits in the list of an event that is signalled, and the state_  *)
(* of an auto-reset event agrees with the manual event inside it, which    *)
(* stays signalled until the consumer it woke has reset it.                *)
EventIsRight == AnEvent => Events!EventIsRight

(* A call and an accept that complete with a value have met each other and *)
(* nobody else; one that completes with done has met nobody, so no call is *)
(* consumed by an acceptor that was cancelled.                             *)
Paired == which = "async_pass" => Pass!Paired

(* While no link is locked, following the links from head_ reaches the     *)
(* sentinel over exactly the items that were pushed and not yet popped,    *)
(* removed or drained, and every item knows the link that leads to it.     *)
Chained == AList => List!Chained

(* Nobody is left behind: again and again all calls have returned and all  *)
(* that wait still do so because nobody has woken them.                    *)
WaitersWake == []<>(Returned /\ \A o \in DOMAIN op : op[o].life \in {"started", "hopping"} => MayWait(o))
=============================================================================
