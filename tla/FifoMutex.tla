------------------------------ MODULE FifoMutex ------------------------------
(***************************************************************************)
(* What async_mutex promises: one owner, and waiters that get the lock in  *)
(* the order in which they were queued, by a hand-over that never leaves   *)
(* the lock free while somebody waits.                                     *)
(***************************************************************************)
EXTENDS Sequences

CONSTANTS
  Clients,  \* lock operations
  Nobody    \* no owner

VARIABLES
  owner,    \* who has the lock
  queue     \* who waits for it, oldest first

vars == <<owner, queue>>

Init == owner = Nobody /\ queue = <<>>

\* A free lock is taken at once.
Take(c) ==
  /\ owner = Nobody
  /\ owner' = c /\ UNCHANGED queue

\* A lock that is held is waited for.
Queue(c) ==
  /\ owner # Nobody
  /\ queue' = Append(queue, c) /\ UNCHANGED owner

\* The owner hands the lock to the oldest waiter, or frees it.
Release ==
  /\ owner # Nobody
  /\ IF queue = <<>>
     THEN owner' = Nobody /\ UNCHANGED queue
     ELSE owner' = Head(queue) /\ queue' = Tail(queue)

Next == Release \/ \E c \in Clients : Take(c) \/ Queue(c)

Spec == Init /\ [][Next]_vars
=============================================================================
