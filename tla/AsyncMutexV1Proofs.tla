------------------------- MODULE AsyncMutexV1Proofs -------------------------
(***************************************************************************)
(* Proofs about v1::async_mutex, for any number of lock operations: mutual *)
(* exclusion, the exactness of its two queues, and that it implements      *)
(* FifoMutex.                                                              *)
(***************************************************************************)
EXTENDS AsyncMutexV1, TLAPS

\* unlock() looks at head_ only when nothing is left of an earlier dequeue.
MarkInv == \A w \in Waiters : pc[w] = "mark" => pendingQueue = <<>>

\* The assertions of try_mark_inactive_or_dequeue_all(): unlock() reaches its
\* exchange only when it has something to dequeue.
DequeuesSomething ==
  \A w \in Waiters : pc[w] = "dequeue" => active /\ items # <<>> /\ pendingQueue = <<>>

MutexInv == TypeOK /\ MutualExclusion /\ QueueIsExact /\ DequeuesSomething /\ MarkInv

-----------------------------------------------------------------------------
\* The range and the injectivity of a sequence, by its positions.
LEMMA Positions ==
  ASSUME NEW S, NEW s \in Seq(S)
  PROVE  /\ Len(s) \in Nat /\ DOMAIN s = 1 .. Len(s)
         /\ \A y : y \in Range(s) <=> \E i \in 1 .. Len(s) : s[i] = y
         /\ IsInjective(s) <=> \A i, j \in 1 .. Len(s) : s[i] = s[j] => i = j
BY DEF Range, IsInjective

\* Pushing an item onto the chain of head_.
LEMMA Push ==
  ASSUME NEW S, NEW s \in Seq(S), NEW x \in S
  PROVE  /\ <<x>> \o s \in Seq(S) /\ <<x>> \o s # <<>>
         /\ Range(<<x>> \o s) = {x} \union Range(s)
         /\ IsInjective(s) /\ x \notin Range(s) => IsInjective(<<x>> \o s)
<1> DEFINE p == <<x>> \o s
<1>1. /\ p \in Seq(S) /\ Len(p) = Len(s) + 1 /\ Len(s) \in Nat /\ p # <<>>
      /\ p[1] = x /\ \A i \in 1 .. Len(s) : p[i + 1] = s[i]
  OBVIOUS
<1> HIDE DEF p
<1>2. \A i \in 2 .. Len(p) : i - 1 \in 1 .. Len(s) /\ p[i] = s[i - 1]
  BY <1>1
<1>3. Range(p) = {x} \union Range(s)
  <2>1. \A i \in 1 .. Len(s) : i + 1 \in 1 .. Len(p)
    BY <1>1
  <2>2. \A y : y \in Range(s) => y \in Range(p)
    BY <1>1, <2>1, Positions
  <2>3. x \in Range(p)
    BY <1>1, Positions
  <2>4. \A y : y \in Range(p) => y \in {x} \union Range(s)
    BY <1>1, <1>2, Positions
  <2> QED BY <2>2, <2>3, <2>4
<1>4. ASSUME IsInjective(s), x \notin Range(s) PROVE IsInjective(p)
  <2> SUFFICES ASSUME NEW i \in 1 .. Len(p), NEW j \in 1 .. Len(p), p[i] = p[j] PROVE i = j
    BY <1>1, Positions
  <2>1. \A k \in 2 .. Len(p) : p[k] # x
    BY <1>1, <1>2, <1>4, Positions
  <2>2. CASE i # 1 /\ j # 1
    BY <2>2, <1>1, <1>2, <1>4, Positions
  <2> QED BY <1>1, <2>1, <2>2
<1> QED BY <1>1, <1>3, <1>4 DEF p

\* The item pop_front() takes, and what it leaves.
LEMMA Pop ==
  ASSUME NEW S, NEW s \in Seq(S), s # <<>>
  PROVE  /\ Head(s) \in S /\ Tail(s) \in Seq(S) /\ Head(s) \in Range(s)
         /\ IsInjective(s) => Range(Tail(s)) = Range(s) \ {Head(s)} /\ IsInjective(Tail(s))
<1> DEFINE t == Tail(s)
<1>1. /\ Len(s) \in Nat \ {0} /\ Head(s) = s[1] /\ Head(s) \in S
      /\ t \in Seq(S) /\ Len(t) = Len(s) - 1
      /\ \A i \in 1 .. Len(s) - 1 : t[i] = s[i + 1]
  OBVIOUS
<1> HIDE DEF t
<1>2. Head(s) \in Range(s)
  BY <1>1, Positions
<1>3. ASSUME IsInjective(s) PROVE Range(t) = Range(s) \ {Head(s)}
  <2>1. \A i \in 1 .. Len(t) : i + 1 \in 1 .. Len(s) /\ t[i] = s[i + 1] /\ t[i] # s[1]
    BY <1>1, <1>3, Positions
  <2>2. \A i \in 2 .. Len(s) : i - 1 \in 1 .. Len(t) /\ t[i - 1] = s[i]
    BY <1>1
  <2>3. \A y : y \in Range(t) => y \in Range(s) /\ y # Head(s)
    BY <1>1, <2>1, Positions
  <2>4. ASSUME NEW y, y \in Range(s), y # Head(s) PROVE y \in Range(t)
    <3>1. PICK i \in 1 .. Len(s) : s[i] = y
      BY <2>4, Positions
    <3>2. i - 1 \in 1 .. Len(t) /\ t[i - 1] = y
      BY <1>1, <2>2, <2>4, <3>1
    <3> QED BY <1>1, <3>2, Positions
  <2> QED BY <2>3, <2>4
<1>4. ASSUME IsInjective(s) PROVE IsInjective(t)
  BY <1>1, <1>4, Positions
<1> QED BY <1>1, <1>2, <1>3, <1>4 DEF t

\* make_reversed() keeps the items.
LEMMA Reversed ==
  ASSUME NEW S, NEW s \in Seq(S)
  PROVE  /\ Reverse(s) \in Seq(S) /\ Len(Reverse(s)) = Len(s)
         /\ Reverse(s) = <<>> <=> s = <<>>
         /\ \A i \in 1 .. Len(s) : Reverse(s)[i] = s[Len(s) - i + 1]
         /\ Range(Reverse(s)) = Range(s)
         /\ IsInjective(s) => IsInjective(Reverse(s))
<1> DEFINE r == Reverse(s)
<1>1. /\ r \in Seq(S) /\ Len(r) = Len(s) /\ Len(s) \in Nat
      /\ \A i \in 1 .. Len(s) : r[i] = s[Len(s) - i + 1]
  BY DEF Reverse
<1> HIDE DEF r
<1>2. \A i \in 1 .. Len(s) : Len(s) - i + 1 \in 1 .. Len(s) /\ Len(s) - (Len(s) - i + 1) + 1 = i
  BY <1>1
<1>3. \A i \in 1 .. Len(s) : s[i] = r[Len(s) - i + 1]
  BY <1>1, <1>2
<1>4. Range(r) = Range(s)
  <2>1. \A y : y \in Range(r) => y \in Range(s)
    BY <1>1, <1>2, Positions
  <2>2. \A y : y \in Range(s) => y \in Range(r)
    BY <1>1, <1>2, <1>3, Positions
  <2> QED BY <2>1, <2>2
<1>5. ASSUME IsInjective(s) PROVE IsInjective(r)
  <2> SUFFICES ASSUME NEW i \in 1 .. Len(s), NEW j \in 1 .. Len(s), r[i] = r[j] PROVE i = j
    BY <1>1, Positions
  <2>1. s[Len(s) - i + 1] = s[Len(s) - j + 1]
    BY <1>1
  <2>2. Len(s) - i + 1 = Len(s) - j + 1
    BY <1>2, <1>5, <2>1, Positions
  <2> QED BY <1>1, <2>2
<1>6. r = <<>> <=> s = <<>>
  BY <1>1
<1> QED BY <1>1, <1>4, <1>5, <1>6 DEF r

\* A newly pushed item is the last of the reversed chain.
LEMMA ReversedPush ==
  ASSUME NEW S, NEW s \in Seq(S), NEW x \in S
  PROVE  Reverse(<<x>> \o s) = Append(Reverse(s), x)
<1> DEFINE p == <<x>> \o s
           r == Reverse(s)
           q == Reverse(p)
           a == Append(r, x)
<1>1. /\ p \in Seq(S) /\ Len(p) = Len(s) + 1 /\ Len(s) \in Nat
      /\ p[1] = x /\ \A i \in 1 .. Len(s) : p[i + 1] = s[i]
  OBVIOUS
<1>2. r \in Seq(S) /\ Len(r) = Len(s) /\ \A i \in 1 .. Len(s) : r[i] = s[Len(s) - i + 1]
  BY Reversed
<1> HIDE DEF p, r
<1>3. q \in Seq(S) /\ Len(q) = Len(p) /\ \A i \in 1 .. Len(p) : q[i] = p[Len(p) - i + 1]
  BY <1>1, Reversed
<1>4. /\ a \in Seq(S) /\ Len(a) = Len(s) + 1 /\ a[Len(s) + 1] = x
      /\ \A i \in 1 .. Len(s) : a[i] = r[i]
  BY <1>1, <1>2
<1> HIDE DEF q, a
<1>5. \A i \in 1 .. Len(s) : q[i] = a[i]
  <2> SUFFICES ASSUME NEW i \in 1 .. Len(s) PROVE q[i] = a[i]
    OBVIOUS
  <2> DEFINE k == Len(s) - i + 1
  <2>1. k \in 1 .. Len(s) /\ Len(p) - i + 1 = k + 1 /\ i \in 1 .. Len(p)
    BY <1>1
  <2>2. q[i] = p[k + 1] /\ p[k + 1] = s[k] /\ a[i] = s[k]
    BY <1>1, <1>2, <1>3, <1>4, <2>1
  <2> QED BY <2>2
<1>6. q[Len(s) + 1] = x
  <2>1. Len(p) - (Len(s) + 1) + 1 = 1 /\ Len(s) + 1 \in 1 .. Len(p)
    BY <1>1
  <2> QED BY <1>1, <1>3, <2>1
<1>7. \A i \in 1 .. Len(s) + 1 : q[i] = a[i]
  BY <1>1, <1>4, <1>5, <1>6
<1>8. q = a
  BY <1>1, <1>3, <1>4, <1>7
<1> QED BY <1>8 DEF q, a, p, r

-----------------------------------------------------------------------------
\* A new mutex satisfies the invariant.
LEMMA InitMutexInv == Init => MutexInv
<1> SUFFICES ASSUME Init PROVE MutexInv
  OBVIOUS
<1>1. IsInjective(<<>>) /\ Range(<<>>) = {}
  BY DEF IsInjective, Range
<1>2. QueueIsExact
  BY <1>1 DEF Init, QueueIsExact
<1>3. TypeOK
  <2>1. items \in Seq(Waiters) /\ pendingQueue \in Seq(Waiters)
    BY DEF Init
  <2>2. oldValue \in [Waiters -> Waiters \union {Null, Inactive}]
    BY DEF Init
  <2> QED BY <2>1, <2>2 DEF Init, TypeOK
<1>4. MutualExclusion /\ DequeuesSomething /\ MarkInv
  BY DEF Init, MutualExclusion, DequeuesSomething, MarkInv, Owns
<1> QED BY <1>2, <1>3, <1>4 DEF MutexInv

\* Taking a free lock, by try_lock() or in start().
LEMMA TakeStep ==
  ASSUME MutexInv, NEW w \in Waiters, pc[w] \in {"idle", "enqueue"}, ~active, active' = TRUE,
         pc' = [pc EXCEPT ![w] = "own"], UNCHANGED <<items, pendingQueue, oldValue>>
  PROVE  MutexInv'
<1> USE DEF MutexInv, TypeOK
<1>1. TypeOK'
  OBVIOUS
<1>2. MutualExclusion'
  BY DEF MutualExclusion, Owns
<1>3. QueueIsExact'
  BY DEF QueueIsExact
<1>4. DequeuesSomething' /\ MarkInv'
  BY DEF DequeuesSomething, MarkInv, QueueIsExact, MutualExclusion, Owns
<1> QED BY <1>1, <1>2, <1>3, <1>4

\* A waiter that is queued behind an active owner.
LEMMA EnqueueStep ==
  ASSUME MutexInv, NEW w \in Waiters, pc[w] = "enqueue", active, items' = <<w>> \o items,
         pc' = [pc EXCEPT ![w] = "waiting"], UNCHANGED <<active, pendingQueue, oldValue>>
  PROVE  MutexInv'
<1> USE DEF MutexInv, TypeOK
<1>1. TypeOK'
  BY Push
<1>2. MutualExclusion'
  BY DEF MutualExclusion, Owns
<1>3. QueueIsExact'
  <2>1. w \notin Range(items) \union Range(pendingQueue)
    BY DEF QueueIsExact
  <2>2. IsInjective(items') /\ Range(items') = {w} \union Range(items)
    BY <2>1, Push DEF QueueIsExact
  <2> QED BY <2>1, <2>2 DEF QueueIsExact
<1>4. DequeuesSomething' /\ MarkInv'
  BY Push DEF DequeuesSomething, MarkInv
<1> QED BY <1>1, <1>2, <1>3, <1>4

\* The owner hands the lock to the first of q, which holds every item that was
\* in the queue that is emptied into it.
LEMMA ResumeStep ==
  ASSUME MutexInv, NEW w \in Waiters, Owns(w), NEW q \in Seq(Waiters), q # <<>>,
         IsInjective(q), Range(q) \intersect Range(items') = {},
         Range(q) \union Range(items') = Range(pendingQueue) \union Range(items),
         items' \in {items, <<>>}, ResumeFirst(w, q), UNCHANGED <<active, oldValue>>
  PROVE  MutexInv'
<1> USE DEF MutexInv, TypeOK
<1>1. Head(q) \in Waiters /\ Tail(q) \in Seq(Waiters) /\ Head(q) \in Range(q)
  BY Pop
<1>2. Range(Tail(q)) = Range(q) \ {Head(q)} /\ IsInjective(Tail(q))
  BY Pop
<1>3. pc[Head(q)] = "waiting" /\ Head(q) # w
  BY <1>1 DEF QueueIsExact, Owns
<1>4. /\ pc'[w] = "idle" /\ pc'[Head(q)] = "own"
      /\ \A v \in Waiters \ {w, Head(q)} : pc'[v] = pc[v] /\ ~Owns(v)
  BY <1>1, <1>3 DEF ResumeFirst, MutualExclusion
<1>5. TypeOK'
  <2>1. pc' \in [Waiters -> {"idle", "enqueue", "waiting", "own", "mark", "dequeue"}]
    BY <1>1 DEF ResumeFirst
  <2>2. items' \in Seq(Waiters) /\ pendingQueue' \in Seq(Waiters)
    <3>1. items \in Seq(Waiters) /\ <<>> \in Seq(Waiters)
      OBVIOUS
    <3> QED BY <1>1, <3>1, Zenon DEF ResumeFirst
  <2> QED BY <2>1, <2>2
<1>6. MutualExclusion'
  BY <1>1, <1>3, <1>4 DEF MutualExclusion, Owns
<1>7. IsInjective(items') /\ IsInjective(pendingQueue')
  BY <1>2 DEF ResumeFirst, QueueIsExact, IsInjective
<1>8. Range(items') \intersect Range(pendingQueue') = {}
  BY <1>2 DEF ResumeFirst
<1>9. \A v \in Waiters : pc'[v] = "waiting" <=> v \in Range(items') \union Range(pendingQueue')
  <2> SUFFICES ASSUME NEW v \in Waiters
               PROVE  pc'[v] = "waiting" <=> v \in Range(items') \union Range(pendingQueue')
    OBVIOUS
  <2>1. Range(items') \union Range(pendingQueue') =
          (Range(pendingQueue) \union Range(items)) \ {Head(q)}
    BY <1>1, <1>2 DEF ResumeFirst
  <2>2. v # w /\ v # Head(q) => pc'[v] = pc[v]
    BY <1>4
  <2>3. w \notin Range(pendingQueue) \union Range(items)
    BY DEF QueueIsExact, Owns
  <2>4. pc[v] = "waiting" <=> v \in Range(items) \union Range(pendingQueue)
    BY DEF QueueIsExact
  <2> QED BY <2>1, <2>2, <2>3, <2>4, <1>4
<1>10. active'
  BY DEF MutualExclusion
<1>11. QueueIsExact'
  BY <1>7, <1>8, <1>9, <1>10 DEF QueueIsExact
<1>12. DequeuesSomething' /\ MarkInv'
  BY <1>4, <1>1 DEF DequeuesSomething, MarkInv, Owns
<1> QED BY <1>5, <1>6, <1>11, <1>12

-----------------------------------------------------------------------------
\* try_lock() and start() keep the invariant.
LEMMA AcquireInv == ASSUME MutexInv, NEW w \in Waiters, Acquire(w) PROVE MutexInv'
<1>1. CASE TryLock(w)
  <2>1. ~active
    BY <1>1, MutexAssumption DEF TryLock, Top, MutexInv, TypeOK
  <2> QED BY <1>1, <2>1, TakeStep DEF TryLock
<1>2. CASE Start(w)
  <2> USE <1>2 DEF Start, MutexInv, TypeOK
  <2>1. TypeOK'
    BY DEF Top
  <2>2. MutualExclusion' /\ DequeuesSomething' /\ MarkInv'
    BY DEF MutualExclusion, Owns, DequeuesSomething, MarkInv
  <2>3. QueueIsExact'
    BY DEF QueueIsExact
  <2> QED BY <2>1, <2>2, <2>3
<1>3. CASE EnqueueOrMarkActive(w)
  <2>1. CASE Top = oldValue[w] /\ oldValue[w] = Inactive
    <3>1. ~active
      BY <2>1, MutexAssumption DEF Top, MutexInv, TypeOK
    <3> QED BY <1>3, <2>1, <3>1, TakeStep DEF EnqueueOrMarkActive
  <2>2. CASE Top = oldValue[w] /\ oldValue[w] # Inactive
    <3>1. active
      BY <2>2 DEF Top
    <3> QED BY <1>3, <2>2, <3>1, EnqueueStep DEF EnqueueOrMarkActive
  <2>3. CASE Top # oldValue[w]
    <3> USE <1>3, <2>3 DEF EnqueueOrMarkActive, MutexInv, TypeOK
    <3>1. TypeOK'
      BY DEF Top
    <3>2. MutualExclusion' /\ DequeuesSomething' /\ MarkInv' /\ QueueIsExact'
      BY DEF MutualExclusion, Owns, DequeuesSomething, MarkInv, QueueIsExact
    <3> QED BY <3>1, <3>2
  <2> QED BY <2>1, <2>2, <2>3
<1> QED BY <1>1, <1>2, <1>3 DEF Acquire

\* unlock() from pendingQueue_ keeps the invariant.
LEMMA UnlockPendingInv == ASSUME MutexInv, NEW w \in Waiters, UnlockPending(w) PROVE MutexInv'
<1>1. Owns(w) /\ pendingQueue \in Seq(Waiters) /\ IsInjective(pendingQueue)
  BY DEF UnlockPending, Owns, MutexInv, TypeOK, QueueIsExact
<1>2. Range(pendingQueue) \intersect Range(items') = {} /\ items' = items
  BY DEF UnlockPending, MutexInv, QueueIsExact
<1> QED BY <1>1, <1>2, ResumeStep DEF UnlockPending

\* The load of try_mark_inactive() keeps the invariant; only the owner can
\* have emptied what it sees.
LEMMA UnlockLoadInv == ASSUME MutexInv, NEW w \in Waiters, UnlockLoad(w) PROVE MutexInv'
<1> USE DEF UnlockLoad, MutexInv, TypeOK
<1>1. TypeOK'
  BY DEF Top
<1>2. MutualExclusion' /\ MarkInv'
  BY DEF MutualExclusion, Owns, MarkInv
<1>3. QueueIsExact'
  BY DEF QueueIsExact
<1>4. DequeuesSomething'
  BY DEF DequeuesSomething, MutualExclusion, Owns, Top
<1> QED BY <1>1, <1>2, <1>3, <1>4

\* Freeing the lock keeps the invariant: its exchange fails if somebody came.
LEMMA MarkInactiveInv == ASSUME MutexInv, NEW w \in Waiters, MarkInactive(w) PROVE MutexInv'
<1> USE DEF MarkInactive, MutexInv, TypeOK
<1>1. TypeOK'
  <2>1. Top \in Waiters \union {Null, Inactive}
    BY DEF Top
  <2> QED BY <2>1
<1>2. Top = Null => active /\ items = <<>>
  BY MutexAssumption DEF Top
<1>3. Top # Null => active /\ items # <<>>
  BY DEF Top, MutualExclusion, Owns
<1>4. MutualExclusion' /\ MarkInv'
  BY <1>2 DEF MutualExclusion, Owns, MarkInv
<1>5. QueueIsExact'
  BY <1>2 DEF QueueIsExact, MarkInv
<1>6. DequeuesSomething'
  BY <1>2, <1>3 DEF DequeuesSomething, MutualExclusion, Owns, MarkInv
<1> QED BY <1>1, <1>4, <1>5, <1>6

\* Dequeueing every waiter keeps the invariant.
LEMMA DequeueAllInv == ASSUME MutexInv, NEW w \in Waiters, DequeueAll(w) PROVE MutexInv'
<1>1. /\ Owns(w) /\ items \in Seq(Waiters) /\ IsInjective(items)
      /\ items # <<>> /\ pendingQueue = <<>>
  BY DEF DequeueAll, Owns, MutexInv, TypeOK, QueueIsExact, DequeuesSomething
<1>2. /\ Reverse(items) \in Seq(Waiters) /\ Reverse(items) # <<>>
      /\ Range(Reverse(items)) = Range(items) /\ IsInjective(Reverse(items))
  BY <1>1, Reversed
<1>3. items' = <<>> /\ Range(<<>>) = {} /\ Range(pendingQueue) = {}
  BY <1>1 DEF DequeueAll, Range
<1> QED BY <1>1, <1>2, <1>3, ResumeStep DEF DequeueAll

\* Every step keeps the invariant.
LEMMA NextMutexInv == MutexInv /\ [Next]_vars => MutexInv'
<1> SUFFICES ASSUME MutexInv, [Next]_vars PROVE MutexInv'
  OBVIOUS
<1>1. ASSUME NEW w \in Waiters, Acquire(w) \/ Unlock(w) \/ Finish(w) PROVE MutexInv'
  BY <1>1, AcquireInv, UnlockPendingInv, UnlockLoadInv, MarkInactiveInv, DequeueAllInv
     DEF Unlock, Finish
<1>2. CASE UNCHANGED vars
  BY <1>2 DEF vars, MutexInv, TypeOK, MutualExclusion, QueueIsExact, DequeuesSomething, MarkInv,
     Owns
<1> QED BY <1>1, <1>2 DEF Next

\* The inductive invariant holds in every state the mutex can reach.
THEOREM MutexInvariance == Spec => []MutexInv
BY InitMutexInv, NextMutexInv, PTL DEF Spec

\* Every variable keeps its type.
THEOREM MutexTypeCorrect == Spec => []TypeOK
<1>1. MutexInv => TypeOK BY DEF MutexInv
<1> QED BY <1>1, MutexInvariance, PTL

\* One owner at a time, and head_ says whether there is one.
THEOREM OneOwner == Spec => []MutualExclusion
<1>1. MutexInv => MutualExclusion BY DEF MutexInv
<1> QED BY <1>1, MutexInvariance, PTL

\* No suspended lock operation is lost or queued twice.
THEOREM NoWaiterLost == Spec => []QueueIsExact
<1>1. MutexInv => QueueIsExact BY DEF MutexInv
<1> QED BY <1>1, MutexInvariance, PTL

\* The assertions of try_mark_inactive_or_dequeue_all() hold.
THEOREM DequeueAssertionsHold == Spec => []DequeuesSomething
<1>1. MutexInv => DequeuesSomething BY DEF MutexInv
<1> QED BY <1>1, MutexInvariance, PTL

-----------------------------------------------------------------------------
\* Owner is the one waiter that owns the lock.
LEMMA OwnerIs ==
  ASSUME MutexInv
  PROVE  /\ \A w \in Waiters : Owns(w) => Owner = w
         /\ active => Owner # Null
         /\ ~active => Owner = Null
<1>1. \A w \in Waiters : Owns(w) => Owner = w
  BY DEF MutexInv, MutualExclusion, Owner
<1> QED BY <1>1, MutexAssumption DEF MutexInv, MutualExclusion, Owner

\* To FifoMutex, taking a free lock is Take.
LEMMA TakeRefines ==
  ASSUME MutexInv, MutexInv', NEW w \in Waiters, ~active, pc' = [pc EXCEPT ![w] = "own"],
         UNCHANGED <<items, pendingQueue>>
  PROVE  Fifo!Take(w)
<1>1. Owner = Null
  BY OwnerIs
<1>2. Owns(w)'
  BY DEF Owns, MutexInv, TypeOK
<1>3. Owner' = w
  BY <1>2 DEF MutexInv, MutualExclusion, Owner
<1>4. WaitQueue' = WaitQueue
  BY DEF WaitQueue
<1> QED BY <1>1, <1>3, <1>4 DEF Fifo!Take

\* Enqueueing a waiter is Queue: WaitQueue grows at its end.
LEMMA EnqueueRefines ==
  ASSUME MutexInv, MutexInv', NEW w \in Waiters, active, pc[w] = "enqueue",
         items' = <<w>> \o items, pc' = [pc EXCEPT ![w] = "waiting"],
         UNCHANGED <<active, pendingQueue>>
  PROVE  Fifo!Queue(w)
<1>1. PICK v \in Waiters : Owns(v)
  BY DEF MutexInv, MutualExclusion
<1>2. Owner = v /\ Owner # Null
  BY <1>1, OwnerIs, MutexAssumption
<1>3. Owns(v)'
  BY <1>1 DEF Owns, MutexInv, TypeOK
<1>4. Owner' = v
  BY <1>3 DEF MutexInv, MutualExclusion, Owner
<1>5. WaitQueue' = Append(WaitQueue, w)
  <2>1. Reverse(items') = Append(Reverse(items), w)
    BY ReversedPush DEF MutexInv, TypeOK
  <2>2. pendingQueue \in Seq(Waiters) /\ Reverse(items) \in Seq(Waiters)
    BY Reversed DEF MutexInv, TypeOK
  <2>3. pendingQueue \o Append(Reverse(items), w) = Append(pendingQueue \o Reverse(items), w)
    BY <2>2
  <2> QED BY <2>1, <2>3 DEF WaitQueue
<1> QED BY <1>2, <1>4, <1>5 DEF Fifo!Queue

\* Handing the lock to the first of the queue is Release.
LEMMA ResumeRefines ==
  ASSUME MutexInv, MutexInv', NEW w \in Waiters, Owns(w), NEW q \in Seq(Waiters), q # <<>>,
         NEW r \in Seq(Waiters), WaitQueue = q \o r, WaitQueue' = Tail(q) \o r,
         ResumeFirst(w, q)
  PROVE  Fifo!Release
<1>1. Owner = w /\ Owner # Null
  BY OwnerIs, MutexAssumption
<1>2. Head(q) \in Waiters
  BY Pop
<1>3. Owns(Head(q))'
  BY <1>2 DEF ResumeFirst, Owns, MutexInv, TypeOK
<1>4. Owner' = Head(q)
  BY <1>2, <1>3 DEF MutexInv, MutualExclusion, Owner
<1>5. /\ WaitQueue # <<>> /\ Head(WaitQueue) = Head(q)
      /\ Tail(WaitQueue) = Tail(q) \o r
  OBVIOUS
<1> QED BY <1>1, <1>4, <1>5 DEF Fifo!Release

\* Every step is a step of FifoMutex, or changes neither owner nor queue.
LEMMA StepRefines ==
  ASSUME MutexInv, MutexInv', [Next]_vars PROVE [Fifo!Next]_(Fifo!vars)
<1>1. ASSUME NEW w \in Waiters, TryLock(w) PROVE Fifo!Next
  <2>1. ~active
    BY <1>1, MutexAssumption DEF TryLock, Top, MutexInv, TypeOK
  <2> QED BY <1>1, <2>1, TakeRefines DEF TryLock, Fifo!Next
<1>2. ASSUME \A w \in Waiters : Owns(w)' <=> Owns(w), UNCHANGED <<items, pendingQueue>>
      PROVE  UNCHANGED Fifo!vars
  <2>1. WaitQueue' = WaitQueue
    BY <1>2 DEF WaitQueue
  <2>2. \A w \in Waiters : Owns(w) => Owner = w /\ Owner' = w
    BY <1>2, OwnerIs DEF MutexInv, MutualExclusion, Owner
  <2>3. (\A w \in Waiters : ~Owns(w)) => Owner = Null /\ Owner' = Null
    BY <1>2 DEF Owner
  <2> QED BY <2>1, <2>2, <2>3 DEF Fifo!vars
<1>3. ASSUME NEW w \in Waiters, Start(w) PROVE UNCHANGED Fifo!vars
  BY <1>2, <1>3 DEF Start, Owns, MutexInv, TypeOK
<1>4. ASSUME NEW w \in Waiters, EnqueueOrMarkActive(w) PROVE [Fifo!Next]_(Fifo!vars)
  <2>1. CASE Top = oldValue[w] /\ oldValue[w] = Inactive
    <3>1. ~active
      BY <2>1, MutexAssumption DEF Top, MutexInv, TypeOK
    <3> QED BY <1>4, <2>1, <3>1, TakeRefines DEF EnqueueOrMarkActive, Fifo!Next
  <2>2. CASE Top = oldValue[w] /\ oldValue[w] # Inactive
    <3>1. active
      BY <2>2 DEF Top
    <3> QED BY <1>4, <2>2, <3>1, EnqueueRefines DEF EnqueueOrMarkActive, Fifo!Next
  <2>3. CASE Top # oldValue[w]
    BY <1>2, <1>4, <2>3 DEF EnqueueOrMarkActive, Owns
  <2> QED BY <2>1, <2>2, <2>3
<1>5. ASSUME NEW w \in Waiters, UnlockPending(w) PROVE Fifo!Next
  <2>1. /\ Owns(w) /\ pendingQueue \in Seq(Waiters) /\ pendingQueue # <<>>
        /\ Reverse(items) \in Seq(Waiters) /\ ResumeFirst(w, pendingQueue)
    BY <1>5, Reversed DEF UnlockPending, Owns, MutexInv, TypeOK
  <2>2. WaitQueue = pendingQueue \o Reverse(items)
    BY DEF WaitQueue
  <2>3. WaitQueue' = Tail(pendingQueue) \o Reverse(items)
    BY <1>5 DEF WaitQueue, UnlockPending, ResumeFirst
  <2> QED BY <2>1, <2>2, <2>3, ResumeRefines DEF Fifo!Next
<1>6. ASSUME NEW w \in Waiters, UnlockLoad(w) PROVE UNCHANGED Fifo!vars
  BY <1>2, <1>6 DEF UnlockLoad, Owns, MutexInv, TypeOK
<1>7. ASSUME NEW w \in Waiters, MarkInactive(w) PROVE [Fifo!Next]_(Fifo!vars)
  <2>1. CASE Top = Null
    <3>1. active /\ items = <<>> /\ pendingQueue = <<>> /\ Owns(w)
      BY <1>7, <2>1, MutexAssumption DEF Top, MarkInactive, MutexInv, TypeOK, MarkInv, Owns
    <3>2. Reverse(<<>>) = <<>>
      BY DEF Reverse
    <3>3. WaitQueue = <<>> /\ WaitQueue' = <<>>
      BY <1>7, <3>1, <3>2 DEF WaitQueue, MarkInactive
    <3>4. Owner = w /\ Owner # Null
      BY <3>1, OwnerIs, MutexAssumption
    <3>5. ~active'
      BY <1>7, <2>1 DEF MarkInactive
    <3>6. Owner' = Null
      BY <3>5 DEF MutexInv, MutualExclusion, Owner
    <3> QED BY <3>3, <3>4, <3>6 DEF Fifo!Next, Fifo!Release
  <2>2. CASE Top # Null
    BY <1>2, <1>7, <2>2 DEF MarkInactive, Owns, MutexInv, TypeOK
  <2> QED BY <2>1, <2>2
<1>8. ASSUME NEW w \in Waiters, DequeueAll(w) PROVE Fifo!Next
  <2>1. /\ Owns(w) /\ Reverse(items) \in Seq(Waiters) /\ Reverse(items) # <<>>
        /\ pendingQueue = <<>> /\ ResumeFirst(w, Reverse(items))
    BY <1>8, Reversed DEF DequeueAll, Owns, MutexInv, TypeOK, DequeuesSomething
  <2>2. Reverse(<<>>) = <<>> /\ <<>> \in Seq(Waiters)
    BY DEF Reverse
  <2>3. WaitQueue = Reverse(items) \o <<>>
    BY <2>1 DEF WaitQueue
  <2>4. WaitQueue' = Tail(Reverse(items)) \o <<>>
    BY <1>8, <2>2 DEF WaitQueue, DequeueAll, ResumeFirst
  <2> QED BY <2>1, <2>2, <2>3, <2>4, ResumeRefines DEF Fifo!Next
<1>9. CASE UNCHANGED vars
  BY <1>2, <1>9 DEF vars, Owns
<1> QED BY <1>1, <1>3, <1>4, <1>5, <1>6, <1>7, <1>8, <1>9
     DEF Next, Acquire, Unlock, Finish

\* v1::async_mutex implements FifoMutex: the lock is handed over in the order
\* in which the lock operations were enqueued, and never to nobody while
\* somebody waits.
THEOREM RefinesFifoMutex == Spec => ImplementsFifoMutex
<1>1. Init => Fifo!Init
  <2> SUFFICES ASSUME Init PROVE Owner = Null /\ WaitQueue = <<>>
    BY DEF Fifo!Init
  <2>1. Reverse(<<>>) = <<>>
    BY DEF Reverse
  <2> QED BY <2>1 DEF Init, Owner, Owns, WaitQueue
<1>2. MutexInv /\ MutexInv' /\ [Next]_vars => [Fifo!Next]_(Fifo!vars)
  BY StepRefines
<1> QED BY <1>1, <1>2, MutexInvariance, PTL DEF Spec, ImplementsFifoMutex, Fifo!Spec
=============================================================================
