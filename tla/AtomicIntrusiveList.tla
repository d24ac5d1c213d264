------------------------ MODULE AtomicIntrusiveList ------------------------
(***************************************************************************)
(* atomic_intrusive_list: a list whose links are spin locks.  A node knows *)
(* the link that points to it (self); a thread that starts from a node     *)
(* reads self, locks that link, and starts again if self has changed.      *)
(* Every access to a link or a self is a step of its own.  The plain list  *)
(* serves the mutex, the latched one the event; the lists that items are   *)
(* drained into is `local'.  Memory is read as sequentially consistent,    *)
(* and that of a popped item stays readable.                               *)
(***************************************************************************)
EXTENDS Waiting

CONSTANTS Items,  \* the operations that are pushed
          Reuse   \* how often an item that was taken may be pushed again

(* A link: head_, the head of local, or the rest of an item.  A node: an   *)
(* item or a sentinel.                                                     *)
Links == Ops \cup {"head_", "local"}
Nodes == Ops \cup {"sentinel_", "sentinel_latch_", "local_sentinel"}
null == "null"

Init ==
  /\ which = "atomic_intrusive_list"
  /\ op = [o \in Ops |-> NewOp("item")]
  /\ \E latch \in BOOLEAN :
       ctx = [Latch |-> latch,
          val |-> [l \in Links |-> IF l = "head_" THEN "sentinel_" ELSE IF l = "local" THEN "local_sentinel" ELSE null],
          self |-> [n \in Nodes |-> IF n = "sentinel_" THEN "head_" ELSE IF n = "local_sentinel" THEN "local" ELSE null],
          locked |-> {}, link |-> [a \in Agents |-> null], v |-> [a \in Agents |-> null],
          rest |-> [a \in Agents |-> null], local_owner |-> <<>>, reused |-> 0]
  /\ NoAgents

is_sentinel(n) == n \in {"sentinel_", "sentinel_latch_", "local_sentinel"}

-----------------------------------------------------------------------------
(* The steps, over the part of the state they change.  Store(s, n, l)      *)
(* is n->self.store(l).                                                    *)
State == [op |-> op, ctx |-> ctx, at |-> at, won |-> won, lost |-> lost]
Become(s) ==
  /\ op' = s.op /\ ctx' = s.ctx /\ at' = s.at /\ won' = s.won /\ lost' = s.lost
  /\ UNCHANGED <<which, whom, local>>
Go(s, a, pc) == [s EXCEPT !.at[a] = pc]
Do(a, pc, s) == at[a] = pc /\ Become(s)
Store(s, n, l) == [s EXCEPT !.ctx.self[n] = l]
unlock(s, l, value) == [s EXCEPT !.ctx.locked = @ \ {l}, !.ctx.val[l] = value]
Locked(s, a, l) ==
  [s EXCEPT !.ctx.locked = @ \cup {l}, !.ctx.link[a] = l, !.ctx.v[a] = ctx.val[l]]
lock(a, pc, l, next) == l \notin ctx.locked /\ Do(a, pc, Go(Locked(State, a, l), a, next))
Finish(s, a) ==
  [s EXCEPT !.at[a] = "returned", !.ctx.link[a] = null, !.ctx.v[a] = null, !.ctx.rest[a] = null,
            !.won[a] = "none", !.lost[a] = "none"]
Take(s, o, how) == [s EXCEPT !.op[o].life = "completed", !.op[o].signals = Append(@, how)]

(* try_lock_checking(): the monitored pointer is looked at before the link *)
(* is read, after it is found unlocked, and while it is locked; the        *)
(* exchange succeeds if the link still has the value that was read.        *)
Monitored(a) == IF a[2] = "stop" THEN a[1] ELSE "sentinel_"
TryLock(s, a, next, retry) ==
  [s EXCEPT !.at[a] = "load", !.won[a] = next, !.lost[a] = retry,
            !.ctx.link[a] = s.ctx.self[Monitored(a)]]
Changed(a) == ctx.self[Monitored(a)] # ctx.link[a]
try_lock_checking(a) ==
  \/ Changed(a) /\ (\E pc \in {"load", "check"} : Do(a, pc, Go(State, a, lost[a])))
  \/ /\ ~Changed(a) /\ ctx.link[a] \notin ctx.locked
     /\ Do(a, "load", Go([State EXCEPT !.ctx.v[a] = ctx.val[ctx.link[a]]], a, "check"))
  \/ ~Changed(a) /\ Do(a, "check", Go(State, a, "exchange"))
  \/ Do(a, "exchange",
        IF ctx.link[a] \in ctx.locked \/ ctx.val[ctx.link[a]] # ctx.v[a] THEN Go(State, a, "load")
        ELSE Go(Locked(State, a, ctx.link[a]), a, won[a]))

-----------------------------------------------------------------------------
(* push_front(), and push_front_unless_latched(), which gives up when it   *)
(* finds the latch.                                                        *)
Pushed(s, a) == Finish([s EXCEPT !.op[a[1]].life = "started"], a)
unless_latched(a) ==
  /\ ctx.v[a] = "sentinel_latch_"
  /\ Do(a, "front locked", Take(Finish(unlock(State, "head_", ctx.v[a]), a), a[1], "refused"))
push_front(a) ==
  \/ lock(a, "push_front", "head_", "front locked")
  \/ unless_latched(a)
  \/ /\ ctx.v[a] # "sentinel_latch_"
     /\ Do(a, "front locked", Go(Store([State EXCEPT !.ctx.val[a[1]] = ctx.v[a]], ctx.v[a], a[1]), a, "front self"))
  \/ Do(a, "front self", Go(Store(State, a[1], "head_"), a, "front unlock"))
  \/ Do(a, "front unlock", Pushed(unlock(State, "head_", a[1]), a))

(* push_back() locks the link before the sentinel.                         *)
push_back(a) ==
  \/ Do(a, "push_back", Go([State EXCEPT !.ctx.val[a[1]] = "sentinel_"], a, "back pred"))
  \/ Do(a, "back pred", TryLock(State, a, "back locked", "back pred"))
  \/ Do(a, "back locked", Go(Store(State, a[1], ctx.link[a]), a, "back sentinel"))
  \/ Do(a, "back sentinel", Go(Store(State, "sentinel_", a[1]), a, "back unlock"))
  \/ Do(a, "back unlock", Pushed(unlock(State, ctx.link[a], a[1]), a))

(* Mutation of Unlink: the successor is not told which link leads to it.   *)
Unlink_OldSelf(a, item, from, how) ==
  \/ item \notin ctx.locked /\
     Do(a, from, Go([State EXCEPT !.ctx.locked = @ \cup {item}, !.ctx.rest[a] = ctx.val[item]], a, how \o " successor"))
  \/ Do(a, how \o " successor", Go(State, a, how \o " self"))
  \/ Do(a, how \o " self", Go(Store(State, item, null), a, how \o " unlock"))
  \/ Do(a, how \o " unlock", Go(unlock(State, ctx.link[a], ctx.rest[a]), a, how \o " rest"))

(* Unlinks the item whose link a holds, with the lock of its rest.         *)
Unlink(a, item, from, how) ==
  \/ item \notin ctx.locked /\
     Do(a, from, Go([State EXCEPT !.ctx.locked = @ \cup {item}, !.ctx.rest[a] = ctx.val[item]], a, how \o " successor"))
  \/ Do(a, how \o " successor", Go(Store(State, ctx.rest[a], ctx.link[a]), a, how \o " self"))
  \/ Do(a, how \o " self", Go(Store(State, item, null), a, how \o " unlock"))
  \/ Do(a, how \o " unlock", Go(unlock(State, ctx.link[a], ctx.rest[a]), a, how \o " rest"))

(* pop_front(), of the list or, until it is empty, of local.               *)
Popped(a) ==
  LET s == Take(unlock(State, ctx.v[a], null), ctx.v[a], "popped")
  IN  IF ctx.link[a] = "local" THEN Go(Finish(s, a), a, "pop local") ELSE Finish(s, a)
pop_front(a) ==
  \/ lock(a, "pop_front", "head_", "pop locked")
  \/ lock(a, "pop local", "local", "pop locked")
  \/ /\ is_sentinel(ctx.v[a])
     /\ Do(a, "pop locked", [Finish(unlock(State, ctx.link[a], ctx.v[a]), a) EXCEPT
                               !.ctx.local_owner = IF ctx.link[a] = "local" THEN <<>> ELSE @])
  \/ ~is_sentinel(ctx.v[a]) /\ Unlink(a, ctx.v[a], "pop locked", "pop")
  \/ Do(a, "pop rest", Popped(a))

(* try_remove() of an item: false if another thread has unlinked it.       *)
try_remove(a) ==
  LET item == a[1] IN
  \/ Do(a, "try_remove", IF ctx.self[item] = null THEN Finish(State, a)
                         ELSE TryLock(State, a, "remove locked", "try_remove"))
  \/ Do(a, "remove locked", IF Changed(a) THEN Go(unlock(State, ctx.link[a], ctx.v[a]), a, "try_remove")
                            ELSE Go(State, a, "remove"))
  \/ Unlink(a, item, "remove", "remove")
  \/ Do(a, "remove rest", Finish(Take(unlock(State, item, null), item, "removed"), a))

(* drain_into() and latch_and_drain(): lock both ends, move the chain to   *)
(* local, and leave an empty or a latched list; unlatch().                 *)
Emptied == IF ctx.Latch THEN "sentinel_latch_" ELSE "sentinel_"
latch(s) == Store(Store(s, "sentinel_", null), "sentinel_latch_", "head_")
drain_into(a) ==
  \/ lock(a, "drain", "head_", "drain locked")
  \/ /\ is_sentinel(ctx.v[a])
     /\ Do(a, "drain locked",
           LET s == [Finish(unlock(State, "head_", Emptied), a) EXCEPT !.ctx.local_owner = <<>>]
           IN  IF ctx.v[a] = Emptied THEN s ELSE latch(s))
  \/ /\ ~is_sentinel(ctx.v[a])
     /\ Do(a, "drain locked", Go([State EXCEPT !.ctx.rest[a] = ctx.v[a]], a, "drain tail"))
  \/ Do(a, "drain tail", TryLock(State, a, "drain sentinel", "drain tail"))
  \/ Do(a, "drain sentinel",
        Go(IF ctx.Latch THEN latch(State) ELSE Store(State, "sentinel_", "head_"), a, "drain local"))
  \/ Do(a, "drain local", Go([Store(State, "local_sentinel", ctx.link[a]) EXCEPT !.ctx.val["local"] = ctx.rest[a]],
                               a, "drain self"))
  \/ Do(a, "drain self", Go(Store(State, ctx.rest[a], "local"), a, "drain unlock"))
  \/ Do(a, "drain unlock", Go(unlock(State, ctx.link[a], "local_sentinel"), a, "drain end"))
  \/ Do(a, "drain end", Go(Finish(unlock(State, "head_", Emptied), a), a, "pop local"))
unlatch(a) ==
  \/ lock(a, "unlatch", "head_", "unlatch locked")
  \/ Do(a, "unlatch locked",
        IF ctx.v[a] # "sentinel_latch_" THEN Finish(unlock(State, "head_", ctx.v[a]), a)
        ELSE Store(Store(Finish(unlock(State, "head_", "sentinel_"), a), "sentinel_latch_", null), "sentinel_", "head_"))

-----------------------------------------------------------------------------
(* The calls: an item is pushed, and stopped once its push has returned;   *)
(* any thread pops, drains or unlatches.                                   *)
Push(o) ==
  LET a == <<o, "start">> IN
  /\ o \in Items /\ at[a] \in {"none", "returned"}
  /\ op[o].life = "idle" \/ (op[o].life = "completed" /\ ctx.reused < Reuse)
  /\ \E pc \in IF ctx.Latch THEN {"push_front"} ELSE {"push_front", "push_back"} :
       Become(Go([State EXCEPT !.op[o].life = "pushing", !.op[o].signals = <<>>,
                                 !.ctx.reused = @ + One(op[o].life = "completed")], a, pc))
Call(o) ==
  LET a == <<o, "then">> IN
  /\ o \in Setters /\ at[a] = "none"
  /\ \/ ~ctx.Latch /\ Become(Go(State, a, "pop_front"))
     \/ ctx.Latch /\ Become(Go(State, a, "unlatch"))
     \/ ctx.local_owner = <<>> /\ Become(Go([State EXCEPT !.ctx.local_owner = <<o>>], a, "drain"))
StopItem(o) ==
  /\ o \in StopOps /\ at[<<o, "stop">>] = "none" /\ at[<<o, "start">>] = "returned"
  /\ op[o].life = "started" \/ op[o].signals = <<"popped">>
  /\ Become(Go(State, <<o, "stop">>, "try_remove"))

System ==
  \E a \in Agents : \/ push_front(a) \/ push_back(a) \/ pop_front(a) \/ try_remove(a) \/ drain_into(a)
                    \/ unlatch(a) \/ try_lock_checking(a)
User == \E o \in Ops : Push(o) \/ Call(o) \/ StopItem(o)
Next == which = "atomic_intrusive_list" /\ (System \/ User)

-----------------------------------------------------------------------------
(* The links from h on, as far as they lead to items.                      *)
Chain(h) ==
  LET follow[n \in 0 .. Cardinality(Ops) + 1] ==
        IF n = 0 THEN <<h>>
        ELSE IF ctx.val[Last(follow[n - 1])] \in Ops
        THEN Append(follow[n - 1], ctx.val[Last(follow[n - 1])]) ELSE follow[n - 1]
  IN  follow[Cardinality(Ops) + 1]
WellFormed(chain) ==
  /\ \A i \in DOMAIN chain : ctx.self[ctx.val[chain[i]]] = chain[i]
  /\ is_sentinel(ctx.val[Last(chain)])

(* While no link is locked, the list and local are chains of different     *)
(* items, every self is the link that leads to the node, and they hold the *)
(* items that were pushed and that nobody has taken.                       *)
Chained ==
  ctx.locked = {} =>
    LET both == Chain("head_") \o Tail(Chain("local")) IN
    /\ WellFormed(Chain("head_")) /\ WellFormed(Chain("local"))
    /\ \A o \in Ops : Times(both, o) = One(op[o].life = "started")
=============================================================================
