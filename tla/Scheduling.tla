----------------------------- MODULE Scheduling -----------------------------
(***************************************************************************)
(* What the execution contexts have in common: operations that are         *)
(* started, from a thread of the context or from another one, that the     *)
(* context completes, and that may be asked to stop meanwhile.  One        *)
(* behaviour is the life of one context, `which'; its own state is the     *)
(* record ctx, with the names of the members of its class.                 *)
(***************************************************************************)
EXTENDS Integers, Sequences, FiniteSets

CONSTANTS Ops,      \* the operations
          StopOps,  \* those whose receiver may be asked to stop
          Workers,  \* the threads of a context that has several
          MaxTime   \* the last tick of the clock

VARIABLES which,  \* the context (never changes)
          op,     \* the operations
          ctx     \* the context's state

vars == <<which, op, ctx>>

-----------------------------------------------------------------------------
(* Who calls start(): a thread outside the context, or one of its threads. *)
Nobody == 0
Outside == -1

(* An operation: what it is, how far it has come, the signals its receiver *)
(* got, whether stop was requested, what became of its stop callback       *)
(* ("none", "set", "running", "ran"), who calls start() and where the      *)
(* threads that start it and that request its stop are, its due time.      *)
NewOp(kind) ==
  [kind |-> kind, life |-> "idle", signals |-> <<>>, stopped |-> FALSE,
   cb |-> "none", by |-> Nobody, start |-> "no", stop |-> "no", due |-> 0]

(* start() is called by a thread outside the context, or by user code that *)
(* a thread of the context runs, which goes on when start() has returned.  *)
Begun(r, by, pc) == [r EXCEPT !.life = "started", !.by = by, !.start = pc]
Returned(r) == [r EXCEPT !.start = "returned", !.by = Nobody]
StartsNothing(w) == \A o \in Ops : op[o].by # w

(* The receiver is completed: the operation may be gone from here on.      *)
Completed(r, signal) == [r EXCEPT !.life = "completed", !.signals = Append(r.signals, signal)]
CompletedScheduled(r) == Completed(r, IF r.stopped THEN "done" ELSE "value")

(* Nothing started is still to complete and no start() is still running:   *)
(* what the destructor of a context asks of its user.                      *)
Quiet == \A o \in Ops : op[o].life \in {"idle", "completed"} /\ op[o].start \in {"no", "returned"}

-----------------------------------------------------------------------------
(* The operation's stop callback.  Its constructor runs it at once when    *)
(* stop was requested; its destructor, on another thread than the one that *)
(* runs it, waits for it to return.                                        *)
Constructed(r) == [r EXCEPT !.cb = IF r.stopped THEN "ran" ELSE "set"]
MayDestruct(o) == op[o].cb # "running"
Destructed(r) == [r EXCEPT !.cb = "none"]

(* A stop request from another thread takes the callback, and runs it from *)
(* pc on, or there is none to run.                                         *)
MayRequestStop(o) ==
  o \in StopOps /\ op[o].life # "idle" /\ ~op[o].stopped
StopBegun(r, pc) ==
  IF r.cb = "set" THEN [r EXCEPT !.stopped = TRUE, !.cb = "running", !.stop = pc]
  ELSE [r EXCEPT !.stopped = TRUE]
CallbackReturned(r) == [r EXCEPT !.cb = "ran", !.stop = "no"]

-----------------------------------------------------------------------------
(* The contexts for I/O compose their handlers from smaller ones that take *)
(* a state to a state; these are the same steps of one operation of s.     *)
State == [op |-> op, ctx |-> ctx]
Become(s) == op' = s.op /\ ctx' = s.ctx /\ UNCHANGED which
StartBegins(s, o, by, pc) == [s EXCEPT !.op[o] = Begun(s.op[o], by, pc)]
StartReturns(s, o) == [s EXCEPT !.op[o] = Returned(s.op[o])]
Complete(s, o, signal) == [s EXCEPT !.op[o] = Completed(s.op[o], signal)]
CompleteScheduled(s, o) == [s EXCEPT !.op[o] = CompletedScheduled(s.op[o])]
Construct(s, o) == [s EXCEPT !.op[o] = Constructed(s.op[o])]
Destruct(s, o) == [s EXCEPT !.op[o] = Destructed(s.op[o])]
StopBegins(s, o, pc) == [s EXCEPT !.op[o] = StopBegun(s.op[o], pc)]
CallbackReturns(s, o) == [s EXCEPT !.op[o] = CallbackReturned(s.op[o])]

-----------------------------------------------------------------------------
(* The lists that items are linked into: what is in one, where, and the    *)
(* list with an item linked in before the k-th, and with one unlinked.     *)
Items(list) == {list[i] : i \in DOMAIN list}
Position(list, o) == CHOOSE i \in DOMAIN list : list[i] = o
Link(list, k, o) == SubSeq(list, 1, k - 1) \o <<o>> \o SubSeq(list, k, Len(list))
Unlink(list, o) ==
  IF o \notin Items(list) THEN list
  ELSE SubSeq(list, 1, Position(list, o) - 1) \o SubSeq(list, Position(list, o) + 1, Len(list))
(* What a loop over a list keeps of it when it passes over some items.     *)
Excluding(list, passed) ==
  LET kept[i \in 0 .. Len(list)] ==
        IF i = 0 THEN <<>>
        ELSE IF list[i] \in passed THEN kept[i - 1] ELSE Append(kept[i - 1], list[i])
  IN  kept[Len(list)]

(* A list in ascending order of due time, as the timed contexts keep it: a *)
(* new item goes behind those that are due no later.                       *)
FirstLater(ops, list, due) ==
  LET later == {i \in DOMAIN list : ops[list[i]].due > due}
  IN  IF later = {} THEN Len(list) + 1 ELSE CHOOSE i \in later : \A j \in later : i <= j
InsertByDueTime(ops, list, o) == Link(list, FirstLater(ops, list, ops[o].due), o)

Times(seq, x) == Cardinality({i \in DOMAIN seq : seq[i] = x})
One(b) == IF b THEN 1 ELSE 0
=============================================================================
