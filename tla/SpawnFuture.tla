----------------------------- MODULE SpawnFuture -----------------------------
(***************************************************************************)
(* spawn_future() and future<> (include/unifex/spawn_future.hpp): the      *)
(* spawned operation (O), the owner of the future (F) and the stop request *)
(* that the future's receiver may get (S) share one heap-allocated         *)
(* operation state and negotiate who deletes it through state_.            *)
(*                                                                         *)
(* The stop callback is the state of a let_value_with() operation: it is   *)
(* registered when the future is connected and deregistered when the       *)
(* future's operation state is destroyed.                                  *)
(***************************************************************************)
EXTENDS Naturals

CONSTANT
  Uses   \* the ways spawn_future() is used: sets of "throw", storing the value may
         \* throw, and "discard", a connected future may be destroyed unstarted

ASSUME SpawnFutureAssumption == Uses \subseteq SUBSET {"throw", "discard"}

VARIABLES
  use,        \* the one of Uses this behaviour is about
  state,      \* state_
  stored,     \* the active member of the union values_ / error_
  evt_,       \* evt_ is set
  nested,     \* op_, the nested operation, is constructed
  frees,      \* calls of deleter_
  freedAs,    \* its state argument, and state_ when it was called
  produced,   \* what the spawned operation completed with
  opc, oexp,  \* O: program counter, the local "expected"
  fpc, fst,   \* F: program counter, the local "state"
  owns,       \* F: the scope_guard that deletes is armed
  delivered,  \* what the future completed with
  callback,   \* the stop callback: "none", "registered", "gone"
  spc         \* S: program counter

dataVars == <<stored, evt_, nested, produced>>
memVars  == <<frees, freedAs>>
oVars    == <<opc, oexp>>
fVars    == <<fpc, fst, owns, delivered, callback>>
futureVars == <<use, state, dataVars, memVars, oVars, fVars, spc>>

Signals == {"value", "error", "done"}
States  == Signals \union {"init", "abandoned", "complete"}
None    == "none"

FutureInit ==
  /\ use \in Uses
  /\ state = "init" /\ stored = None /\ evt_ = FALSE /\ nested = FALSE
  /\ frees = 0 /\ freedAs = None /\ produced = None
  /\ opc = "constructing" /\ oexp = "init"
  /\ fpc = "held" /\ fst = "init" /\ owns = FALSE /\ delivered = None
  /\ callback = "none" /\ spc = "idle"

-----------------------------------------------------------------------------
(* deleter_(this, s): asserts s = state_, destroys the member s names. *)

Deleter(s) ==
  /\ frees' = frees + 1
  /\ freedAs' = IF s = state THEN "current" ELSE "stale"
  /\ stored' = IF s = stored \/ frees > 0 THEN None ELSE stored

-----------------------------------------------------------------------------
(* The spawned operation. *)

\* init_operation() and start().
StartOperation ==
  /\ opc = "constructing" /\ fpc \in {"held", "end"}
  /\ nested' = TRUE
  /\ opc' = "running"
  /\ UNCHANGED <<state, stored, evt_, produced, memVars, oexp, fVars, spc>>

\* init_operation() throws: the future is destroyed, then the operation state.
InitThrows ==
  /\ opc = "constructing" /\ fpc \in {"held", "end"}
  /\ opc' = "throwing"
  /\ fpc' = IF fpc = "held" THEN "d_load" ELSE fpc
  /\ UNCHANGED <<state, dataVars, memVars, oexp, fst, owns, delivered, callback, spc>>

InitCatch ==
  /\ opc = "throwing" /\ fpc = "end"
  /\ Deleter("complete")
  /\ opc' = "end"
  /\ UNCHANGED <<state, evt_, nested, produced, oexp, fVars, spc>>

\* complete(desired, func): the compare_exchange from init.
complete(desired) ==
  /\ opc = "running"
  /\ produced' = desired
  /\ \/ state = "init" /\ state' = desired /\ opc' = "store" /\ UNCHANGED oexp
     \/ state # "init" /\ oexp' = state /\ opc' = "negotiate" /\ UNCHANGED state
  /\ UNCHANGED <<stored, evt_, nested, memVars, fVars, spc>>

\* func(): store the result.  A value that throws becomes an error.
Store ==
  /\ opc = "store"
  /\ \/ /\ stored' = IF produced = "done" THEN None ELSE produced
        /\ UNCHANGED <<state, produced>>
     \/ /\ "throw" \in use /\ produced = "value"
        /\ state' = "error" /\ stored' = "error" /\ produced' = "error"
  /\ opc' = "destruct"
  /\ UNCHANGED <<evt_, nested, memVars, oexp, fVars, spc>>

\* complete(): destruct_op() before the future is woken.
DestructOp ==
  /\ opc = "destruct"
  /\ nested' = FALSE
  /\ opc' = "set"
  /\ UNCHANGED <<state, stored, evt_, produced, memVars, oexp, fVars, spc>>

\* complete(): evt_.set().
SetEvt ==
  /\ opc = "set"
  /\ evt_' = TRUE
  /\ opc' = "end"
  /\ UNCHANGED <<state, stored, nested, produced, memVars, oexp, fVars, spc>>

\* negotiate_deletion(): destruct_op(), then see whether the future is gone.
NegotiateDeletion ==
  /\ opc = "negotiate"
  /\ nested' = FALSE
  /\ opc' = IF oexp = "abandoned" THEN "handover" ELSE "delete"
  /\ UNCHANGED <<state, stored, evt_, produced, memVars, oexp, fVars, spc>>

\* Mutation of HandOver: deletes after handing over.
HandOver_Deletes ==
  /\ opc = "handover"
  /\ \/ state = "abandoned" /\ state' = "complete"
     \/ state # "abandoned" /\ UNCHANGED state
  /\ opc' = "delete" /\ oexp' = state
  /\ UNCHANGED <<dataVars, memVars, fVars, spc>>

\* negotiate_deletion(): the compare_exchange from abandoned to complete.
HandOver ==
  /\ opc = "handover"
  /\ \/ state = "abandoned" /\ state' = "complete" /\ opc' = "end" /\ UNCHANGED oexp
     \/ state # "abandoned" /\ oexp' = state /\ opc' = "delete" /\ UNCHANGED state
  /\ UNCHANGED <<dataVars, memVars, fVars, spc>>

\* negotiate_deletion(): deleter_(this, expected).
OperationDeletes ==
  /\ opc = "delete"
  /\ Deleter(oexp)
  /\ opc' = "end"
  /\ UNCHANGED <<state, evt_, nested, produced, oexp, fVars, spc>>

-----------------------------------------------------------------------------
(* The future is dropped. *)

\* The future is destroyed without being connected, or it failed to nest.
DiscardFuture ==
  /\ fpc = "held" /\ opc # "throwing"
  /\ fpc' = "d_load"
  /\ UNCHANGED <<state, dataVars, memVars, oVars, fst, owns, delivered, callback, spc>>

\* drop(): the load of state_.
DropLoad ==
  /\ fpc = "d_load"
  /\ fst' = state
  /\ fpc' = CASE state = "init" -> "d_exchange"
              [] state \in Signals -> "d_wait"
              [] OTHER -> "terminate"
  /\ UNCHANGED <<state, dataVars, memVars, oVars, owns, delivered, callback, spc>>

\* Mutation of DropExchange: does not look whether the exchange succeeded.
DropExchange_Blind ==
  /\ fpc = "d_exchange"
  /\ state' = "complete"
  /\ fpc' = "end"
  /\ UNCHANGED <<dataVars, memVars, oVars, fst, owns, delivered, callback, spc>>

\* drop(): request_stop(), then the compare_exchange from init to complete.
DropExchange ==
  /\ fpc = "d_exchange"
  /\ \/ state = "init" /\ state' = "complete" /\ fpc' = "end" /\ UNCHANGED fst
     \/ state # "init" /\ fst' = state /\ fpc' = "d_wait" /\ UNCHANGED state
  /\ UNCHANGED <<dataVars, memVars, oVars, owns, delivered, callback, spc>>

\* drop(): spin on evt_.ready(), then deleter_(this, state).
DropWait ==
  /\ fpc = "d_wait" /\ evt_
  /\ Deleter(fst)
  /\ fpc' = "end"
  /\ UNCHANGED <<state, evt_, nested, produced, oVars, fst, owns, delivered, callback, spc>>

-----------------------------------------------------------------------------
(* The future is awaited. *)

\* connect(): let_value_with() constructs the stop callback.
ConnectFuture ==
  /\ fpc = "held" /\ opc \notin {"constructing", "throwing"}
  /\ callback' = "registered"
  /\ fpc' = "connected"
  /\ UNCHANGED <<state, dataVars, memVars, oVars, fst, owns, delivered, spc>>

\* The receiver's stop request is not being delivered right now.
CallbackIdle == spc \in {"idle", "end"}

\* The connected operation is destroyed: the callback first, then drop().
DiscardConnected ==
  /\ "discard" \in use
  /\ fpc = "connected" /\ CallbackIdle
  /\ callback' = "gone"
  /\ fpc' = "d_load"
  /\ UNCHANGED <<state, dataVars, memVars, oVars, fst, owns, delivered, spc>>

\* start(): wait for evt_.
StartFuture ==
  /\ fpc = "connected"
  /\ fpc' = "wait"
  /\ UNCHANGED <<state, dataVars, memVars, oVars, fst, owns, delivered, callback, spc>>

\* evt_ is set: take the operation, arm the scope_guard, load state_.
Resume ==
  /\ fpc = "wait" /\ evt_
  /\ fst' = state /\ owns' = TRUE
  /\ fpc' = IF state = "abandoned" THEN "claim" ELSE "result"
  /\ UNCHANGED <<state, dataVars, memVars, oVars, delivered, callback, spc>>

\* Mutation of Claim: a failed exchange does not refresh the local state.
Claim_Stale ==
  /\ fpc = "claim"
  /\ \/ state = "abandoned" /\ state' = "complete" /\ owns' = FALSE
     \/ state # "abandoned" /\ UNCHANGED <<state, owns>>
  /\ fpc' = "result"
  /\ UNCHANGED <<dataVars, memVars, oVars, fst, delivered, callback, spc>>

\* The compare_exchange from abandoned to complete.
Claim ==
  /\ fpc = "claim"
  /\ \/ state = "abandoned" /\ state' = "complete" /\ owns' = FALSE /\ UNCHANGED fst
     \/ state # "abandoned" /\ fst' = state /\ UNCHANGED <<state, owns>>
  /\ fpc' = "result"
  /\ UNCHANGED <<dataVars, memVars, oVars, delivered, callback, spc>>

\* The switch: take the result out of the union; anything else is done.
Result ==
  /\ fpc = "result"
  /\ delivered' = IF fst \in {"value", "error"} THEN stored ELSE "done"
  /\ fpc' = "cleanup"
  /\ UNCHANGED <<state, dataVars, memVars, oVars, fst, owns, callback, spc>>

\* The scope_guard runs.
Cleanup ==
  /\ fpc = "cleanup"
  /\ IF owns THEN Deleter(fst) ELSE UNCHANGED <<memVars, stored>>
  /\ fpc' = "completed"
  /\ UNCHANGED <<state, evt_, nested, produced, oVars, fst, owns, delivered, callback, spc>>

\* The nest_receiver destroys the future's operation state, which waits for a
\* stop callback that is running.
DestroyFuture ==
  /\ fpc = "completed" /\ CallbackIdle
  /\ callback' = "gone"
  /\ fpc' = "end"
  /\ UNCHANGED <<state, dataVars, memVars, oVars, fst, owns, delivered, spc>>

-----------------------------------------------------------------------------
(* The receiver's stop token: abandon(). *)

StopRequested ==
  /\ spc = "idle" /\ callback = "registered"
  /\ spc' = "exchange"
  /\ UNCHANGED <<state, dataVars, memVars, oVars, fVars>>

\* Mutation of Abandon: overwrites a completion signal.
Abandon_Store ==
  /\ spc = "exchange"
  /\ state' = "abandoned" /\ spc' = "publish"
  /\ UNCHANGED <<dataVars, memVars, oVars, fVars>>

\* abandon(): the compare_exchange from init (of freed memory it may do
\* anything; taken here as a failure).
Abandon ==
  /\ spc = "exchange"
  /\ \/ state = "init" /\ frees = 0 /\ state' = "abandoned" /\ spc' = "publish"
     \/ (state # "init" \/ frees > 0) /\ spc' = "end" /\ UNCHANGED state
  /\ UNCHANGED <<dataVars, memVars, oVars, fVars>>

\* abandon(): stopSource_.request_stop() and evt_.set().
AbandonPublish ==
  /\ spc = "publish"
  /\ evt_' = TRUE
  /\ spc' = "end"
  /\ UNCHANGED <<state, stored, nested, produced, memVars, oVars, fVars>>

-----------------------------------------------------------------------------
OStep == \/ StartOperation \/ InitThrows \/ InitCatch \/ Store \/ DestructOp \/ SetEvt
         \/ NegotiateDeletion \/ HandOver \/ OperationDeletes
         \/ \E s \in Signals : complete(s)
FStep == \/ DropLoad \/ DropExchange \/ DropWait
         \/ Resume \/ Claim \/ Result \/ Cleanup \/ DestroyFuture
FCall == DiscardFuture \/ ConnectFuture \/ DiscardConnected \/ StartFuture
SStep == Abandon \/ AbandonPublish

FutureNext == (OStep \/ FStep \/ FCall \/ StopRequested \/ SStep) /\ UNCHANGED use

FutureSpec == FutureInit /\ [][FutureNext]_futureVars

\* Every thread is scheduled, the spawned operation completes, and the future
\* is not kept for ever.
FutureFairSpec ==
  /\ FutureSpec
  /\ WF_futureVars(OStep /\ UNCHANGED use) /\ WF_futureVars(FStep /\ UNCHANGED use)
  /\ WF_futureVars(FCall /\ UNCHANGED use) /\ WF_futureVars(SStep /\ UNCHANGED use)

-----------------------------------------------------------------------------
\* The type of every variable.
FutureTypeOK ==
  /\ use \in Uses /\ state \in States
  /\ stored \in {None, "value", "error"}
  /\ evt_ \in BOOLEAN /\ nested \in BOOLEAN /\ owns \in BOOLEAN
  /\ frees \in Nat /\ freedAs \in {None, "current", "stale"}
  /\ produced \in Signals \union {None} /\ delivered \in Signals \union {None}
  /\ opc \in {"constructing", "throwing", "running", "store", "destruct", "set", "negotiate",
              "handover", "delete", "end"}
  /\ oexp \in States /\ fst \in States
  /\ fpc \in {"held", "d_load", "d_exchange", "d_wait", "terminate", "connected", "wait",
              "claim", "result", "cleanup", "completed", "end"}
  /\ callback \in {"none", "registered", "gone"}
  /\ spc \in {"idle", "exchange", "publish", "end"}

\* The program counters at which O, F and S dereference the operation state.
OUses == opc # "end"
FUses == fpc \in {"held", "d_load", "d_exchange", "d_wait", "connected", "wait", "claim"}
           \/ (fpc \in {"result", "cleanup"} /\ owns)
SUses == spc \in {"exchange", "publish"}

\* The operation state is deleted at most once, and not while the operation or
\* the future is still going to use it; by then the nested operation has been
\* destroyed and, unless storing it threw, the result was destroyed or taken.
DeletedByTheLastUser ==
  /\ frees <= 1
  /\ frees = 1 => /\ ~OUses /\ ~FUses
                  /\ ~nested /\ ("throw" \notin use => stored = None)

\* deleter() asserts that the state it is given is the current one.
DeleterKnowsState == freedAs # "stale"

\* drop() finds no state its switch does not handle: it never terminates.
DropNeverTerminates == fpc # "terminate"

\* However the three parties race, the assertion of deleter() holds when storing
\* the value does not throw, and drop() does not terminate when every future
\* that is connected is started.
AssertionsHoldInPlainUse ==
  /\ "throw" \notin use => DeleterKnowsState
  /\ "discard" \notin use => DropNeverTerminates

\* The future completes with what the operation produced, or with done when it
\* was abandoned before the operation completed (then the exchange from init
\* in complete() fails).
DeliversWhatWasProduced ==
  fpc \in {"cleanup", "completed"} =>
    \/ delivered = produced /\ delivered # None
    \/ delivered = "done" /\ (produced = None \/ oexp # "init")

\* A stop request that comes after the operation has completed is ignored: the
\* callback does not touch an operation state that has been deleted.
StopFindsOperation == frees > 0 => ~SUses

\* The operation state is deleted in the end, unless drop() terminates first, and
\* a future that is started completes.
EventuallyDeleted ==
  /\ <>(frees = 1 \/ fpc = "terminate")
  /\ fpc = "wait" ~> fpc = "end"
=============================================================================
