--------------------------- MODULE SimpleAdaptors ---------------------------
(***************************************************************************)
(* The factories that complete in start(), and the adaptors with one child *)
(* that transform its signal on the way through.                           *)
(***************************************************************************)
EXTENDS Effects

-----------------------------------------------------------------------------
(* Factories: no child at all.                                             *)
Factory(effects) ==
  [op |-> [ctor |-> NoEffects, start |-> effects, dtor |-> NoEffects]]

Just_op == <<DeliverOr("value", <<Deliver("error")>>)>>
Just_sender(c) == [sends_done |-> FALSE, blocking |-> always_inline]

JustError_op == <<Deliver("error")>>
JustError_sender(c) == [sends_done |-> FALSE, blocking |-> always_inline]

JustVoidOrDone_op == <<Either(<<DeliverOr("value", <<Terminate>>)>>, <<Deliver("done")>>)>>
JustVoidOrDone_sender(c) == [sends_done |-> TRUE, blocking |-> always_inline]

StopIfRequested_op ==
  <<IfStopped("receiver", <<Deliver("done")>>, <<DeliverOr("value", <<Deliver("error")>>)>>)>>
StopIfRequested_sender(c) == [sends_done |-> TRUE, blocking |-> always_inline]

(* inline_scheduler's schedule(): the same, also when stop is impossible.  *)
InlineScheduler_op == StopIfRequested_op
InlineScheduler_schedule_task(c) == [sends_done |-> TRUE, blocking |-> always_inline]

(* never: completes from its stop callback, which destroys itself first;   *)
(* or at once, when it was made from a bool.                               *)
Never_cancel_callback == [stop |-> <<Deregister("stopCallback"), Deliver("done")>>]
Never_op ==
  [ctor |-> NoEffects,
   start |-> <<Either(<<DeliverOr("value", <<Terminate>>), Return>>, <<>>),
               Register("stopCallback", "receiver")>>,
   dtor |-> NoEffects]
Never_sender(c) == [sends_done |-> TRUE, blocking |-> maybe]
Never == [op |-> Never_op, stopCallback |-> Never_cancel_callback]

-----------------------------------------------------------------------------
(* One child, whose operation state is the operation state: connect()      *)
(* connects the predecessor to a receiver that wraps the receiver.         *)
Wrapped ==
  [ctor |-> <<Make("pred", <<Throw>>)>>, start |-> <<Start("pred")>>, dtor |-> <<Del("pred")>>]
Inherit(d) == [sends_done |-> d.done, blocking |-> d.blocking]

(* Call the function and deliver its result; the wrapping handler is       *)
(* noexcept, with a catch only if the function may throw.                  *)
ThenDeliver ==
  <<Either(<<DeliverOr("value", <<Terminate>>), Return>>, <<>>),
    Invoke(<<Deliver("error")>>), DeliverOr("value", <<Deliver("error")>>)>>

Then_receiver == [value |-> ThenDeliver, error |-> <<DeliverFrom("error", "pred")>>,
                  done |-> <<Deliver("done")>>]
Then_sender(c) == Inherit(c.pred)

(* Mutation of UponDone_receiver: done is passed on as well.               *)
UponDone_receiver_FallsThrough ==
  [value |-> <<DeliverFrom("value", "pred")>>, error |-> <<DeliverFrom("error", "pred")>>,
   done |-> ThenDeliver \o <<Deliver("done")>>]

UponDone_receiver == [value |-> <<DeliverFrom("value", "pred")>>,
                      error |-> <<DeliverFrom("error", "pred")>>, done |-> ThenDeliver]
UponDone_sender(c) == [sends_done |-> FALSE, blocking |-> c.pred.blocking]

UponError_receiver == [value |-> <<DeliverFrom("value", "pred")>>, error |-> ThenDeliver,
                       done |-> <<Deliver("done")>>]
UponError_sender(c) == Inherit(c.pred)

(* materialize sends every signal as a value, dematerialize turns it back. *)
Materialize_receiver ==
  [value |-> <<DeliverFrom("value", "pred")>>,
   error |-> <<DeliverFromOr("value", "pred", <<Deliver("error")>>)>>,
   done |-> <<DeliverOr("value", <<Deliver("error")>>)>>]
Materialize_sender(c) == [sends_done |-> FALSE, blocking |-> c.pred.blocking]

Dematerialize_receiver ==
  [value |-> <<Either(<<DeliverFrom("value", "pred")>>,
                      <<Either(<<DeliverFrom("error", "pred")>>, <<Deliver("done")>>)>>)>>,
   error |-> <<DeliverFrom("error", "pred")>>,
   done |-> <<Deliver("done")>>]
Dematerialize_sender(c) == Inherit(c.pred)

(* A queried value of the operation state, read by the child.              *)
WithQueryValue_receiver_wrapper ==
  [value |-> <<DeliverFromOr("value", "pred", <<Deliver("error")>>)>>,
   error |-> <<DeliverFrom("error", "pred")>>, done |-> <<Deliver("done")>>]
WithQueryValue_op ==
  [ctor |-> <<Make("query", <<Throw>>), Make("pred", <<Del("query"), Throw>>)>>,
   start |-> <<Use("query"), Start("pred")>>,
   dtor |-> <<Del("pred"), Del("query")>>]
WithQueryValue_sender(c) == Inherit(c.pred)

(* The tuple made of the values may throw, to the predecessor.             *)
IntoVariant_receiver ==
  [value |-> <<Invoke(<<Throw>>), Deliver("value")>>,
   error |-> <<DeliverFrom("error", "pred")>>, done |-> <<Deliver("done")>>]
IntoVariant_sender(c) == Inherit(c.pred)

(* indexed_for: the loop over the range, under a catch if it may throw.    *)
IndexedFor_receiver == [value |-> ThenDeliver, error |-> <<DeliverFrom("error", "pred")>>,
                        done |-> <<Deliver("done")>>]
IndexedFor_sender(c) == Inherit(c.pred)

(* allocate: the child's operation state on the heap; the guard frees it   *)
(* when connect() throws.                                                  *)
Allocate_op ==
  [ctor |-> <<Make("memory", <<Throw>>), Make("pred", <<Del("memory"), Throw>>)>>,
   start |-> <<Use("memory"), Start("pred")>>,
   dtor |-> <<Del("pred"), Del("memory")>>]
Allocate_sender(c) == Inherit(c.pred)

-----------------------------------------------------------------------------
(* bulk_schedule, bulk_transform and bulk_join: the receivers of one chain *)
(* are called through set_next for every index, a chunk at a time, unless  *)
(* stop is requested between chunks.  An exception of set_next leaves      *)
(* set_value to the scheduler's operation.                                 *)
BulkJoin_join_receiver == [next |-> NoEffects]
BulkJoin_sender(c) == Inherit(c.pred)

BulkTransform_tfx_receiver == [next |-> <<Invoke(<<Throw>>), Call("join", "next")>>]
BulkTransform_tfx_sender(c) == Inherit(c.pred)

Chunk ==
  Either(<<IfStopped("receiver", <<Deliver("done"), Return>>, <<>>),
           Call("transform", "next")>>,
         <<>>)
BulkSchedule_schedule_receiver ==
  [value |-> <<Chunk, Chunk, Deliver("value")>>,
   error |-> <<DeliverFrom("error", "pred")>>,
   done |-> <<Deliver("done")>>]
BulkSchedule_default_sender(c) == [sends_done |-> TRUE, blocking |-> c.pred.blocking]

Bulk ==
  [op |-> Wrapped, pred |-> BulkSchedule_schedule_receiver,
   transform |-> BulkTransform_tfx_receiver, join |-> BulkJoin_join_receiver]

-----------------------------------------------------------------------------
(* let_value_with: a state built in place before the successor.            *)
LetValueWith_operation ==
  [ctor |-> <<Make("state", <<Throw>>), Make("pred", <<Del("state"), Throw>>)>>,
   start |-> <<Start("pred")>>,
   dtor |-> <<Del("pred"), Del("state")>>]
LetValueWith_sender(c) == Inherit(c.pred)

(* fused_stop_source: an optional callback that hands a stop request on to *)
(* the source it is a part of.                                             *)
fused_stop_callback == [stop |-> <<RequestStop("source")>>]
register_callbacks == <<Register("callbacks", "receiver")>>
deregister_callbacks == <<Reset("callbacks")>>

LetValueWithStopSource_receiver ==
  [value |-> deregister_callbacks \o <<DeliverFrom("value", "pred")>>,
   error |-> deregister_callbacks \o <<DeliverFrom("error", "pred")>>,
   done |-> deregister_callbacks \o <<Deliver("done")>>]
LetValueWithStopSource_operation ==
  [ctor |-> <<Make("pred", <<Throw>>)>>,
   start |-> register_callbacks \o <<Start("pred")>>,
   dtor |-> <<Del("pred")>> \o deregister_callbacks]
LetValueWithStopSource_sender(c) == Inherit(c.pred)
LetValueWithStopSource ==
  [op |-> LetValueWithStopSource_operation, pred |-> LetValueWithStopSource_receiver,
   callbacks |-> fused_stop_callback]

(* let_value_with_stop_token: the receiver's own token when that is an     *)
(* inplace_stop_token, a fused source otherwise.                           *)
LetValueWithStopToken_receiver ==
  [value |-> <<Call("op", "cleanup"), DeliverFrom("value", "pred")>>,
   error |-> <<Call("op", "cleanup"), DeliverFrom("error", "pred")>>,
   done |-> <<Call("op", "cleanup"), Deliver("done")>>]
LetValueWithStopToken_operation ==
  [ctor |-> <<Make("pred", <<Throw>>)>>, start |-> <<Start("pred")>>,
   cleanup |-> NoEffects, dtor |-> <<Del("pred")>>]
LetValueWithStopToken_fused_operation ==
  [ctor |-> <<Make("pred", <<Throw>>)>>, start |-> register_callbacks \o <<Start("pred")>>,
   cleanup |-> deregister_callbacks, dtor |-> <<Del("pred")>> \o deregister_callbacks]
LetValueWithStopToken_sender(c) == Inherit(c.pred)

(* any_sender_of: the stop token is adapted in the constructor, before the *)
(* erased sender is connected.                                             *)
inplace_stop_token_adapter == [stop |-> <<RequestStop("source")>>]
unsubscribe == <<Reset("subscription")>>
AnySenderOf_op_for ==
  [ctor |-> <<Register("subscription", "receiver"), Make("pred", unsubscribe \o <<Throw>>)>>,
   start |-> <<Start("pred")>>,
   dtor |-> <<Del("pred")>> \o unsubscribe]
AnySenderOf_rec_ref ==
  [value |-> unsubscribe \o <<DeliverFrom("value", "pred")>>,
   error |-> unsubscribe \o <<DeliverFrom("error", "pred")>>,
   done |-> unsubscribe \o <<Deliver("done")>>]
AnySenderOf ==
  [op |-> AnySenderOf_op_for, pred |-> AnySenderOf_rec_ref,
   subscription |-> inplace_stop_token_adapter]

-----------------------------------------------------------------------------
(* variant_sender: one of two senders, chosen at run time.                 *)
VariantSender_op ==
  [ctor |-> <<Either(<<Set("index", "first"), Make("first", <<Throw>>)>>,
                     <<Set("index", "second"), Make("second", <<Throw>>)>>)>>,
   start |-> <<If("index", "first", <<Start("first")>>, <<Start("second")>>)>>,
   dtor |-> <<If("index", "first", <<Del("first")>>, <<Del("second")>>)>>]
VariantSender_sender(c) ==
  [sends_done |-> c.first.done \/ c.second.done,
   blocking |-> IF c.first.blocking = c.second.blocking THEN c.first.blocking
                ELSE Smaller(Larger(c.first.blocking, c.second.blocking), maybe)]
VariantSender == [op |-> VariantSender_op, first |-> Forward("first"), second |-> Forward("second")]

(* find_if: the predecessor's range is searched by an inner operation made *)
(* from a temporary helper, whose address the sequenced search keeps; the  *)
(* receiver of the inner operation is a part of it.                        *)
FindIf_unpack_receiver ==
  [value |-> <<Del("inner"), Use("inner"), DeliverOr("value", <<Deliver("error")>>)>>,
   error |-> <<Del("inner"), Use("inner"), Deliver("error")>>,
   done |-> <<Del("inner"), Use("inner"), Deliver("done")>>]
FindIf_find_if_helper == <<New("helper"), Either(<<Set("policy", "seq")>>, <<Set("policy", "par")>>),
                           Del("helper")>>
FindIf_receiver ==
  [value |-> FindIf_find_if_helper \o
             <<Make("inner", <<Call("inner", "error")>>), Set("started", "true"),
               If("policy", "seq", <<Use("helper")>>, <<>>), Start("inner")>>,
   error |-> <<DeliverFrom("error", "pred")>>,
   done |-> <<Deliver("done")>>]
FindIf_operation_state ==
  [ctor |-> <<Make("pred", <<Throw>>)>>, start |-> <<Start("pred")>>, dtor |-> <<Del("pred")>>]
FindIf == [op |-> FindIf_operation_state, pred |-> FindIf_receiver, inner |-> FindIf_unpack_receiver]

-----------------------------------------------------------------------------
(* sync_wait: the caller runs its own event loop until the receiver stops  *)
(* it, and then reads the promise.                                         *)
signal_complete == <<Set("ctx", "stopped")>>
SyncWait_receiver ==
  [value |-> <<Make("value", <<New("exception"), Set("state", "error")>> \o signal_complete),
               Set("state", "value")>> \o signal_complete,
   error |-> <<New("exception"), Set("state", "error")>> \o signal_complete,
   done |-> <<Set("state", "done")>> \o signal_complete]
SyncWait_promise ==
  <<If("state", "value", <<Del("value")>>, <<>>), If("state", "error", <<Del("exception")>>, <<>>)>>
SyncWait_impl ==
  [ctor |-> NoEffects,
   start |-> <<Make("pred", <<Deliver("error"), Return>>), Start("pred"), Await("ctx", "stopped"),
               Del("pred"),
               If("state", "done", <<Deliver("done"), Return>>, <<>>),
               If("state", "value",
                  <<Use("value"), DeliverOr("value", <<Deliver("error")>>), Return>>, <<>>),
               If("state", "error", <<Use("exception"), Deliver("error")>>, <<>>)>>,
   dtor |-> SyncWait_promise]
SyncWait == [op |-> SyncWait_impl, pred |-> SyncWait_receiver]

(* spawn_detached: the operation frees itself; an error terminates.        *)
SpawnDetached_receiver ==
  [value |-> <<Call("op", "destroy"), Deliver("value")>>,
   error |-> <<Terminate>>,
   done |-> <<Call("op", "destroy"), Deliver("done")>>]
SpawnDetached_op ==
  [ctor |-> <<Make("memory", <<Throw>>), Make("pred", <<Del("memory"), Throw>>)>>,
   start |-> <<Start("pred")>>,
   destroy |-> <<Del("pred"), Del("memory")>>,
   dtor |-> NoEffects]
SpawnDetached == [op |-> SpawnDetached_op, pred |-> SpawnDetached_receiver]

-----------------------------------------------------------------------------
(* create: the function gets the operation as a receiver, and completes it *)
(* then or later.                                                          *)
Create_receiver ==
  [value |-> <<DeliverOr("value", <<Deliver("error")>>)>>, error |-> <<Deliver("error")>>,
   done |-> <<Deliver("done")>>]
Create_op ==
  [ctor |-> <<New("api")>>, start |-> <<Invoke(<<Deliver("error")>>), Start("api")>>,
   dtor |-> <<Del("api")>>]
Create == [op |-> Create_op, api |-> Create_receiver]
=============================================================================
