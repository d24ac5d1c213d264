------------------------------ MODULE Streams ------------------------------
(***************************************************************************)
(* Streams and what consumes them.  A stream adaptor is the record of the  *)
(* operations of next() and cleanup() and of the stream object they share; *)
(* the children are the operations of the streams it is made from.         *)
(***************************************************************************)
EXTENDS Effects

-----------------------------------------------------------------------------
(* stop_immediately: a stop request ends next() at once, while the next()  *)
(* of the source is still running.                                         *)
StopImmediately_concrete_receiver(sig) ==
  <<Deregister("stopCallback"), DeliverOr(sig, <<Terminate>>)>>

StopImmediately_cancel_next_callback ==
  [stop |-> <<If("state", "source_next_active",
                 <<Cas("state", "source_next_active", "source_next_active_stream_stopped",
                       <<RequestStop("source"), Require("nextReceiver", "set"),
                         Set("nextReceiver", "null"), Call("next", "done")>>,
                       <<Require("state", "source_next_completed")>>)>>,
                 <<Require("state", "source_next_completed")>>)>>]

StopImmediately_handle_signal(deliverSignalTo) ==
  <<Del("nextOp"),
    If("state", "source_next_active",
       <<Cas("state", "source_next_active", "source_next_completed",
             <<Require("nextReceiver", "set"), Set("nextReceiver", "null")>> \o deliverSignalTo \o
               <<Return>>,
             <<>>)>>, <<>>),
    Cas("state", "source_next_active_stream_stopped", "source_next_completed", <<Return>>, <<>>),
    Recall("nextOp"),
    Require("state", "source_next_active_cleanup_requested"), Require("cleanupOp_", "set"),
    Call("cleanup", "start_cleanup")>>

StopImmediately_next_receiver ==
  [value |-> StopImmediately_handle_signal(<<Call("next", "value")>>),
   done |-> StopImmediately_handle_signal(<<Call("next", "done")>>),
   error |-> <<Set("nextError", "set")>> \o
             StopImmediately_handle_signal(<<Set("nextError", "null"), Call("next", "error")>>)]

StopImmediately_next_op ==
  [ctor |-> NoEffects,
   start |-> <<IfStopped("receiver", <<Deliver("done"), Return>>, <<>>),
               Make("nextOp", <<Set("state", "source_next_completed"), Deliver("error")>>),
               Set("nextReceiver", "set"), Set("state", "source_next_active"),
               Invoke(<<Set("nextReceiver", "null"), Del("nextOp"),
                        Set("state", "source_next_completed"), Deliver("error")>>),
               Register("stopCallback", "receiver"), Use("next"), Start("nextOp")>>,
   value |-> StopImmediately_concrete_receiver("value"),
   done |-> StopImmediately_concrete_receiver("done"),
   error |-> StopImmediately_concrete_receiver("error"),
   dtor |-> NoEffects]

StopImmediately_receiver_wrapper ==
  [done |-> <<Del("cleanupOp"),
              If("nextError", "set", <<Deliver("error")>>, <<Deliver("done")>>)>>,
   error |-> <<Del("cleanupOp"),
               If("nextError", "set", <<Deliver("error")>>, <<DeliverFrom("error", "cleanupOp")>>)>>]

StopImmediately_cleanup_op ==
  [ctor |-> NoEffects,
   start |-> <<If("state", "source_next_active_stream_stopped",
                  <<Set("cleanupOp_", "set"),
                    Cas("state", "source_next_active_stream_stopped",
                        "source_next_active_cleanup_requested", <<Return>>, <<>>)>>, <<>>),
               If("state", "source_next_completed",
                  <<Call("cleanup", "start_cleanup"), Return>>, <<>>),
               Require("state", "not_started"), Deliver("done")>>,
   start_cleanup |-> <<Make("cleanupOp", <<Deliver("error")>>), Start("cleanupOp")>>,
   dtor |-> NoEffects]

StopImmediately ==
  [next |-> StopImmediately_next_op, cleanup |-> StopImmediately_cleanup_op,
   nextOp |-> StopImmediately_next_receiver, cleanupOp |-> StopImmediately_receiver_wrapper,
   stopCallback |-> StopImmediately_cancel_next_callback, stream |-> [dtor |-> NoEffects]]

-----------------------------------------------------------------------------
(* take_until: the items of the source until the trigger completes.        *)
TakeUntil_trigger_next_receiver ==
  LET set_done == <<Del("triggerNextOp"), Call("stream", "trigger_next_done")>>
  IN [value |-> set_done, error |-> set_done, done |-> set_done]

TakeUntil_receiver_wrapper ==
  [value |-> <<Deregister("stopCallback"), DeliverFromOr("value", "innerOp", <<Terminate>>)>>,
   done |-> <<Deregister("stopCallback"), RequestStop("source"), Deliver("done")>>,
   error |-> <<Deregister("stopCallback"), RequestStop("source"), DeliverFrom("error", "innerOp")>>]

TakeUntil_next_op ==
  [ctor |-> <<Make("innerOp", <<Throw>>)>>,
   start |-> <<If("triggerNextStarted", "false",
                  <<Set("triggerNextStarted", "true"), Call("next", "start_trigger")>>, <<>>),
               Register("stopCallback", "receiver"), Start("innerOp")>>,
   start_trigger |-> <<Make("triggerNextOp", <<Call("stream", "trigger_next_done")>>),
                       Start("triggerNextOp")>>,
   dtor |-> <<Del("innerOp")>>]

TakeUntil_source_receiver ==
  [done |-> <<Del("sourceOp"), Call("cleanup", "source_cleanup_done")>>,
   error |-> <<Del("sourceOp"), Call("cleanup", "source_cleanup_error")>>]

TakeUntil_trigger_receiver ==
  [done |-> <<Del("sourceOp"), Call("cleanup", "trigger_cleanup_done")>>,
   error |-> <<Del("triggerOp"), Call("cleanup", "trigger_cleanup_error")>>]

(* Both cleanups have to complete: the second one delivers.                *)
CleanupCompleted ==
  If("cleanupCompleted", "false",
     <<Exchange("cleanupCompleted", <<Return>>, <<>>)>>, <<>>)
ErrorOf(f, otherwise) == If(f, "set", <<Deliver("error")>>, otherwise)

TakeUntil_cleanup_op ==
  [ctor |-> NoEffects,
   start |-> <<Call("cleanup", "start_source_cleanup"),
               If("cleanupReady", "false",
                  <<Set("cleanupOperation", "set"), RequestStop("source"),
                    Exchange("cleanupReady", <<Return>>, <<>>)>>, <<>>),
               Call("cleanup", "start_trigger_cleanup")>>,
   start_source_cleanup |-> <<Make("sourceOp", <<Call("cleanup", "source_cleanup_error")>>),
                              Start("sourceOp")>>,
   start_trigger_cleanup |-> <<Make("triggerOp", <<Call("cleanup", "trigger_cleanup_error")>>),
                               Start("triggerOp")>>,
   source_cleanup_done |-> <<CleanupCompleted, ErrorOf("triggerError", <<Deliver("done")>>)>>,
   source_cleanup_error |-> <<Set("sourceError", "set"), CleanupCompleted, Deliver("error")>>,
   trigger_cleanup_done |-> <<CleanupCompleted, ErrorOf("sourceError", <<Deliver("done")>>)>>,
   trigger_cleanup_error |-> <<Set("triggerError", "set"), CleanupCompleted, Deliver("error")>>,
   dtor |-> NoEffects]

TakeUntil_trigger_next_done ==
  <<If("cleanupReady", "false",
       <<RequestStop("source"), Exchange("cleanupReady", <<Return>>, <<>>)>>, <<>>),
    Require("cleanupOperation", "set"), Call("cleanup", "start_trigger_cleanup")>>

TakeUntil ==
  [next |-> TakeUntil_next_op, cleanup |-> TakeUntil_cleanup_op,
   innerOp |-> TakeUntil_receiver_wrapper, triggerNextOp |-> TakeUntil_trigger_next_receiver,
   sourceOp |-> TakeUntil_source_receiver, triggerOp |-> TakeUntil_trigger_receiver,
   stopCallback |-> [stop |-> <<RequestStop("source")>>],
   stream |-> [trigger_next_done |-> TakeUntil_trigger_next_done, dtor |-> NoEffects]]

-----------------------------------------------------------------------------
(* reduce_stream: consume every item, then clean up, then deliver the      *)
(* state or the error; next and the two cleanups share a union.            *)
ReduceStream_error_cleanup_receiver ==
  [error |-> <<Del("errorCleanup"), Deliver("error")>>,
   done |-> <<Del("errorCleanup"), Deliver("error")>>]

ReduceStream_done_cleanup_receiver ==
  [error |-> <<Del("doneCleanup"), Deliver("error")>>,
   done |-> <<Del("doneCleanup"), DeliverOr("value", <<Terminate>>)>>]

ReduceStream_fail == <<Make("errorCleanup", <<Terminate>>), Start("errorCleanup")>>
ReduceStream_next_receiver ==
  [value |-> <<Del("item"), Invoke(ReduceStream_fail), Make("item", ReduceStream_fail), Start("item")>>,
   error |-> <<Del("item")>> \o ReduceStream_fail,
   done |-> <<Del("item"), Make("doneCleanup", <<Terminate>>), Start("doneCleanup")>>]

ReduceStream_operation ==
  [ctor |-> NoEffects,
   start |-> <<Make("item", <<Deliver("error")>>), Start("item")>>,
   dtor |-> NoEffects]

ReduceStream ==
  [op |-> ReduceStream_operation, item |-> ReduceStream_next_receiver,
   errorCleanup |-> ReduceStream_error_cleanup_receiver,
   doneCleanup |-> ReduceStream_done_cleanup_receiver]

-----------------------------------------------------------------------------
(* filter_stream: next() runs the source's next() until an item passes.    *)
FilterStream_next_receiver ==
  [value |-> <<Invoke(<<Deliver("error")>>),
               Either(<<DeliverFromOr("value", "next_", <<Deliver("error")>>)>>,
                      <<Del("next_"), Set("nextEngaged", "false"),
                        Make("next_", <<Deliver("error")>>), Set("nextEngaged", "true"),
                        Start("next_")>>)>>,
   error |-> <<DeliverFrom("error", "next_")>>,
   done |-> <<Deliver("done")>>]

FilterStream_operation ==
  [ctor |-> <<Set("nextEngaged", "false"), Make("next_", <<Throw>>), Set("nextEngaged", "true")>>,
   start |-> <<Start("next_")>>,
   dtor |-> <<If("nextEngaged", "true", <<Del("next_")>>, <<>>)>>]

(* cleanup() of a stream that only adapts next() is the source's.          *)
SourceCleanup ==
  [ctor |-> <<Make("cleanup_", <<Throw>>)>>, start |-> <<Start("cleanup_")>>,
   dtor |-> <<Del("cleanup_")>>]
SourceCleanup_receiver ==
  [error |-> <<DeliverFrom("error", "cleanup_")>>, done |-> <<Deliver("done")>>]

FilterStream ==
  [next |-> FilterStream_operation, next_ |-> FilterStream_next_receiver,
   cleanup |-> SourceCleanup, cleanup_ |-> SourceCleanup_receiver,
   stream |-> [dtor |-> NoEffects]]

-----------------------------------------------------------------------------
(* type_erased_stream: a reference count, of the source's next() and of a  *)
(* stop callback that is asking it to stop, decides who completes.         *)
TypeErasedStream_complete(deliver) == <<Dec("refCount", deliver, <<>>)>>
TypeErasedStream_next_receiver(sig) ==
  TypeErasedStream_complete(<<DeliverOr(sig, <<Terminate>>)>>)

TypeErasedStream_next_receiver_wrapper ==
  LET completed(sig) == <<Del("next_"), Recall("next_"), Call("next", sig)>>
  IN [value |-> <<Invoke(completed("error"))>> \o completed("value"),
      error |-> completed("error"), done |-> completed("done")]

TypeErasedStream_cleanup_receiver_wrapper ==
  [error |-> <<Del("cleanup_"), Recall("cleanup_"), Deliver("error")>>,
   done |-> <<Del("cleanup_"), Recall("cleanup_"), Deliver("done")>>]

start_next == <<Make("next_", <<Call("next", "error")>>), Start("next_")>>
start_cleanup == <<Make("cleanup_", <<Deliver("error")>>), Start("cleanup_")>>

(* fetch_add(1): the operation was completed if the count was zero.        *)
TypeErasedStream_request_stop ==
  <<Cas("refCount", "1", "2",
        <<RequestStop("source"), Call("next", "done")>>,
        <<Cas("refCount", "0", "1", <<>>, <<Abort>>)>>)>>

TypeErasedStream_next_op ==
  [ctor |-> <<Set("refCount", "1"), Register("stopCallback", "receiver")>>,
   start |-> start_next,
   value |-> TypeErasedStream_next_receiver("value"),
   error |-> TypeErasedStream_next_receiver("error"),
   done |-> TypeErasedStream_next_receiver("done"),
   dtor |-> <<Deregister("stopCallback")>>]

TypeErasedStream_cleanup_op ==
  [ctor |-> NoEffects, start |-> start_cleanup, dtor |-> NoEffects]

TypeErasedStream ==
  [next |-> TypeErasedStream_next_op, cleanup |-> TypeErasedStream_cleanup_op,
   next_ |-> TypeErasedStream_next_receiver_wrapper,
   cleanup_ |-> TypeErasedStream_cleanup_receiver_wrapper,
   stopCallback |-> [stop |-> TypeErasedStream_request_stop], stream |-> [dtor |-> NoEffects]]

-----------------------------------------------------------------------------
(* transform_stream: next() is then(next(), func).                         *)
NextOfSource ==
  [ctor |-> <<Make("next_", <<Throw>>)>>, start |-> <<Start("next_")>>, dtor |-> <<Del("next_")>>]
TransformStream ==
  [next |-> NextOfSource,
   next_ |-> [value |-> <<Invoke(<<Deliver("error")>>), DeliverOr("value", <<Deliver("error")>>)>>,
              error |-> <<DeliverFrom("error", "next_")>>, done |-> <<Deliver("done")>>],
   cleanup |-> SourceCleanup, cleanup_ |-> SourceCleanup_receiver,
   stream |-> [dtor |-> NoEffects]]

(* single: the sender is the only item.                                    *)
Single_next_operation ==
  [ctor |-> <<If("sender", "set", <<Set("sender", "null"), Make("innerOp", <<Throw>>)>>, <<>>)>>,
   start |-> <<IfLive("innerOp", <<Start("innerOp")>>, <<Deliver("done")>>)>>,
   dtor |-> <<IfLive("innerOp", <<Del("innerOp")>>, <<>>)>>]
JustDone == [ctor |-> NoEffects, start |-> <<Deliver("done")>>, dtor |-> NoEffects]
Single ==
  [next |-> Single_next_operation, innerOp |-> Forward("innerOp"), cleanup |-> JustDone,
   stream |-> [dtor |-> NoEffects]]

(* range_stream: the integers up to a maximum.                             *)
RangeStream_operation ==
  [ctor |-> NoEffects,
   start |-> <<Either(<<Deliver("done")>>, <<DeliverOr("value", <<Terminate>>)>>)>>,
   dtor |-> NoEffects]
RangeStream ==
  [next |-> RangeStream_operation, cleanup |-> JustDone, stream |-> [dtor |-> NoEffects]]
=============================================================================
