------------------------- MODULE ConcurrentAdaptors -------------------------
(***************************************************************************)
(* The adaptors in which the completion of a child races with a stop       *)
(* callback: detach_on_cancel, stop_on_request and the attach operation of *)
(* the v1 async_scope.                                                     *)
(***************************************************************************)
EXTENDS Effects

-----------------------------------------------------------------------------
(* detach_on_cancel: the child lives in a detached state on the heap.      *)
(* parentOp_ packs the parent's address and a reference count: "op|1" and  *)
(* "op|0" with the parent, "2", "1" and "0" without it; state_ is the      *)
(* parent's unique_ptr to the detached state.                              *)
detached_state_request_stop ==
  <<Cas("parentOp", "op|1", "2", <<>>, <<Return>>),
    RequestStop("source"),
    Cas("parentOp", "2", "1",
        <<Deregister("callback"), Use("op"), Del("state_")>>,
        <<Cas("parentOp", "1", "0",
              <<Deregister("callback"), Use("op"), Del("state_"), Del("childOp"), Del("detached_state")>>,
              <<Abort>>)>>),
    Deliver("done")>>

(* fetch_sub(1): deliver is what the caller does with the parent it gets.  *)
try_get_op(deliver) ==
  <<Cas("parentOp", "op|1", "op|0",
        <<Deregister("callback")>> \o deliver,
        <<Cas("parentOp", "2", "1", <<>>,
              <<Cas("parentOp", "1", "0", <<Del("childOp"), Del("detached_state")>>,
                    <<Abort>>)>>)>>)>>

DetachOnCancel_receiver ==
  [value |-> try_get_op(<<DeliverFromOr("value", "childOp", <<Deliver("error")>>)>>),
   error |-> try_get_op(<<DeliverFrom("error", "childOp")>>),
   done |-> try_get_op(<<Deliver("done")>>)]

DetachOnCancel_operation ==
  [ctor |-> <<Make("detached_state", <<Throw>>), Make("childOp", <<Del("detached_state"), Throw>>),
             New("state_")>>,
   start |-> <<Register("callback", "receiver"), Use("childOp"), Start("childOp")>>,
   dtor |-> <<IfLive("state_", <<Del("state_"), Del("childOp"), Del("detached_state")>>, <<>>)>>]

DetachOnCancel ==
  [op |-> DetachOnCancel_operation, childOp |-> DetachOnCancel_receiver,
   callback |-> [stop |-> detached_state_request_stop]]

-----------------------------------------------------------------------------
(* stop_on_request, with the receiver's token and one other.               *)
StopOnRequest_complete ==
  <<Deregister("stopCallback"), Deregister("receiverStopCallback"), Deliver("done")>>

(* Mutation of StopOnRequest_request_stop: a callback completes the        *)
(* operation though start() still constructs the others.                   *)
StopOnRequest_request_stop_Early ==
  <<Cas("callbackState", "INIT", "AT_LEAST_ONE_CALLED", StopOnRequest_complete,
        <<Cas("callbackState", "ALL_CONSTRUCTED_NOT_CALLED", "AT_LEAST_ONE_CALLED",
              StopOnRequest_complete, <<>>)>>)>>

(* exchange(AT_LEAST_ONE_CALLED), and the test of the old value.           *)
StopOnRequest_request_stop ==
  <<Cas("callbackState", "INIT", "AT_LEAST_ONE_CALLED", <<>>,
        <<Cas("callbackState", "ALL_CONSTRUCTED_NOT_CALLED", "AT_LEAST_ONE_CALLED",
              StopOnRequest_complete, <<>>)>>)>>

StopOnRequest_op ==
  [ctor |-> NoEffects,
   start |-> <<Register("receiverStopCallback", "receiver"),
               Invoke(<<Deregister("receiverStopCallback"),
                        If("callbackState", "AT_LEAST_ONE_CALLED",
                           <<Deliver("done")>>, <<Deliver("error")>>)>>),
               Register("stopCallback", "token"),
               Cas("callbackState", "INIT", "ALL_CONSTRUCTED_NOT_CALLED", <<>>,
                   StopOnRequest_complete)>>,
   dtor |-> NoEffects]

StopOnRequest ==
  [op |-> StopOnRequest_op,
   receiverStopCallback |-> [stop |-> StopOnRequest_request_stop],
   stopCallback |-> [stop |-> StopOnRequest_request_stop]]

-----------------------------------------------------------------------------
(* attach: the operation completes when its child has and no stop callback *)
(* is still asking the child to stop.                                      *)
Attach_try_complete(deliver) ==
  <<Dec("refcount", <<Deregister("receiverCallback"), Deregister("stokenCallback")>> \o deliver, <<>>)>>

(* Mutation of Attach_request_stop: the reference is not given back.       *)
Attach_request_stop_KeepsReference ==
  <<Cas("refcount", "1", "2", <<>>, <<Return>>), RequestStop("source")>>

Attach_request_stop ==
  <<Cas("refcount", "1", "2", <<>>, <<Return>>), RequestStop("source")>>
    \o Attach_try_complete(<<Deliver("done")>>)

Attach_receiver ==
  [value |-> Attach_try_complete(<<DeliverOr("value", <<Deliver("error")>>)>>),
   error |-> Attach_try_complete(<<Deliver("error")>>),
   done |-> Attach_try_complete(<<Deliver("done")>>)]

construct_stop_callbacks ==
  <<Register("stokenCallback", "scope"), Register("receiverCallback", "receiver")>>

Attach_op ==
  [ctor |-> <<Make("child", <<Throw>>)>>,
   start |-> construct_stop_callbacks \o <<Start("child")>>,
   dtor |-> <<Del("child")>>]

Attach ==
  [op |-> Attach_op, child |-> Attach_receiver,
   stokenCallback |-> [stop |-> Attach_request_stop],
   receiverCallback |-> [stop |-> Attach_request_stop]]
=============================================================================
