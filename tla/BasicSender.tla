---------------------------- MODULE BasicSender ----------------------------
(***************************************************************************)
(* create_basic_sender: an operation made from a body that is told of      *)
(* start, of callbacks of the interface it wraps, and of stop, all under a *)
(* recursive lock.  The body finishes the operation in any of these events *)
(* and the outermost one completes the receiver, after the lock is free.   *)
(***************************************************************************)
EXTENDS Effects

(* _state::finished, set_finished with the signal kept for complete(), and *)
(* set_started.                                                            *)
finished(then, alt) ==
  If("phase", "stopped_early", then, <<If("phase", "completed_normally", then, alt)>>)
defer_complete_with(sig) == Set("signal", sig)
set_finished(sig) ==
  finished(<<>>, <<If("phase", "starting", <<Set("phase", "stopped_early")>>,
                      <<Set("phase", "completed_normally")>>),
                   defer_complete_with(sig)>>)
set_started == If("phase", "starting", <<Set("phase", "started")>>, <<>>)

(* The stop callback goes, then the kept signal is delivered; the deferred *)
(* set_value is called through a noexcept pointer.                         *)
BasicSender_complete ==
  <<Deregister("stop_"),
    If("signal", "value", <<DeliverOr("value", <<Terminate>>)>>,
       <<If("signal", "error", <<Deliver("error")>>, <<Deliver("done")>>)>>)>>

Release == <<IfLive("holder", <<Del("holder")>>, <<>>), Unlock>>

(* The end of every event: the outermost one of a finished operation       *)
(* releases the holder of the safe callbacks and completes.                *)
CompleteIfOutermost ==
  <<finished(<<IfOutermost(Release \o BasicSender_complete, <<Unlock>>)>>, <<Unlock>>)>>

BasicSender_stop_callback(on_stop) ==
  [stop |-> <<Lock, finished(<<Unlock, Return>>, <<>>),
              If("phase", "starting", <<set_finished("done"), Unlock, Return>>, <<>>)>> \o
            on_stop \o CompleteIfOutermost]

(* A safe callback reaches the operation through a weak reference to the   *)
(* holder, and does nothing when the holder is gone.                       *)
safe_cb(then) == <<IfLive("holder", then, <<>>)>>

callback_impl(sig) ==
  <<Lock, finished(<<Unlock, Return>>, <<>>), set_finished(sig)>> \o CompleteIfOutermost
BasicSender_callback ==
  [value |-> safe_cb(callback_impl("value")), error |-> safe_cb(callback_impl("error")),
   done |-> safe_cb(callback_impl("done"))]

(* start_impl; the handler of an exception of the body takes the lock      *)
(* again, which was released on the way.                                   *)
BasicSender_start ==
  <<Register("stop_", "receiver"), Lock, set_started,
    finished(<<>>,
             <<Invoke(<<Unlock, Lock, set_finished("error")>> \o Release \o BasicSender_complete),
               Either(<<set_finished("value")>>, <<New("holder"), Start("api")>>)>>)>> \o
  CompleteIfOutermost
BasicSender_op ==
  [ctor |-> <<New("api")>>, start |-> BasicSender_start, dtor |-> <<Del("api")>>]

(* The body's stop handler may cancel the wrapped interface, whose callback *)
(* then finishes the operation, or finish it itself.                       *)
BasicSender(on_stop) ==
  [op |-> BasicSender_op, api |-> BasicSender_callback, stop_ |-> BasicSender_stop_callback(on_stop)]
CancellingSender == BasicSender(<<RequestStop("source")>>)
StoppingSender == BasicSender(<<set_finished("done")>>)
=============================================================================
