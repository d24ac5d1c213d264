----------------------------- MODULE Coroutines -----------------------------
(***************************************************************************)
(* Coroutines that await senders and senders that run coroutines: the      *)
(* handlers of await_transform, connect_awaitable, at_coroutine_exit and   *)
(* of the thunk that a task<> puts between itself and the coroutine that   *)
(* awaits it.  To resume the awaiting coroutine is to deliver to it.       *)
(***************************************************************************)
EXTENDS Effects

(* await_transform: the awaitable of a sender keeps the result that        *)
(* await_resume() returns or rethrows in a union with the exception.       *)
Await_resume ==
  <<If("state", "value", <<Use("value"), Deliver("value")>>,
       <<Require("state", "exception"), Use("exception"), Deliver("error")>>)>>

Await_rec ==
  [value |-> <<Make("value", <<Throw>>), Set("state", "value"), Call("op", "resume")>>,
   error |-> <<New("exception"), Set("state", "exception"), Call("op", "resume")>>,
   done |-> <<Set("state", "done"), Deliver("done")>>]

(* The destructor of _expected.                                            *)
ResetValue ==
  <<If("state", "value", <<Del("value")>>, <<>>), If("state", "exception", <<Del("exception")>>, <<>>)>>

Await_awaitable ==
  [ctor |-> <<Make("pred", <<Throw>>)>>, start |-> <<Start("pred")>>, resume |-> Await_resume,
   dtor |-> <<Del("pred")>> \o ResetValue]
AwaitTransform == [op |-> Await_awaitable, pred |-> Await_rec]

(* connect_awaitable: a coroutine that awaits and then, suspended in       *)
(* co_yield, completes the receiver.  An exception of the awaited          *)
(* expression destroys the awaiter before it is delivered.                 *)
ConnectAwaitable_pred ==
  [value |-> <<DeliverFromOr("value", "pred", <<Deliver("error")>>)>>,
   error |-> <<Del("pred"), Deliver("error")>>,
   done |-> <<Deliver("done")>>]

ConnectAwaitable_sender_task ==
  [ctor |-> <<Make("coro", <<Throw>>)>>,
   start |-> <<Make("pred", <<Deliver("error")>>), Start("pred")>>,
   dtor |-> <<IfLive("pred", <<Del("pred")>>, <<>>), Del("coro")>>]
ConnectAwaitable == [op |-> ConnectAwaitable_sender_task, pred |-> ConnectAwaitable_pred]

(* as_sender's declarations.                                               *)
AsSender_sender(c) == [sends_done |-> TRUE, blocking |-> c.pred.blocking]

-----------------------------------------------------------------------------
(* at_coroutine_exit: the cleanup action is put at the head of the         *)
(* coroutine's continuations, runs when the coroutine ends (pred) however  *)
(* it ends, and then resumes the continuation it replaced.                 *)
AtCoroutineExit_next ==
  <<If("isUnhandledDone", "true", <<Del("action"), Deliver("done")>>,
       <<Del("action"), If("result", "exception", <<Deliver("error")>>, <<Deliver("value")>>)>>)>>

AtCoroutineExit_cleanup_promise ==
  [value |-> <<Del("cleanup")>> \o AtCoroutineExit_next,
   error |-> <<Terminate>>, done |-> <<Terminate>>]

AtCoroutineExit_action == <<Make("cleanup", <<Terminate>>), Start("cleanup")>>

(* The promise of the coroutine, whose continuation is the action now.     *)
AtCoroutineExit_parent ==
  [value |-> <<Set("result", "value"), Call("op", "action")>>,
   error |-> <<Set("result", "exception"), Call("op", "action")>>,
   done |-> <<Set("isUnhandledDone", "true"), Call("op", "action")>>]

AtCoroutineExit_await_suspend ==
  [ctor |-> <<New("pred")>>,
   start |-> <<Make("action", <<Deliver("error")>>), Start("pred")>>,
   action |-> AtCoroutineExit_action, dtor |-> <<Del("pred")>>]
AtCoroutineExit ==
  [op |-> AtCoroutineExit_await_suspend, pred |-> AtCoroutineExit_parent,
   cleanup |-> AtCoroutineExit_cleanup_promise]

-----------------------------------------------------------------------------
(* task<>: the thunk coroutine awaits the task (pred) and hands a stop     *)
(* request of its receiver on from the task's scheduler (stopOperation); a *)
(* reference count of the two decides who resumes the continuation.        *)
(* A thunk that is finished is destroyed by await_resume(), one that was   *)
(* not awaited or ended with done by the awaiter's destructor.             *)
Task_destroy ==
  <<IfLive("pred", <<Del("pred")>>, <<>>)>> \o ResetValue \o <<Del("stopOperation"), Del("coro")>>

Task_await_resume ==
  <<If("state", "exception", <<Use("exception")>> \o Task_destroy \o <<Deliver("error")>>,
       <<Require("state", "value"), Use("value")>> \o Task_destroy \o <<Deliver("value")>>)>>

Task_resume == <<If("whoToContinue", "done_handle", <<Deliver("done")>>, Task_await_resume)>>

Task_complete_and_choose_continuation(whoToContinue) ==
  <<Deregister("callback"), Set("whoToContinue", whoToContinue), Dec("refCount", Task_resume, <<>>)>>

(* fetch_add(1): nothing is left to stop if the count was zero.            *)
Task_stop_callback ==
  <<Cas("refCount", "1", "2", <<Start("stopOperation")>>,
        <<Cas("refCount", "0", "1", <<>>, <<Abort>>)>>)>>

Task_receiver_t ==
  [value |-> <<RequestStop("source"), Dec("refCount", <<Call("op", "resume")>>, <<>>)>>,
   error |-> <<Terminate>>]

(* return_value(), unhandled_exception() and unhandled_done() of the thunk. *)
Task_promise ==
  LET failed == <<New("exception"), Set("state", "exception"), Call("op", "final_suspend")>>
  IN [value |-> <<Del("pred"), Make("value", failed), Set("state", "value"), Call("op", "final_suspend")>>,
      error |-> <<Del("pred")>> \o failed,
      done |-> Task_complete_and_choose_continuation("done_handle")]

Task_awaiter ==
  [ctor |-> <<Make("coro", <<Throw>>), New("stopOperation")>>,
   start |-> <<Register("callback", "receiver"), New("pred"), Start("pred")>>,
   final_suspend |-> Task_complete_and_choose_continuation("handle"),
   resume |-> Task_resume,
   dtor |-> <<IfLive("coro", Task_destroy, <<>>)>>]
Task ==
  [op |-> Task_awaiter, pred |-> Task_promise, stopOperation |-> Task_receiver_t,
   callback |-> [stop |-> Task_stop_callback]]
=============================================================================
