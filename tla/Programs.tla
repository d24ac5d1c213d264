------------------------------ MODULE Programs ------------------------------
(***************************************************************************)
(* The adaptors by name: their handlers, the shape of their operation      *)
(* state, what their senders declare, and the signal each one promises.    *)
(***************************************************************************)
EXTENDS SequentialAdaptors, SimpleAdaptors, ConcurrentAdaptors, Streams, BasicSender, Coroutines

Program ==
  [let_value |-> LetValue, let_error |-> LetError, let_done |-> LetDone, sequence |-> Sequence,
   finally |-> Finally, retry_when |-> RetryWhen, repeat_effect_until |-> RepeatEffectUntil,
   just |-> Factory(Just_op), just_error |-> Factory(JustError_op),
   just_void_or_done |-> Factory(JustVoidOrDone_op),
   stop_if_requested |-> Factory(StopIfRequested_op),
   inline_scheduler |-> Factory(InlineScheduler_op), never |-> Never,
   then |-> [op |-> Wrapped, pred |-> Then_receiver],
   upon_done |-> [op |-> Wrapped, pred |-> UponDone_receiver],
   upon_error |-> [op |-> Wrapped, pred |-> UponError_receiver],
   materialize |-> [op |-> Wrapped, pred |-> Materialize_receiver],
   dematerialize |-> [op |-> Wrapped, pred |-> Dematerialize_receiver],
   with_query_value |-> [op |-> WithQueryValue_op, pred |-> WithQueryValue_receiver_wrapper],
   into_variant |-> [op |-> Wrapped, pred |-> IntoVariant_receiver],
   indexed_for |-> [op |-> Wrapped, pred |-> IndexedFor_receiver],
   allocate |-> [op |-> Allocate_op, pred |-> Forward("pred")],
   bulk |-> Bulk,
   let_value_with |-> [op |-> LetValueWith_operation, pred |-> Forward("pred")],
   let_value_with_stop_source |-> LetValueWithStopSource,
   let_value_with_stop_token |->
     [op |-> LetValueWithStopToken_operation, pred |-> LetValueWithStopToken_receiver],
   let_value_with_fused_token |->
     [op |-> LetValueWithStopToken_fused_operation, pred |-> LetValueWithStopToken_receiver,
      callbacks |-> fused_stop_callback],
   any_sender_of |-> AnySenderOf, variant_sender |-> VariantSender, find_if |-> FindIf,
   sync_wait |-> SyncWait, spawn_detached |-> SpawnDetached,
   detach_on_cancel |-> DetachOnCancel, stop_on_request |-> StopOnRequest, attach |-> Attach,
   stop_immediately |-> StopImmediately, take_until |-> TakeUntil,
   reduce_stream |-> ReduceStream, filter_stream |-> FilterStream,
   type_erased_stream |-> TypeErasedStream, transform_stream |-> TransformStream,
   single |-> Single, range_stream |-> RangeStream, create |-> Create,
   await_transform |-> AwaitTransform, connect_awaitable |-> ConnectAwaitable,
   at_coroutine_exit |-> AtCoroutineExit, task |-> Task,
   create_basic_sender |-> CancellingSender, create_basic_sender_stopping |-> StoppingSender]

(* tokens: the stop token each child is given; patient: the children that  *)
(* may wait for it; same: children that are operations of one sender;      *)
(* unions: members that share storage; flags: members with their initial   *)
(* values; home: the object that holds them; stop: the tokens that may be  *)
(* triggered; eager: started as soon as it is connected.          *)
Plain(tokens, unions, flags) ==
  [tokens |-> tokens, unions |-> unions, flags |-> flags, home |-> "op", stop |-> {},
   eager |-> FALSE, patient |-> {}, same |-> {}, initially |-> {}]

Nothing == [f \in {} |-> ""]
NoChild == Plain(Nothing, {}, Nothing)
OneChild == Plain([pred |-> "receiver"], {}, Nothing)
Stoppable(shape) == [shape EXCEPT !.stop = {"receiver"}]
WithSource == [Plain([pred |-> "source"], {}, Nothing) EXCEPT !.stop = {"receiver"}, !.patient = {"pred"}]

SequentialShape ==
  [let_value |-> Plain([pred |-> "receiver", succ |-> "receiver"], {{"pred", "succ"}},
                       [cleanup |-> "pred"]),
   let_error |-> Plain([source |-> "receiver", final |-> "receiver"], {{"source", "final"}},
                       [started |-> "false"]),
   let_done |-> Plain([source |-> "receiver", final |-> "receiver"], {{"source", "final"}},
                      [startedOp |-> "none"]),
   sequence |-> Plain([pred |-> "receiver", succ |-> "receiver"], {{"pred", "succ"}},
                      [status |-> "pred"]),
   finally |-> [Plain([source |-> "receiver", completionValue |-> "receiver",
                       completionError |-> "receiver", completionDone |-> "receiver"],
                      {{"source", "completionValue", "completionError", "completionDone"},
                       {"value", "error"}},
                      [started |-> "false"])
                EXCEPT !.same = {"completionValue", "completionError", "completionDone"}],
   retry_when |-> Plain([source |-> "receiver", trigger |-> "receiver"], {{"source", "trigger"}},
                        [isSourceOpConstructed |-> "true"]),
   repeat_effect_until |-> Plain([source |-> "receiver"], {}, [isSourceOpConstructed |-> "true"])]

Shape(k) ==
  CASE k \in DOMAIN SequentialShape -> SequentialShape[k]
    [] k \in {"just", "just_error", "just_void_or_done"} -> NoChild
    [] k \in {"stop_if_requested", "inline_scheduler", "never"} -> Stoppable(NoChild)
    [] k \in {"let_value_with_stop_source", "let_value_with_fused_token", "any_sender_of"} -> WithSource
    [] k = "let_value_with_stop_token" -> [Stoppable(OneChild) EXCEPT !.patient = {"pred"}]
    [] k = "bulk" -> Stoppable(OneChild)
    [] k = "variant_sender" ->
         Plain([first |-> "receiver", second |-> "receiver"], {{"first", "second"}},
               [index |-> "none"])
    [] k = "find_if" ->
         Plain([pred |-> "receiver", inner |-> "receiver"], {},
               [policy |-> "seq", started |-> "false"])
    [] k = "sync_wait" ->
         Plain([pred |-> "none"], {{"value", "exception"}}, [state |-> "incomplete", ctx |-> "running"])
    [] k = "spawn_detached" -> [OneChild EXCEPT !.eager = TRUE]
    [] k = "detach_on_cancel" ->
         [Plain([childOp |-> "source"], {}, [parentOp |-> "op|1"])
          EXCEPT !.home = "detached_state", !.stop = {"receiver"}, !.patient = {"childOp"}]
    [] k = "stop_on_request" ->
         [Plain(Nothing, {}, [callbackState |-> "INIT"]) EXCEPT !.stop = {"receiver", "token"}]
    [] k = "attach" ->
         [Plain([child |-> "source"], {}, [refcount |-> "1"])
          EXCEPT !.stop = {"receiver", "scope"}, !.patient = {"child"}]
    [] k = "stop_immediately" ->
         [Plain([nextOp |-> "source", cleanupOp |-> "none"], {},
                [state |-> "not_started", nextReceiver |-> "null", nextError |-> "null",
                 cleanupOp_ |-> "null"])
          EXCEPT !.home = "stream", !.stop = {"receiver"}, !.patient = {"nextOp"}]
    [] k = "take_until" ->
         [Plain([innerOp |-> "source", triggerNextOp |-> "source", sourceOp |-> "none",
                 triggerOp |-> "none"], {},
                [triggerNextStarted |-> "false", cleanupReady |-> "false",
                 cleanupCompleted |-> "false", cleanupOperation |-> "null",
                 sourceError |-> "null", triggerError |-> "null"])
          EXCEPT !.home = "stream", !.stop = {"receiver"}, !.patient = {"triggerNextOp"}]
    [] k = "reduce_stream" ->
         Plain([item |-> "receiver", errorCleanup |-> "none", doneCleanup |-> "none"],
               {{"item", "errorCleanup", "doneCleanup"}}, Nothing)
    [] k \in {"filter_stream", "transform_stream"} ->
         [Plain([next_ |-> "receiver", cleanup_ |-> "none"], {}, [nextEngaged |-> "false"])
          EXCEPT !.home = "entry"]
    [] k = "type_erased_stream" ->
         [Plain([next_ |-> "source", cleanup_ |-> "none"], {{"next_", "cleanup_"}}, [refCount |-> "1"])
          EXCEPT !.home = "entry", !.stop = {"receiver"}, !.patient = {"next_"}]
    [] k = "single" ->
         [Plain([innerOp |-> "receiver"], {}, [sender |-> "set"]) EXCEPT !.home = "stream"]
    [] k = "range_stream" -> [NoChild EXCEPT !.home = "stream"]
    [] k \in {"create_basic_sender", "create_basic_sender_stopping"} ->
         [Plain([api |-> "source"], {}, [phase |-> "starting", signal |-> "null"])
          EXCEPT !.stop = {"receiver"}, !.patient = {"api"}]
    [] k = "create" -> Plain([api |-> "receiver"], {}, Nothing)
    [] k = "await_transform" ->
         Plain([pred |-> "receiver"], {{"value", "exception"}}, [state |-> "empty"])
    [] k = "at_coroutine_exit" ->
         Plain([pred |-> "receiver", cleanup |-> "none"], {},
               [isUnhandledDone |-> "false", result |-> "empty"])
    [] k = "task" ->
         [Plain([pred |-> "source", stopOperation |-> "none"], {{"value", "exception"}},
                [state |-> "empty", refCount |-> "1", whoToContinue |-> "null"])
          EXCEPT !.home = "coro", !.stop = {"receiver"}, !.patient = {"pred"}]
    [] OTHER -> OneChild

(* Those that complete only when they are asked to stop.                   *)
WaitForStop == {"never", "stop_on_request"}

(* bulk_join's and bulk_transform's declarations are the source's.         *)
Bulk_sender(c) ==
  LET scheduled == BulkSchedule_default_sender(c)
      source == [pred |-> [done |-> scheduled.sends_done, blocking |-> scheduled.blocking]]
      transformed == BulkTransform_tfx_sender(source)
  IN BulkJoin_sender([pred |-> [done |-> transformed.sends_done,
                                blocking |-> transformed.blocking]])

Claim(k, c) ==
  CASE k = "let_value" -> LetValue_sender(c)
    [] k = "let_error" -> LetError_sender(c)
    [] k = "let_done" -> LetDone_sender(c)
    [] k = "sequence" -> Sequence_sender(c)
    [] k = "finally" -> Finally_sender(c)
    [] k = "just" -> Just_sender(c)
    [] k = "just_error" -> JustError_sender(c)
    [] k = "just_void_or_done" -> JustVoidOrDone_sender(c)
    [] k = "stop_if_requested" -> StopIfRequested_sender(c)
    [] k = "inline_scheduler" -> InlineScheduler_schedule_task(c)
    [] k = "never" -> Never_sender(c)
    [] k = "then" -> Then_sender(c)
    [] k = "upon_done" -> UponDone_sender(c)
    [] k = "upon_error" -> UponError_sender(c)
    [] k = "materialize" -> Materialize_sender(c)
    [] k = "dematerialize" -> Dematerialize_sender(c)
    [] k = "with_query_value" -> WithQueryValue_sender(c)
    [] k = "into_variant" -> IntoVariant_sender(c)
    [] k = "indexed_for" -> IndexedFor_sender(c)
    [] k = "allocate" -> Allocate_sender(c)
    [] k = "bulk" -> Bulk_sender(c)
    [] k = "let_value_with" -> LetValueWith_sender(c)
    [] k = "variant_sender" -> VariantSender_sender(c)
    [] k = "connect_awaitable" -> AsSender_sender(c)

(* The signal each adaptor is for, given the last signal of each child.    *)
Expected(k, last) ==
  CASE k \in {"let_value", "sequence"} -> IF last.pred = "value" THEN last.succ ELSE last.pred
    [] k = "let_error" -> IF last.source = "error" THEN last.final ELSE last.source
    [] k = "let_done" -> IF last.source = "done" THEN last.final ELSE last.source
    [] k = "finally" ->
         LET completion == CASE last.source = "value" -> last.completionValue
                             [] last.source = "error" -> last.completionError
                             [] OTHER -> last.completionDone
         IN IF completion = "value" THEN last.source ELSE completion
    [] k = "retry_when" -> IF last.source = "error" THEN last.trigger ELSE last.source
    [] k = "repeat_effect_until" -> last.source
    [] k = "reduce_stream" ->
         IF last.item = "done" /\ last.doneCleanup = "done" THEN "value" ELSE "error"
    [] k = "create" -> last.api
    [] k = "just" -> "value"
    [] k = "just_error" -> "error"
    [] k = "upon_done" -> IF last.pred = "done" THEN "value" ELSE last.pred
    [] k = "upon_error" -> IF last.pred = "error" THEN "value" ELSE last.pred
    [] k = "materialize" -> "value"
    [] k = "variant_sender" -> IF last.first = "none" THEN last.second ELSE last.first
    [] OTHER -> last.pred

(* Those that complete without their child once they are asked to stop.    *)
Detaching == {"detach_on_cancel", "attach", "stop_immediately", "take_until",
              "type_erased_stream"}

Promised(k, last, threw, stopped, outcome) ==
  CASE threw -> outcome = "error" \/ k \in {"retry_when", "finally", "materialize", "upon_error",
                                            "stop_on_request"} \cup Detaching
    [] k \in {"stop_if_requested", "inline_scheduler", "never"} ->
         outcome = "value" \/ (outcome = "done" /\ "receiver" \in stopped)
    [] k = "just_void_or_done" -> outcome \in {"value", "done"}
    [] k = "dematerialize" -> last.pred = "value" \/ outcome = last.pred
    [] k = "bulk" -> outcome = last.pred \/ (outcome = "done" /\ "receiver" \in stopped)
    [] k = "single" -> outcome \in {last.innerOp, "done"}
    [] k \in {"create_basic_sender", "create_basic_sender_stopping"} ->
         outcome = "value" \/ outcome = last.api \/ (outcome = "done" /\ "receiver" \in stopped)
    [] k = "range_stream" -> outcome \in {"value", "done"}
    [] k \in {"filter_stream", "transform_stream"} -> outcome \in {last.next_, last.cleanup_}
    [] k = "stop_on_request" -> outcome = "done" /\ stopped # {}
    [] k \in Detaching -> (\E c \in DOMAIN last : outcome = last[c]) \/ (outcome = "done" /\ stopped # {})
    [] OTHER -> outcome = Expected(k, last)
=============================================================================
