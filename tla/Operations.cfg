CONSTANTS
  Kinds = {"let_value", "let_error", "let_done", "sequence", "finally", "retry_when", "repeat_effect_until", "just", "just_error", "just_void_or_done", "stop_if_requested", "inline_scheduler", "never", "then", "upon_done", "upon_error", "materialize", "dematerialize", "with_query_value", "into_variant", "indexed_for", "allocate", "bulk", "let_value_with", "let_value_with_stop_source", "let_value_with_stop_token", "let_value_with_fused_token", "any_sender_of", "variant_sender", "sync_wait", "spawn_detached", "create", "detach_on_cancel", "stop_on_request", "attach", "create_basic_sender", "stop_immediately", "reduce_stream", "filter_stream", "type_erased_stream", "transform_stream", "single", "range_stream", "await_transform", "connect_awaitable", "at_coroutine_exit", "task"}
  Throwing = {"let_value", "let_done", "sequence", "finally", "retry_when", "repeat_effect_until", "just", "just_void_or_done", "stop_if_requested", "inline_scheduler", "then", "upon_done", "upon_error", "materialize", "dematerialize", "with_query_value", "into_variant", "indexed_for", "allocate", "bulk", "let_value_with", "let_value_with_stop_source", "let_value_with_stop_token", "let_value_with_fused_token", "any_sender_of", "variant_sender", "create", "detach_on_cancel", "attach", "create_basic_sender", "stop_immediately", "reduce_stream", "filter_stream", "type_erased_stream", "transform_stream", "single", "range_stream", "connect_awaitable"}
  ByReference = {"let_value", "let_error", "let_done", "sequence", "retry_when", "repeat_effect_until", "then", "upon_done", "upon_error", "materialize", "dematerialize", "with_query_value", "into_variant", "indexed_for", "allocate", "bulk", "let_value_with", "let_value_with_stop_source", "let_value_with_stop_token", "let_value_with_fused_token", "any_sender_of", "variant_sender", "detach_on_cancel", "attach", "create_basic_sender", "reduce_stream", "filter_stream", "type_erased_stream", "transform_stream", "single", "range_stream", "await_transform", "connect_awaitable", "at_coroutine_exit", "task"}
  Strict = {}
  StopInStart = {"just", "just_error", "just_void_or_done", "stop_if_requested", "inline_scheduler", "never", "then", "upon_done", "upon_error", "materialize", "dematerialize", "with_query_value", "into_variant", "indexed_for", "allocate", "bulk", "let_value_with", "let_value_with_stop_source", "let_value_with_stop_token", "let_value_with_fused_token", "any_sender_of", "variant_sender", "sync_wait", "spawn_detached", "create", "detach_on_cancel", "stop_on_request", "attach", "create_basic_sender", "reduce_stream", "filter_stream", "type_erased_stream", "transform_stream", "single", "range_stream", "task"}
  Claiming = {"let_value", "let_error", "let_done", "sequence", "finally", "just", "just_error", "just_void_or_done", "stop_if_requested", "inline_scheduler", "never", "then", "upon_done", "upon_error", "materialize", "with_query_value", "into_variant", "indexed_for", "allocate", "bulk", "let_value_with", "variant_sender", "connect_awaitable"}
  InlineStop = {"let_value_with_stop_token", "create_basic_sender", "task", "detach_on_cancel", "attach", "stop_immediately", "type_erased_stream"}
  Threads = {1, 2, 3}
  MaxStarts = 4
SPECIFICATION FairSpec
INVARIANTS NoDanglingAccess CompletesOnce NothingLeaks ResultIsRight DeliversAsDeclared
PROPERTIES Completes
CHECK_DEADLOCK FALSE
