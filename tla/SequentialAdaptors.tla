------------------------- MODULE SequentialAdaptors -------------------------
(***************************************************************************)
(* The adaptors that run one child operation after another in the same     *)
(* storage: let_value, let_error, let_done, sequence, finally, retry_when  *)
(* and repeat_effect_until.  Each receiver class is the record of its      *)
(* handlers, each operation class the record of its constructor, start()   *)
(* and destructor, each sender class what it claims about the operation.   *)
(***************************************************************************)
EXTENDS Effects

-----------------------------------------------------------------------------
(* let_value: values, then the successor made from them.                   *)
LetValue_predecessor_receiver ==
  [value |-> <<Make("values", <<Deliver("error")>>),
               Set("cleanup", "null"), Del("pred"),
               Set("cleanup", "values"),
               Make("succ", <<Deliver("error")>>),
               Set("cleanup", "succ and values"),
               Start("succ")>>,
   error |-> <<DeliverFrom("error", "pred")>>,
   done |-> <<Deliver("done")>>]

LetValue_successor_receiver == Forward("succ")

(* Mutation of LetValue_operation: the destructor of the operation that    *)
(* has come to the successor forgets the values.                           *)
LetValue_operation_KeepsValues ==
  [ctor |-> <<New("pred")>>,
   start |-> <<Start("pred")>>,
   dtor |-> <<If("cleanup", "pred", <<Del("pred")>>, <<>>),
              If("cleanup", "values", <<Del("values")>>, <<>>),
              If("cleanup", "succ and values", <<Del("succ")>>, <<>>)>>]

LetValue_operation ==
  [ctor |-> <<New("pred")>>,
   start |-> <<Start("pred")>>,
   dtor |-> <<If("cleanup", "pred", <<Del("pred")>>, <<>>),
              If("cleanup", "values", <<Del("values")>>, <<>>),
              If("cleanup", "succ and values", <<Del("succ"), Del("values")>>, <<>>)>>]

LetValue_sender(c) ==
  [sends_done |-> c.pred.done \/ c.succ.done,
   blocking |-> Larger(c.pred.blocking, Smaller(c.succ.blocking, maybe))]

LetValue ==
  [op |-> LetValue_operation, pred |-> LetValue_predecessor_receiver,
   succ |-> LetValue_successor_receiver]

-----------------------------------------------------------------------------
(* let_error: the source's error, then the operation made from it.         *)
LetError_receiver ==
  [value |-> <<Del("source"), Deliver("value")>>,
   error |-> <<Make("error", <<Del("source"), Deliver("error")>>),
               Del("source"),
               Make("final", <<Del("error"), Deliver("error")>>),
               Start("final")>>,
   done |-> <<Del("source"), Deliver("done")>>]

LetError_final_receiver ==
  [value |-> <<Del("final"), Del("error"), DeliverOr("value", <<Deliver("error")>>)>>,
   error |-> <<Del("final"), Del("error"), Deliver("error")>>,
   done |-> <<Del("final"), Del("error"), Deliver("done")>>]

LetError_operation ==
  [ctor |-> <<New("source")>>,
   start |-> <<Set("started", "true"), Start("source")>>,
   dtor |-> <<If("started", "false", <<Del("source")>>, <<>>)>>]

LetError_sender(c) ==
  [sends_done |-> c.source.done \/ c.final.done,
   blocking |-> Larger(c.source.blocking, Smaller(c.final.blocking, maybe))]

LetError ==
  [op |-> LetError_operation, source |-> LetError_receiver, final |-> LetError_final_receiver]

-----------------------------------------------------------------------------
(* let_done: the operation started when the source is done.  startedOp_ is *)
(* 1, 0 or -1 in the code: which member of the union is alive.             *)
LetDone_receiver ==
  [value |-> <<DeliverFrom("value", "source")>>,
   error |-> <<DeliverFrom("error", "source")>>,
   done |-> <<Set("startedOp", "none"), Del("source"),
              Make("final", <<Deliver("error")>>),
              Set("startedOp", "final"), Start("final")>>]

LetDone_final_receiver == Forward("final")

LetDone_operation ==
  [ctor |-> <<New("source"), Set("startedOp", "source")>>,
   start |-> <<Start("source")>>,
   dtor |-> <<If("startedOp", "final", <<Del("final")>>,
                 <<If("startedOp", "source", <<Del("source")>>, <<>>)>>)>>]

LetDone_sender(c) ==
  [sends_done |-> c.final.done,
   blocking |-> Larger(c.source.blocking, Smaller(c.final.blocking, maybe))]

LetDone ==
  [op |-> LetDone_operation, source |-> LetDone_receiver, final |-> LetDone_final_receiver]

-----------------------------------------------------------------------------
(* sequence of a predecessor and a successor.                              *)
Sequence_predecessor_receiver ==
  [value |-> <<Set("status", "empty"), Del("pred"),
               Make("succ", <<Deliver("error")>>),
               Set("status", "succ"), Start("succ")>>,
   error |-> <<DeliverFrom("error", "pred")>>,
   done |-> <<Deliver("done")>>]

Sequence_successor_receiver ==
  [value |-> <<DeliverFromOr("value", "succ", <<Deliver("error")>>)>>,
   error |-> <<DeliverFrom("error", "succ")>>,
   done |-> <<Deliver("done")>>]

Sequence_operation ==
  [ctor |-> <<Set("status", "pred"), New("pred")>>,
   start |-> <<Start("pred")>>,
   dtor |-> <<If("status", "pred", <<Del("pred")>>,
                 <<If("status", "succ", <<Del("succ")>>, <<>>)>>)>>]

(* Mutation of Sequence_sender: it blocks as its predecessor does.         *)
Sequence_sender_AsPredecessor(c) ==
  [sends_done |-> c.pred.done \/ c.succ.done, blocking |-> c.pred.blocking]

Sequence_sender(c) ==
  [sends_done |-> c.pred.done \/ c.succ.done,
   blocking |-> Larger(c.pred.blocking, Smaller(c.succ.blocking, maybe))]

Sequence ==
  [op |-> Sequence_operation, pred |-> Sequence_predecessor_receiver,
   succ |-> Sequence_successor_receiver]

-----------------------------------------------------------------------------
(* finally: the result of the source is kept while the completion runs, in *)
(* an operation of its own for each kind of result.                        *)
Finally_value_receiver ==
  [value |-> <<Del("completionValue"), Invoke(<<Del("value"), Deliver("error")>>), Del("value"),
               DeliverOr("value", <<Deliver("error")>>)>>,
   error |-> <<Del("completionValue"), Del("value"), DeliverFrom("error", "completionValue")>>,
   done |-> <<Del("completionValue"), Del("value"), Deliver("done")>>]

Finally_error_receiver ==
  [value |-> <<Del("completionError"), Del("error"), Deliver("error")>>,
   error |-> <<Del("completionError"), Del("error"), Deliver("error")>>,
   done |-> <<Del("completionError"), Del("error"), Deliver("done")>>]

(* Mutation of Finally_done_receiver: the result is the completion's, not  *)
(* the source's.                                                           *)
Finally_done_receiver_AsCompletion ==
  [value |-> <<Del("completionDone"), Deliver("value")>>,
   error |-> <<Del("completionDone"), DeliverFrom("error", "completionDone")>>,
   done |-> <<Del("completionDone"), Deliver("done")>>]

Finally_done_receiver ==
  [value |-> <<Del("completionDone"), Deliver("done")>>,
   error |-> <<Del("completionDone"), DeliverFrom("error", "completionDone")>>,
   done |-> <<Del("completionDone"), Deliver("done")>>]

Finally_receiver ==
  [value |-> <<Make("value", <<Call("source", "error")>>),
               Del("source"),
               Make("completionValue", <<Del("value"), Deliver("error")>>),
               Start("completionValue")>>,
   error |-> <<New("error"), Del("source"),
               Make("completionError", <<Del("error"), Deliver("error")>>),
               Start("completionError")>>,
   done |-> <<Del("source"),
              Make("completionDone", <<Deliver("error")>>),
              Start("completionDone")>>]

Finally_operation ==
  [ctor |-> <<New("source")>>,
   start |-> <<Set("started", "true"), Start("source")>>,
   dtor |-> <<If("started", "false", <<Del("source")>>, <<>>)>>]

Finally_sender(c) ==
  [sends_done |-> c.source.done \/ c.completionValue.done,
   blocking |-> Larger(c.source.blocking, c.completionValue.blocking)]

Finally ==
  [op |-> Finally_operation, source |-> Finally_receiver,
   completionValue |-> Finally_value_receiver, completionError |-> Finally_error_receiver,
   completionDone |-> Finally_done_receiver]

-----------------------------------------------------------------------------
(* retry_when: an error of the source runs a trigger and then the source   *)
(* again.                                                                  *)
RetryWhen_trigger_receiver ==
  [value |-> <<Del("trigger"), Make("source", <<Deliver("error")>>),
               Set("isSourceOpConstructed", "true"), Start("source")>>,
   error |-> <<Del("trigger"), Deliver("error")>>,
   done |-> <<Del("trigger"), Deliver("done")>>]

RetryWhen_source_receiver ==
  [value |-> <<DeliverFrom("value", "source")>>,
   error |-> <<Set("isSourceOpConstructed", "false"), Del("source"),
               Make("trigger", <<Deliver("error")>>), Start("trigger")>>,
   done |-> <<Deliver("done")>>]

RetryWhen_operation ==
  [ctor |-> <<New("source")>>,
   start |-> <<Start("source")>>,
   dtor |-> <<If("isSourceOpConstructed", "true", <<Del("source")>>, <<>>)>>]

RetryWhen_sender(c) ==
  [sends_done |-> c.source.done \/ c.trigger.done, blocking |-> maybe]

RetryWhen ==
  [op |-> RetryWhen_operation, source |-> RetryWhen_source_receiver,
   trigger |-> RetryWhen_trigger_receiver]

-----------------------------------------------------------------------------
(* repeat_effect_until: the source again until the predicate holds.        *)
RepeatEffectUntil_receiver ==
  [value |-> <<Set("isSourceOpConstructed", "false"), Del("source"),
               Invoke(<<Deliver("error")>>),
               Either(<<DeliverOr("value", <<Deliver("error")>>), Return>>, <<>>),
               Make("source", <<Deliver("error")>>),
               Set("isSourceOpConstructed", "true"), Start("source")>>,
   error |-> <<DeliverFrom("error", "source")>>,
   done |-> <<Deliver("done")>>]

RepeatEffectUntil_operation ==
  [ctor |-> <<New("source")>>,
   start |-> <<Start("source")>>,
   dtor |-> <<If("isSourceOpConstructed", "true",
                 <<Del("source"), Set("isSourceOpConstructed", "false")>>, <<>>)>>]

RepeatEffectUntil_sender(c) ==
  [sends_done |-> TRUE, blocking |-> c.source.blocking]

RepeatEffectUntil ==
  [op |-> RepeatEffectUntil_operation, source |-> RepeatEffectUntil_receiver]
=============================================================================
