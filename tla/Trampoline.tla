----------------------------- MODULE Trampoline -----------------------------
(***************************************************************************)
(* trampoline_scheduler on one thread: operations complete inside start()  *)
(* until the recursion is maxRecursionDepth deep; the others wait for the  *)
(* outermost start() to drain them.                                        *)
(***************************************************************************)
EXTENDS Scheduling

(* frames: the operations whose user code runs, the innermost first.       *)
Init ==
  /\ which = "trampoline_scheduler"
  /\ op \in [Ops -> {NewOp("schedule")}]
  /\ ctx \in [current_ : {FALSE}, recursionDepth_ : {0}, maxRecursionDepth_ : 1 .. 2,
              head_ : {<<>>}, frames : {<<>>}, destroyed : {FALSE}]

(* The operation, which is r, completes, in a frame of its own.            *)
execute(o, r, c) ==
  /\ op' = [op EXCEPT ![o] = CompletedScheduled(r)]
  /\ ctx' = [c EXCEPT !.frames = <<o>> \o @]

(* Mutation of start: one level deeper than maxRecursionDepth_.            *)
start_OffByOne(o) ==
  LET r == Returned(Begun(op[o], Outside, "start")) IN
  /\ op[o].life = "idle"
  /\ \/ ~ctx.current_ /\ execute(o, r, [ctx EXCEPT !.current_ = TRUE, !.recursionDepth_ = 1])
     \/ /\ ctx.current_ /\ ctx.recursionDepth_ <= ctx.maxRecursionDepth_
        /\ execute(o, r, [ctx EXCEPT !.recursionDepth_ = @ + 1])
     \/ /\ ctx.current_ /\ ~(ctx.recursionDepth_ <= ctx.maxRecursionDepth_)
        /\ op' = [op EXCEPT ![o] = r]
        /\ ctx' = [ctx EXCEPT !.head_ = <<o>> \o @]
  /\ UNCHANGED which

start(o) ==
  LET r == Returned(Begun(op[o], Outside, "start")) IN
  /\ op[o].life = "idle"
  /\ \/ ~ctx.current_ /\ execute(o, r, [ctx EXCEPT !.current_ = TRUE, !.recursionDepth_ = 1])
     \/ /\ ctx.current_ /\ ctx.recursionDepth_ < ctx.maxRecursionDepth_
        /\ execute(o, r, [ctx EXCEPT !.recursionDepth_ = @ + 1])
     \/ /\ ctx.current_ /\ ~(ctx.recursionDepth_ < ctx.maxRecursionDepth_)
        /\ op' = [op EXCEPT ![o] = r]
        /\ ctx' = [ctx EXCEPT !.head_ = <<o>> \o @]
  /\ UNCHANGED which

UserCodeReturns ==
  /\ ctx.frames # <<>>
  /\ ctx' = [ctx EXCEPT !.frames = Tail(@)]
  /\ UNCHANGED <<which, op>>

drain ==
  LET o == Head(ctx.head_) IN
  /\ ctx.current_ /\ ctx.frames = <<>>
  /\ \/ /\ ctx.head_ = <<>>
        /\ ctx' = [ctx EXCEPT !.current_ = FALSE, !.recursionDepth_ = 0]
        /\ UNCHANGED op
     \/ ctx.head_ # <<>> /\ execute(o, op[o], [ctx EXCEPT !.head_ = Tail(@), !.recursionDepth_ = 1])
  /\ UNCHANGED which

RequestStop(o) ==
  /\ MayRequestStop(o)
  /\ op' = [op EXCEPT ![o].stopped = TRUE]
  /\ UNCHANGED <<which, ctx>>

System == UserCodeReturns \/ drain
User == \E o \in Ops : start(o) \/ RequestStop(o)
Next == which = "trampoline_scheduler" /\ (System \/ User)

References(o) == Times(ctx.head_, o)
Stopping == FALSE
Left == ~ctx.current_
Bounded == Len(ctx.frames) <= ctx.maxRecursionDepth_
=============================================================================
