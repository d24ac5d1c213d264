------------------------------ MODULE AsyncPass ------------------------------
(***************************************************************************)
(* async_pass: one word in which either a caller or an acceptor waits for  *)
(* the other.  Whoever comes second takes the first out, makes the call    *)
(* and completes both.                                                     *)
(***************************************************************************)
EXTENDS Waiting

Callers == {"async_call", "async_throw"}
Tries == {"try_call", "try_throw", "try_accept"}

Init ==
  /\ which = "async_pass"
  /\ op \in [Ops -> {NewOp(kind) : kind \in Callers \cup Tries \cup {"async_accept"}}]
  /\ \A o \in StopOps : op[o].kind \notin Tries
  /\ ctx = [state_ |-> <<>>] /\ NoAgents

(* The word holds a pointer; its tag is the kind of operation.             *)
is_caller(s) == s # <<>> /\ op[s[1]].kind \in Callers
is_acceptor(s) == s # <<>> /\ op[s[1]].kind = "async_accept"

(* A pass is used by one caller and one acceptor at a time.                *)
SameSide(o, p) == (op[o].kind = "async_accept") = (op[p].kind = "async_accept")
Alone(o) == \A p \in Ops : op[p].life \in {"started", "hopping"} => ~SameSide(o, p)
async(o) == op[o].kind \notin Tries /\ Alone(o) /\ Start(o, FALSE)

(* The call: caller c gives acceptor o a value or an exception; a callable *)
(* may throw instead of calling.                                           *)
Results(c) == IF op[c].kind \in {"async_throw", "try_throw"} THEN {"error"} ELSE {"value", "error"}
Meet(c, o, result) ==
  /\ op' = [op EXCEPT ![c].partner = <<o>>, ![o].partner = <<c>>, ![o].result = result]
  /\ ctx' = [ctx EXCEPT !.state_ = <<>>]
Suspend(o) ==
  /\ ctx' = [ctx EXCEPT !.state_ = <<o>>]
  /\ Goto(<<o, "start">>, "mark")
  /\ UNCHANGED <<op, local>>

(* start(): call_or_suspend() or accept_or_suspend().  Who finds the other *)
(* completes first the acceptor, then the caller.                          *)
call_or_suspend(o) ==
  LET a == <<o, "start">> IN
  /\ at[a] = "nested" /\ op[o].kind \in Callers /\ ~is_caller(ctx.state_)
  /\ \/ /\ is_acceptor(ctx.state_)
        /\ \E result \in Results(o) : Meet(o, ctx.state_[1], result)
        /\ CompleteThen(a, ctx.state_[1], "resume", "resume")
        /\ UNCHANGED local
     \/ ~is_acceptor(ctx.state_) /\ Suspend(o)
  /\ UNCHANGED which
accept_or_suspend(o) ==
  LET a == <<o, "start">> IN
  /\ at[a] = "nested" /\ op[o].kind = "async_accept" /\ ~is_acceptor(ctx.state_)
  /\ \/ /\ is_caller(ctx.state_)
        /\ \E result \in Results(ctx.state_[1]) : Meet(ctx.state_[1], o, result)
        /\ CompleteThen(a, o, "resume", "resume")
        /\ local' = [local EXCEPT ![a] = ctx.state_]
     \/ ~is_caller(ctx.state_) /\ Suspend(o)
  /\ UNCHANGED which
Resumed(a) == IF op[a[1]].kind = "async_accept" THEN local[a][1] ELSE a[1]
resume_(o) ==
  LET a == <<o, "start">> IN
  /\ at[a] = "resume"
  /\ CompleteThen(a, Resumed(a), "mark", "mark")
  /\ local' = [local EXCEPT ![a] = <<>>]
  /\ UNCHANGED <<which, op, ctx>>

(* try_call(), try_throw() and try_accept(): nothing is left behind when   *)
(* the other side is not there.                                            *)
Found(o) == IF op[o].kind = "try_accept" THEN is_caller(ctx.state_) ELSE is_acceptor(ctx.state_)
try(o) ==
  LET other == ctx.state_[1]
      accepts == op[o].kind = "try_accept"
  IN
  /\ op[o].kind \in Tries /\ op[o].life = "idle"
  /\ \/ /\ ~Found(o)
        /\ op' = [op EXCEPT ![o].life = "completed", ![o].signals = <<"done">>]
        /\ UNCHANGED <<ctx, threads>>
     \/ /\ Found(o)
        /\ \E result \in Results(IF accepts THEN other ELSE o) :
             op' = [op EXCEPT ![o].life = "completed", ![o].signals = <<IF accepts THEN result ELSE "value">>,
                              ![o].partner = <<other>>, ![other].partner = <<o>>,
                              ![IF accepts THEN o ELSE other].result = result]
        /\ ctx' = [ctx EXCEPT !.state_ = <<>>]
        /\ CompleteThen(<<o, "start">>, other, "returned", "returned")
  /\ UNCHANGED <<which, local>>

(* Mutation of stop: the operation is marked as cancelled although it has  *)
(* been claimed.                                                           *)
stop_MarksFirst(a) ==
  /\ at[a] = "stop"
  /\ op' = [op EXCEPT ![a[1]].cancelled = TRUE]
  /\ \/ /\ ctx.state_ = <<a[1]>>
        /\ ctx' = [ctx EXCEPT !.state_ = <<>>]
        /\ CompleteThen(a, a[1], AfterStop(a), AfterStop(a))
     \/ ctx.state_ # <<a[1]>> /\ Goto(a, AfterStop(a)) /\ UNCHANGED ctx
  /\ UNCHANGED <<which, local>>

(* stop(): takes itself out of the word unless it was claimed.             *)
stop(a) ==
  /\ at[a] = "stop"
  /\ \/ /\ ctx.state_ = <<a[1]>>
        /\ op' = [op EXCEPT ![a[1]].cancelled = TRUE]
        /\ ctx' = [ctx EXCEPT !.state_ = <<>>]
        /\ CompleteThen(a, a[1], AfterStop(a), AfterStop(a))
     \/ ctx.state_ # <<a[1]>> /\ Goto(a, AfterStop(a)) /\ UNCHANGED <<op, ctx>>
  /\ UNCHANGED <<which, local>>

System ==
  \/ Completions \/ Cancellation
  \/ \E a \in Agents : stop(a)
  \/ \E o \in Ops : call_or_suspend(o) \/ accept_or_suspend(o) \/ resume_(o)
User == \E o \in Ops : async(o) \/ try(o) \/ RequestStop(o)
Next == which = "async_pass" /\ (System \/ User)

-----------------------------------------------------------------------------
(* A caller that has been claimed is held by the thread that will resume   *)
(* it once its acceptor is complete.                                       *)
Resuming(o) == {a \in Agents : (won[a] = "resume" \/ at[a] = "resume") /\ o = Resumed(a)}
Places(o) == Times(ctx.state_, o) + Handling(o) + Starting(o, {"nested"}) + Cardinality(Resuming(o))
MayWait(o) == ctx.state_ = <<o>> /\ ~op[o].stopped

(* Whoever completes with done has met nobody; everybody else has met      *)
(* exactly one partner of the other side, who knows.                       *)
Paired ==
  \A o \in Ops :
    /\ op[o].partner # <<>> => op[op[o].partner[1]].partner = <<o>>
    /\ op[o].signals # <<>> => (op[o].signals = <<"done">> <=> op[o].partner = <<>>)
    /\ op[o].signals # <<>> /\ op[o].partner # <<>> /\ op[o].kind \in Callers => op[o].signals = <<"value">>
=============================================================================
