------------------------------ MODULE Effects ------------------------------
(***************************************************************************)
(* The vocabulary in which the handlers of a sender's operation state are  *)
(* written down.  A handler (a constructor, start(), a receiver's          *)
(* set_value/set_error/set_done, a stop callback, a destructor) is the     *)
(* sequence of its effects, in the order of the code.  Every effect is one *)
(* record of the same shape, so that handlers are plain data: Operations   *)
(* gives them their meaning.                                               *)
(***************************************************************************)
EXTENDS Naturals, Sequences

(* do: the kind of effect; x: the object, child, flag, signal or stop      *)
(* source; v: a value; then/alt: what follows when the effect has two      *)
(* outcomes (alt is the catch block of an effect that may throw).          *)
Effect(do, x, v, then, alt) == [do |-> do, x |-> x, v |-> v, then |-> then, alt |-> alt]

(* Leave the handler; throw out of it to the caller; std::terminate(); call *)
(* the handler ev of x and come back.                                      *)
Return == Effect("return", "", "", <<>>, <<>>)
Throw == Effect("throw", "", "", <<>>, <<>>)
Terminate == Effect("terminate", "", "", <<>>, <<>>)
Call(x, ev) == Effect("call", x, ev, <<>>, <<>>)

(* Construct x, which cannot throw; construct it when that may throw, with *)
(* what runs instead of the rest of the handler; run user code that may    *)
(* throw; destroy x; touch x.                                              *)
New(x) == Effect("new", x, "", <<>>, <<>>)
Make(x, catch) == Effect("make", x, "", <<>>, catch)
Invoke(catch) == Effect("invoke", "", "", <<>>, catch)
Del(x) == Effect("del", x, "", <<>>, <<>>)
Use(x) == Effect("use", x, "", <<>>, <<>>)

(* Read a member of x after x was destroyed but while its storage is there. *)
Recall(x) == Effect("recall", x, "", <<>>, <<>>)

(* start() of the child operation c.                                       *)
Start(c) == Effect("start", c, "", <<>>, <<>>)

(* Complete the receiver held in the operation state with sig: an          *)
(* exception of its set_value goes to the caller, or to a catch block.     *)
(* DeliverFrom passes on a reference that the child c gave, which may be   *)
(* to an object in the state of c.                                         *)
Deliver(sig) == Effect("deliver", sig, "", <<>>, <<Throw>>)
DeliverOr(sig, catch) == Effect("deliver", sig, "", <<>>, catch)
DeliverFrom(sig, c) == Effect("deliver", sig, c, <<>>, <<Throw>>)
DeliverFromOr(sig, c, catch) == Effect("deliver", sig, c, <<>>, catch)

(* Members of the operation state: a store, a test, a branch on data the   *)
(* model does not keep, the decrement of a counter (then: it reached       *)
(* zero), a compare-exchange (then: it succeeded), the exchange of a flag  *)
(* that is only ever set (then: it was not set before), an assertion, a    *)
(* wait, a wait for a child.                                               *)
Set(f, v) == Effect("set", f, v, <<>>, <<>>)
If(f, v, then, alt) == Effect("if", f, v, then, alt)
Either(then, alt) == Effect("either", "", "", then, alt)
Dec(f, then, alt) == Effect("dec", f, "", then, alt)
Cas(f, old, new, then, alt) == Effect("cas", f, old, <<Set(f, new)>> \o then, alt)
Exchange(f, then, alt) == Cas(f, "false", "true", then, alt)
Abort == Effect("abort", "", "", <<>>, <<>>)
Require(f, v) == If(f, v, <<>>, <<Abort>>)
Await(f, v) == Effect("await", f, v, <<>>, <<>>)
Join(c) == Effect("join", c, "", <<>>, <<>>)

(* The recursive lock of the operation state, and whether it is held once. *)
Lock == Effect("lock", "", "", <<>>, <<>>)
Unlock == Effect("unlock", "", "", <<>>, <<>>)
IfOutermost(then, alt) == Effect("ifoutermost", "", "", then, alt)

(* Stop sources and callbacks: construct and destroy the callback cb on    *)
(* the source s ("receiver" is the receiver's token), request stop of s,   *)
(* test whether stop was requested.                                        *)
Register(cb, s) == Effect("register", cb, s, <<>>, <<>>)
Deregister(cb) == Effect("deregister", cb, "", <<>>, <<>>)
RequestStop(s) == Effect("request", s, "", <<>>, <<>>)
IfLive(x, then, alt) == Effect("iflive", x, "", then, alt)
Reset(cb) == IfLive(cb, <<Deregister(cb)>>, <<>>)
RunCallbacks(s) == Effect("callbacks", s, "", <<>>, <<>>)
IfStopped(s, then, alt) == Effect("ifstopped", s, "", then, alt)

(* A receiver that hands every signal of c on to the operation's receiver. *)
Forward(c) == [value |-> <<DeliverFrom("value", c)>>,
               error |-> <<DeliverFrom("error", c)>>,
               done |-> <<Deliver("done")>>]

(* An operation state with nothing to construct or destroy by hand.        *)
NoEffects == <<>>

(* blocking_kind, in the order of its enumerators.                         *)
always_inline == 0
always == 1
maybe == 2
never == 3
Larger(a, b) == IF a < b THEN b ELSE a
Smaller(a, b) == IF a < b THEN a ELSE b
=============================================================================
