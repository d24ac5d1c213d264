---------------------------- MODULE WaitersProofs ----------------------------
(***************************************************************************)
(* Proofs about Waiters: the events and async_pass, and what holds for     *)
(* every primitive but the list itself.                                    *)
(***************************************************************************)
EXTENDS WaitingProofs

-----------------------------------------------------------------------------
(* The members of an event, of whichever kind.                             *)
EventType ==
  ctx \in [signalled : BOOLEAN, waiters : Seq(Ops), mutex_ : {<<>>} \cup {<<a>> : a \in Agents},
           state_ : {"UNSET", "SET", "DONE"}]

(* v2::async_manual_reset_event.  A thread that has called set() has a     *)
(* list of those it has yet to wake; a waiter is in the list of the event, *)
(* that of one thread, the hands of one, or those of its own start().      *)
LatchThreads ==
  /\ \A o \in Ops :
       /\ at[Starter(o)] \in {"none", "nested", "try", "cleanup", "mark", "stop", "returned"}
       /\ at[Stopper(o)] \in {"none", "callback", "stop", "try", "cleanup", "return", "returned"}
       /\ at[Caller(o)] \in {"none", "wake", "try", "cleanup", "returned"}
       /\ at[Starter(o)] \in {"try", "cleanup"} => won[Starter(o)] \in {"mark", "returned"}
       /\ at[Stopper(o)] \in {"try", "cleanup"} => won[Stopper(o)] = "return"
       /\ at[Caller(o)] \in {"try", "cleanup"} => won[Caller(o)] = "wake"
  /\ \A a \in Agents : at[a] \notin {"try", "cleanup"} => won[a] = "none"
LatchLocals ==
  /\ local \in [Agents -> Seq(Ops)]
  /\ \A a \in Agents : /\ Once(local[a])
                       /\ at[a] # "wake" /\ won[a] # "wake" => local[a] = <<>>
TakenBy(a, o) == InList(local[a], o)
Taken(o) == \E a \in Agents : TakenBy(a, o)
LatchOnePlace ==
  /\ Once(ctx.waiters)
  /\ \A o \in Ops :
       /\ op[o].life = "started" <=>
            InList(ctx.waiters, o) \/ Taken(o) \/ Held(o) \/ at[Starter(o)] = "nested"
       /\ ~(InList(ctx.waiters, o) /\ Taken(o)) /\ ~(InList(ctx.waiters, o) /\ Held(o))
       /\ ~(InList(ctx.waiters, o) /\ at[Starter(o)] = "nested") /\ ~(Taken(o) /\ Held(o))
       /\ ~(Taken(o) /\ at[Starter(o)] = "nested") /\ ~(Held(o) /\ at[Starter(o)] = "nested")
       /\ \A a, b \in Agents : TakenBy(a, o) /\ TakenBy(b, o) => a = b
LatchEmpty == ctx.signalled => ctx.waiters = <<>>
LatchInv == EventType /\ LatchThreads /\ LatchLocals /\ LatchOnePlace /\ LatchEmpty

(* v1::async_manual_reset_event and the async_auto_reset_event around one. *)
(* A thread in start() has the top of the stack it has read.               *)
Tops == {<<>>, <<"signalled">>} \cup {<<"op", o>> : o \in Ops}
StackThreads ==
  /\ \A o \in Ops :
       /\ at[Starter(o)] \in {"none", "set_done", "wake", "load", "push", "returned"}
       /\ at[Stopper(o)] \in {"none", "callback", "wake", "return", "returned"}
       /\ at[Caller(o)] \in {"none", "wake", "set_done", "returned"}
  /\ \A a \in Agents : won[a] = "none"
StackLocals ==
  /\ local \in [Agents -> Seq(Ops) \cup Tops]
  /\ \A a \in Agents :
       /\ at[a] = "wake" => local[a] \in Seq(Ops) /\ Once(local[a])
       /\ at[a] = "push" => local[a] \in Tops
       /\ at[a] \notin {"wake", "push"} => local[a] = <<>>
WokenBy(a, o) == at[a] = "wake" /\ InList(local[a], o)
Woken(o) == \E a \in Agents : WokenBy(a, o)
StackStarting(o) == at[Starter(o)] \in {"load", "push", "set_done", "wake"}
StackOnePlace ==
  /\ Once(ctx.waiters)
  /\ \A o \in Ops :
       /\ op[o].life = "started" <=> InList(ctx.waiters, o) \/ Woken(o) \/ StackStarting(o)
       /\ ~(InList(ctx.waiters, o) /\ Woken(o)) /\ ~(InList(ctx.waiters, o) /\ StackStarting(o))
       /\ ~(Woken(o) /\ StackStarting(o))
       /\ \A a, b \in Agents : WokenBy(a, o) /\ WokenBy(b, o) => a = b

(* One consumer at a time waits for an auto-reset event, and set() and     *)
(* set_done() hold its mutex until they have woken it.                     *)
Active(o) == op[o].life \in {"started", "hopping"}
AutoInv ==
  /\ \A o, p \in Ops : Active(o) /\ Active(p) => o = p
  /\ \A a \in Agents : at[a] = "wake" => ctx.mutex_ = <<a>> /\ ctx.signalled
  /\ \A o \in Ops : at[Starter(o)] = "push" /\ local[Starter(o)] = <<"signalled">> => ctx.signalled
  /\ \A o \in Ops : op[o].life = "hopping" => ctx.signalled
  /\ ctx.signalled <=> ctx.state_ # "UNSET"

(* Nobody stops the waiters of a v1 event.                                 *)
ManualInv == \A o \in Ops : op[o].cb = "none" /\ at[Starter(o)] \notin {"set_done", "wake"}
StackInv ==
  /\ EventType /\ StackThreads /\ StackLocals /\ StackOnePlace /\ LatchEmpty
  /\ AutoReset => AutoInv
  /\ ~AutoReset => ManualInv

-----------------------------------------------------------------------------
(* async_pass.  A caller that was claimed is with the thread that resumes  *)
(* it once it has completed the acceptor.                                  *)
Accepts(o) == op[o].kind \in {"async_accept", "try_accept"}
PassType == ctx \in [state_ : Whom] /\ local \in [Agents -> Whom]
PassThreads ==
  /\ \A o \in Ops :
       /\ at[Stopper(o)] \in {"none", "callback", "stop", "try", "cleanup", "return", "returned"}
       /\ at[Caller(o)] = "none"
       /\ at[Starter(o)] \in {"none", "nested", "try", "cleanup", "resume", "mark", "stop", "returned"}
       /\ at[Stopper(o)] \in {"try", "cleanup"} => won[Stopper(o)] = "return"
       /\ at[Starter(o)] \in {"try", "cleanup"} => won[Starter(o)] \in {"resume", "mark", "returned"}
  /\ \A a \in Agents : at[a] \notin {"try", "cleanup"} => won[a] = "none"
Resumes(a) == at[a] = "resume" \/ won[a] = "resume"
ResumedBy(a, o) == Resumes(a) /\ Pass!Resumed(a) = o
Resuming(o) == \E a \in Agents : ResumedBy(a, o)
PassLocals ==
  \A a \in Agents : Resumes(a) /\ op[a[1]].kind = "async_accept" => local[a] # <<>>
PassOnePlace ==
  \A o \in Ops :
    /\ op[o].life = "started" <=>
         ctx.state_ = <<o>> \/ Resuming(o) \/ Held(o) \/ at[Starter(o)] = "nested"
    /\ ~(ctx.state_ = <<o>> /\ Resuming(o)) /\ ~(ctx.state_ = <<o>> /\ Held(o))
    /\ ~(ctx.state_ = <<o>> /\ at[Starter(o)] = "nested") /\ ~(Resuming(o) /\ Held(o))
    /\ ~(Resuming(o) /\ at[Starter(o)] = "nested") /\ ~(Held(o) /\ at[Starter(o)] = "nested")
    /\ \A a, b \in Agents : ResumedBy(a, o) /\ ResumedBy(b, o) => a = b

(* An operation has met nobody until it is claimed.                        *)
PassPartners ==
  \A o \in Ops :
    /\ op[o].kind \notin {"wait", "async_lock", "try_lock"}
    /\ ctx.state_ = <<o>> => op[o].kind \notin Pass!Tries
    /\ op[o].life = "idle" \/ ctx.state_ = <<o>> \/ at[Starter(o)] = "nested" =>
         op[o].partner = <<>> /\ ~op[o].cancelled
    /\ op[o].life = "hopping" \/ Resuming(o) \/ Held(o) => (op[o].cancelled <=> op[o].partner = <<>>)
    /\ op[o].kind \in Pass!Callers => op[o].result = "value"
PassInv ==
  PassType /\ PassThreads /\ PassLocals /\ PassOnePlace /\ PassPartners /\ (~HopStops => Pass!Paired)


-----------------------------------------------------------------------------
(* v2::async_manual_reset_event: steps that leave every waiter where it    *)
(* is.                                                                     *)
LEMMA LatchSame ==
  ASSUME LatchOnePlace, ctx'.waiters = ctx.waiters, local' = local,
         \A p \in Ops : Held(p)' <=> Held(p),
         \A p \in Ops : op'[p].life = op[p].life,
         \A p \in Ops : at'[Starter(p)] = "nested" <=> at[Starter(p)] = "nested"
  PROVE  LatchOnePlace'
<1>1. \A b \in Agents, p \in Ops : TakenBy(b, p)' <=> TakenBy(b, p)
  BY DEF TakenBy
<1>2. \A p \in Ops : Taken(p)' <=> Taken(p)
  BY <1>1 DEF Taken
<1> QED BY <1>1, <1>2 DEF LatchOnePlace

LEMMA LatchGoto ==
  ASSUME SharedInv, LatchInv, NEW a \in Agents, NEW pc, Goto(a, pc),
         at[a] \notin {"try", "cleanup", "wake", "nested"},
         \/ a = Starter(a[1]) /\ pc \in {"stop", "returned"}
         \/ a = Stopper(a[1]) /\ pc \in {"callback", "stop", "return", "returned"}
         \/ a = Caller(a[1]) /\ pc = "returned",
         local' = local, ctx'.waiters = ctx.waiters, EventType', LatchEmpty',
         \A p \in Ops : op'[p].life = op[p].life
  PROVE  LatchInv'
<1>1. SharedType /\ LatchThreads /\ LatchLocals /\ LatchOnePlace
  BY DEF SharedInv, LatchInv
<1>2. /\ Moves(a, pc) /\ won' = won /\ \A p \in Ops : Held(p)' <=> Held(p)
  BY <1>1, GotoMoves
<1>3. LatchThreads'
  BY <1>1, <1>2, AgentFacts, AgentsDiffer DEF LatchThreads, Moves
<1>4. LatchLocals'
  BY <1>1, <1>2 DEF LatchLocals, Moves
<1>5. \A p \in Ops : at'[Starter(p)] = "nested" <=> at[Starter(p)] = "nested"
  BY <1>2, AgentFacts DEF Moves
<1>6. LatchOnePlace'
  BY <1>1, <1>2, <1>5, LatchSame
<1> QED BY <1>3, <1>4, <1>6 DEF LatchInv

LEMMA LatchStart ==
  ASSUME SharedInv, LatchInv, NEW o \in Ops, Start(o, FALSE)
  PROVE  SharedInv' /\ LatchInv'
<1> DEFINE a == Starter(o)
<1>1. SharedType /\ HandsInv /\ LifeInv /\ EventType /\ LatchThreads /\ LatchLocals /\ LatchOnePlace /\ LatchEmpty
  BY DEF SharedInv, LatchInv
<1>2. Begun(o, "nested") /\ UNCHANGED <<which, ctx, local>>
  BY StartStep
<1>3. a \in Agents /\ Goto(a, "nested") /\ op[o].life = "idle" /\ at[a] = "none"
  BY <1>1, <1>2, AgentFacts DEF Begun, LifeInv
<1>4. Moves(a, "nested") /\ won' = won /\ \A p \in Ops : Held(p)' <=> Held(p)
  BY <1>1, <1>3, GotoMoves
<1>5. \A p \in Ops : op'[p].life = IF p = o THEN "started" ELSE op[p].life
  BY <1>2 DEF Begun
<1>6. SharedInv'
  BY <1>2, StartShared DEF Pcs
<1>7. EventType' /\ LatchEmpty'
  BY <1>1, <1>2 DEF EventType, LatchEmpty
<1>8. LatchThreads'
  BY <1>1, <1>3, <1>4, AgentFacts, AgentsDiffer DEF LatchThreads, Moves
<1>9. LatchLocals'
  BY <1>1, <1>2, <1>3, <1>4 DEF LatchLocals, Moves
<1>10. LatchOnePlace'
  <2>1. \A p \in Ops : Taken(p)' <=> Taken(p)
    BY <1>2 DEF Taken, TakenBy
  <2>2. \A p \in Ops : at'[Starter(p)] = "nested" <=> p = o \/ at[Starter(p)] = "nested"
    BY <1>3, <1>4, AgentFacts, AgentsDiffer DEF Moves
  <2>3. \A p \in Ops, b \in Agents : TakenBy(b, p)' <=> TakenBy(b, p)
    BY <1>2 DEF TakenBy
  <2>4. ctx' = ctx
    BY <1>2
  <2> QED BY <1>1, <1>3, <1>4, <1>5, <2>1, <2>2, <2>3, <2>4 DEF LatchOnePlace
<1> QED BY <1>6, <1>7, <1>8, <1>9, <1>10 DEF LatchInv

(* push_front_unless_latched() finds the latch.                            *)
LEMMA LatchFound ==
  ASSUME SharedInv, LatchInv, NEW o \in Ops, at[Starter(o)] = "nested",
         CompleteThen(Starter(o), o, "mark", "mark"), UNCHANGED <<which, op, ctx, local>>
  PROVE  SharedInv' /\ LatchInv'
<1> DEFINE a == Starter(o)
<1>1. SharedType /\ HandsInv /\ LifeInv /\ EventType /\ LatchThreads /\ LatchLocals /\ LatchOnePlace /\ LatchEmpty
  BY DEF SharedInv, LatchInv
<1>2. a \in Agents /\ a[1] = o /\ whom[a] = <<>> /\ won[a] = "none"
  BY <1>1, AgentFacts, AgentOf DEF HandsInv, LatchThreads
<1>3. op[o].life = "started" /\ ~Held(o) /\ ~Taken(o) /\ ~InList(ctx.waiters, o)
  BY <1>1 DEF LatchOnePlace
<1>4. /\ Moves(a, "try") /\ \A b \in Agents : won'[b] = IF b = a THEN "mark" ELSE won[b]
      /\ \A p \in Ops : Held(p)' <=> p = o \/ Held(p)
  BY <1>1, <1>2, CompleteMoves
<1>5. SharedInv'
  BY <1>1, <1>2, <1>3, CompleteShared DEF SharedType, Pcs
<1>6. EventType' /\ LatchEmpty'
  BY <1>1 DEF EventType, LatchEmpty
<1>7. LatchThreads'
  BY <1>1, <1>2, <1>4, AgentFacts, AgentsDiffer DEF LatchThreads, Moves
<1>8. LatchLocals'
  BY <1>1, <1>2, <1>4 DEF LatchLocals, Moves
<1>9. LatchOnePlace'
  <2>1. \A p \in Ops : Taken(p)' <=> Taken(p)
    BY DEF Taken, TakenBy
  <2>2. \A p \in Ops : at'[Starter(p)] = "nested" <=> p # o /\ at[Starter(p)] = "nested"
    BY <1>2, <1>4, AgentFacts, AgentsDiffer DEF Moves
  <2>3. \A p \in Ops, b \in Agents : TakenBy(b, p)' <=> TakenBy(b, p)
    BY DEF TakenBy
  <2> QED BY <1>1, <1>3, <1>4, <2>1, <2>2, <2>3 DEF LatchOnePlace
<1> QED BY <1>5, <1>6, <1>7, <1>8, <1>9 DEF LatchInv

LEMMA LatchPushFront ==
  ASSUME SharedInv, LatchInv, NEW o \in Ops, Events!PushFront(o)
  PROVE  SharedInv' /\ LatchInv'
<1> DEFINE a == Starter(o)
<1>1. SharedType /\ HandsInv /\ LifeInv /\ EventType /\ LatchThreads /\ LatchLocals /\ LatchOnePlace /\ LatchEmpty
  BY DEF SharedInv, LatchInv
<1>2. /\ at[a] = "nested" /\ which' = which /\ op' = op /\ local' = local
      /\ \/ ctx' = ctx /\ CompleteThen(a, o, "mark", "mark")
         \/ ~ctx.signalled /\ ctx' = [ctx EXCEPT !.waiters = <<o>> \o @] /\ Goto(a, "mark")
  BY DEF Events!PushFront, Events!CompleteThen, CompleteThen, Events!Goto, Goto, Starter
<1>3. CASE ctx' = ctx /\ CompleteThen(a, o, "mark", "mark")
  BY <1>2, <1>3, LatchFound
<1>4. CASE ~ctx.signalled /\ ctx' = [ctx EXCEPT !.waiters = <<o>> \o @] /\ Goto(a, "mark")
  <2>1. a \in Agents /\ a[1] = o
    BY AgentFacts, AgentOf
  <2>2. op[o].life = "started" /\ ~Held(o) /\ ~Taken(o) /\ ~InList(ctx.waiters, o)
    BY <1>1, <1>2 DEF LatchOnePlace
  <2>3. Moves(a, "mark") /\ won' = won /\ \A p \in Ops : Held(p)' <=> Held(p)
    BY <1>1, <1>4, <2>1, GotoMoves
  <2>4. SharedInv'
    BY <1>1, <1>2, <1>4, <2>1, <2>2, GotoShared DEF SharedType, SameStage, Pcs
  <2>5. ctx.waiters \in Seq(Ops) /\ Once(ctx.waiters)
    BY <1>1 DEF EventType, LatchOnePlace
  <2>6. /\ ctx'.waiters = <<o>> \o ctx.waiters /\ ctx'.signalled = ctx.signalled /\ ctx'.waiters \in Seq(Ops)
        /\ Once(ctx'.waiters) /\ \A p \in Ops : InList(ctx'.waiters, p) <=> p = o \/ InList(ctx.waiters, p)
    BY <1>1, <1>4, <2>2, <2>5, PrependFacts DEF EventType
  <2>7. EventType' /\ LatchEmpty'
    BY <1>1, <1>4, <2>6 DEF EventType, LatchEmpty
  <2>8. LatchThreads'
    BY <1>1, <1>2, <2>1, <2>3, AgentFacts, AgentsDiffer DEF LatchThreads, Moves
  <2>9. LatchLocals'
    BY <1>1, <1>2, <2>1, <2>3 DEF LatchLocals, Moves
  <2>10. LatchOnePlace'
    <3>1. \A p \in Ops : Taken(p)' <=> Taken(p)
      BY <1>2 DEF Taken, TakenBy
    <3>2. \A p \in Ops : at'[Starter(p)] = "nested" <=> p # o /\ at[Starter(p)] = "nested"
      BY <2>1, <2>3, AgentFacts, AgentsDiffer DEF Moves
    <3>3. \A p \in Ops, b \in Agents : TakenBy(b, p)' <=> TakenBy(b, p)
      BY <1>2 DEF TakenBy
    <3>4. op' = op
      BY <1>2
    <3> QED BY <1>1, <2>2, <2>3, <2>6, <3>1, <3>2, <3>3, <3>4 DEF LatchOnePlace
  <2> QED BY <2>4, <2>7, <2>8, <2>9, <2>10 DEF LatchInv
<1> QED BY <1>2, <1>3, <1>4

(* stop(): the waiter is taken out of the list it is in, if it is in one.  *)
LEMMA LatchStop ==
  ASSUME SharedInv, LatchInv, NEW a \in Agents, Events!StopV2(a)
  PROVE  SharedInv' /\ LatchInv'
<1> DEFINE o == a[1]
           next == IF a[2] = "stop" THEN "return" ELSE "returned"
<1>1. SharedType /\ HandsInv /\ LifeInv /\ EventType /\ LatchThreads /\ LatchLocals /\ LatchOnePlace /\ LatchEmpty
  BY DEF SharedInv, LatchInv
<1>2. /\ at[a] = "stop" /\ which' = which
      /\ \/ /\ InList(ctx.waiters, o) \/ Taken(o)
            /\ ctx' = [ctx EXCEPT !.waiters = Without(@, o)]
            /\ local' = [b \in Agents |-> Without(local[b], o)]
            /\ op' = [op EXCEPT ![o].cancelled = TRUE]
            /\ CompleteThen(a, o, next, next)
         \/ Goto(a, next) /\ op' = op /\ ctx' = ctx /\ local' = local
  <2>1. \A q : Events!Without(q, o) = Without(q, o)
    BY DEF Events!Without, Without, Events!RemoveAt, RemoveAt
  <2>2. Events!Listed(o) => InList(ctx.waiters, o) \/ Taken(o)
    BY DEF Events!Listed, InList, Taken, TakenBy, Events!Agents, Agents
  <2>3. Events!AfterStop(a) = next
    BY DEF Events!AfterStop
  <2>4. Events!Agents = Agents
    BY DEF Events!Agents, Agents
  <2> QED BY <2>1, <2>2, <2>3, <2>4 DEF Events!StopV2, Events!Goto, Goto, Events!CompleteThen, CompleteThen
<1>3. o \in Ops /\ (a = Starter(o) \/ a = Stopper(o))
  BY <1>1, <1>2, AgentFacts DEF LatchThreads
<1>4. \/ a = Starter(o) /\ next = "returned"
      \/ a = Stopper(o) /\ next = "return"
  BY <1>3, AgentOf
<1>5. op[o].life # "idle"
  BY <1>1, <1>2, <1>3 DEF LifeInv
<1> HIDE DEF o, next
<1>6. CASE Goto(a, next) /\ op' = op /\ ctx' = ctx /\ local' = local
  <2>1. SharedInv'
    BY <1>1, <1>2, <1>4, <1>5, <1>6, GotoShared DEF SharedType, SameStage, Pcs, o
  <2>2. EventType' /\ LatchEmpty'
    BY <1>1, <1>6 DEF EventType, LatchEmpty
  <2>3. \/ a = Starter(a[1]) /\ next \in {"stop", "returned"}
        \/ a = Stopper(a[1]) /\ next \in {"callback", "stop", "return", "returned"}
    BY <1>4 DEF o
  <2>4. LatchInv'
    BY <1>2, <1>6, <2>2, <2>3, LatchGoto
  <2> QED BY <2>1, <2>4
<1>7. CASE /\ InList(ctx.waiters, o) \/ Taken(o)
           /\ ctx' = [ctx EXCEPT !.waiters = Without(@, o)]
           /\ local' = [b \in Agents |-> Without(local[b], o)]
           /\ op' = [op EXCEPT ![o].cancelled = TRUE]
           /\ CompleteThen(a, o, next, next)
  <2>1. ctx.waiters \in Seq(Ops) /\ Once(ctx.waiters)
    BY <1>1 DEF EventType, LatchOnePlace
  <2>2. /\ ctx'.waiters = Without(ctx.waiters, o) /\ ctx'.signalled = ctx.signalled
        /\ ctx'.waiters \in Seq(Ops) /\ Once(ctx'.waiters)
        /\ \A p \in Ops : InList(ctx'.waiters, p) <=> p # o /\ InList(ctx.waiters, p)
    BY <1>1, <1>3, <1>7, <2>1, WithoutFacts DEF EventType
  <2>3. EventType' /\ LatchEmpty'
    <3>1. Without(<<>>, o) = <<>>
      BY DEF Without
    <3>2. EventType'
      BY <1>1, <1>7, <2>2 DEF EventType
    <3>3. LatchEmpty'
      BY <1>1, <2>2, <3>1 DEF LatchEmpty
    <3> QED BY <3>2, <3>3
  <2>4. \A b \in Agents : /\ local'[b] = Without(local[b], o) /\ local'[b] \in Seq(Ops) /\ Once(local'[b])
                          /\ \A p \in Ops : InList(local'[b], p) <=> p # o /\ InList(local[b], p)
    <3> TAKE b \in Agents
    <3>1. local'[b] = Without(local[b], o) /\ local[b] \in Seq(Ops) /\ Once(local[b])
      BY <1>1, <1>7 DEF LatchLocals
    <3> QED BY <1>3, <3>1, WithoutFacts
  <2>5. op[o].life = "started" /\ ~Held(o) /\ at[Starter(o)] # "nested"
    BY <1>1, <1>3, <1>7 DEF LatchOnePlace
  <2>6. op[o] \in Operation
    BY <1>1, <1>3 DEF SharedType
  <2>7. [op[o] EXCEPT !.cancelled = TRUE] \in Operation
    BY <2>6 DEF Operation
  <2>8. op' \in [Ops -> Operation]
    BY <1>1, <1>7, <2>7 DEF SharedType
  <2>9. \A p \in Ops : /\ op'[p].life = op[p].life /\ op'[p].signals = op[p].signals
                       /\ op'[p].cb = op[p].cb /\ op'[p].bits = op[p].bits
    <3> TAKE p \in Ops
    <3> DEFINE yes == TRUE
    <3>1. op'[p] = IF p = o THEN [op[o] EXCEPT !.cancelled = yes] ELSE op[p]
      BY <1>1, <1>7 DEF SharedType
    <3> HIDE DEF yes
    <3> QED BY <2>6, <3>1 DEF Operation
  <2>10. whom[a] = <<>> /\ won[a] = "none"
    BY <1>1, <1>2 DEF HandsInv, LatchThreads
  <2>11. /\ Moves(a, "try") /\ \A b \in Agents : won'[b] = IF b = a THEN next ELSE won[b]
         /\ \A p \in Ops : Held(p)' <=> p = o \/ Held(p)
    BY <1>1, <1>3, <1>7, <2>10, CompleteMoves
  <2>12. SharedInv'
    <3>1. next \in Pcs
      BY <1>4 DEF Pcs
    <3>2. op'[a[1]].life # "idle"
      BY <1>3, <1>5, <2>9 DEF o
    <3> QED BY <1>2, <1>3, <1>7, <2>5, <2>8, <2>9, <3>1, <3>2, CompleteShared
  <2>13. LatchThreads'
    BY <1>1, <1>3, <1>4, <2>11, AgentFacts, AgentsDiffer DEF LatchThreads, Moves
  <2>14. LatchLocals'
    <3>1. local' \in [Agents -> Seq(Ops)]
      BY <1>7, <2>4
    <3>2. Without(<<>>, o) = <<>>
      BY DEF Without
    <3>3. \A b \in Agents : at'[b] # "wake" /\ won'[b] # "wake" => local'[b] = <<>>
      BY <1>1, <1>2, <2>4, <2>10, <2>11, <3>2 DEF LatchLocals, Moves
    <3> QED BY <2>4, <3>1, <3>3 DEF LatchLocals
  <2>15. LatchOnePlace'
    <3>1. \A b \in Agents, p \in Ops : TakenBy(b, p)' <=> p # o /\ TakenBy(b, p)
      BY <2>4 DEF TakenBy
    <3>2. \A p \in Ops : Taken(p)' <=> p # o /\ Taken(p)
      BY <3>1 DEF Taken
    <3>3. \A p \in Ops : at'[Starter(p)] = "nested" <=> at[Starter(p)] = "nested"
      BY <1>2, <2>11, AgentFacts DEF Moves
    <3> QED BY <1>1, <1>3, <2>2, <2>5, <2>9, <2>11, <3>1, <3>2, <3>3 DEF LatchOnePlace
  <2> QED BY <2>3, <2>12, <2>13, <2>14, <2>15 DEF LatchInv
<1> QED BY <1>2, <1>6, <1>7 DEF o, next

LEMMA SignalledFacts ==
  ASSUME EventType, NEW state \in {"UNSET", "SET", "DONE"}, NEW owner \in {<<>>} \cup {<<a>> : a \in Agents},
         ctx' = [ctx EXCEPT !.signalled = TRUE, !.waiters = <<>>, !.state_ = state, !.mutex_ = owner]
  PROVE  /\ ctx'.waiters = <<>> /\ ctx'.signalled = TRUE /\ ctx'.state_ = state /\ ctx'.mutex_ = owner
         /\ EventType' /\ LatchEmpty'
<1> DEFINE nobody == <<>>
           yes == TRUE
           Owners == {<<>>} \cup {<<a>> : a \in Agents}
<1>1. ctx' = [ctx EXCEPT !.signalled = yes, !.waiters = nobody, !.state_ = state, !.mutex_ = owner]
  OBVIOUS
<1>2. nobody \in Seq(Ops) /\ yes \in BOOLEAN /\ owner \in Owners
  OBVIOUS
<1>3. ctx \in [signalled : BOOLEAN, waiters : Seq(Ops), mutex_ : Owners, state_ : {"UNSET", "SET", "DONE"}]
  BY DEF EventType
<1> HIDE DEF nobody, yes, Owners
<1>4. /\ ctx'.waiters = nobody /\ ctx'.signalled = yes /\ ctx'.state_ = state /\ ctx'.mutex_ = owner
  BY <1>1, <1>3
<1>5. ctx' \in [signalled : BOOLEAN, waiters : Seq(Ops), mutex_ : Owners, state_ : {"UNSET", "SET", "DONE"}]
  BY <1>1, <1>2, <1>3
<1>6. EventType'
  BY <1>5 DEF EventType, Owners
<1> QED BY <1>4, <1>6 DEF LatchEmpty, nobody, yes

(* set() takes all waiters at once.                                        *)
LEMMA LatchSet ==
  ASSUME SharedInv, LatchInv, NEW o \in Ops, Events!set(o)
  PROVE  SharedInv' /\ LatchInv'
<1> DEFINE a == Caller(o)
<1>1. SharedType /\ HandsInv /\ LifeInv /\ EventType /\ LatchThreads /\ LatchLocals /\ LatchOnePlace /\ LatchEmpty
  BY DEF SharedInv, LatchInv
<1>2. /\ at[a] = "none" /\ Goto(a, "wake") /\ op' = op /\ which' = which
      /\ ctx' = [ctx EXCEPT !.signalled = TRUE, !.waiters = <<>>, !.state_ = ctx.state_, !.mutex_ = ctx.mutex_]
      /\ local' = [local EXCEPT ![a] = ctx.waiters]
  BY DEF Events!set, Events!Signalled, Events!Goto, Goto, Caller
<1>3. a \in Agents /\ a[1] = o /\ won[a] = "none"
  BY <1>1, <1>2, AgentFacts, AgentOf DEF LatchThreads
<1>4. Moves(a, "wake") /\ won' = won /\ \A p \in Ops : Held(p)' <=> Held(p)
  BY <1>1, <1>2, <1>3, GotoMoves
<1>5. SharedInv'
  BY <1>1, <1>2, <1>3, GotoShared DEF SharedType, SameStage, Pcs
<1>6. ctx'.waiters = <<>> /\ EventType' /\ LatchEmpty'
  <2>1. ctx.state_ \in {"UNSET", "SET", "DONE"} /\ ctx.mutex_ \in {<<>>} \cup {<<b>> : b \in Agents}
    BY <1>1 DEF EventType
  <2> QED BY <1>1, <1>2, <2>1, SignalledFacts
<1>7. /\ ctx.waiters \in Seq(Ops) /\ Once(ctx.waiters) /\ local[a] = <<>>
      /\ \A b \in Agents : local'[b] = IF b = a THEN ctx.waiters ELSE local[b]
  BY <1>1, <1>2, <1>3 DEF EventType, LatchOnePlace, LatchLocals
<1>8. LatchThreads'
  BY <1>1, <1>3, <1>4, AgentFacts, AgentsDiffer DEF LatchThreads, Moves
<1>9. LatchLocals'
  BY <1>1, <1>2, <1>3, <1>4, <1>7 DEF LatchLocals, Moves
<1>10. LatchOnePlace'
  <2>1. \A p \in Ops : ~InList(<<>>, p)
    BY DEF InList
  <2>2. Once(<<>>)
    BY DEF Once
  <2>3. \A b \in Agents, p \in Ops : TakenBy(b, p)' <=> IF b = a THEN InList(ctx.waiters, p) ELSE TakenBy(b, p)
    BY <1>7 DEF TakenBy
  <2>4. \A p \in Ops : ~TakenBy(a, p)
    BY <1>7, <2>1 DEF TakenBy
  <2>5. \A p \in Ops : Taken(p)' <=> InList(ctx.waiters, p) \/ Taken(p)
    BY <1>3, <2>3, <2>4 DEF Taken
  <2>6. \A p \in Ops : at'[Starter(p)] = at[Starter(p)]
    BY <1>4, AgentFacts, AgentsDiffer DEF Moves
  <2>7. \A p \in Ops : \A b, c \in Agents : TakenBy(b, p)' /\ TakenBy(c, p)' => b = c
    BY <1>1, <2>3 DEF LatchOnePlace, Taken
  <2>8. op' = op
    BY <1>2
  <2> QED BY <1>1, <1>4, <1>6, <2>1, <2>2, <2>5, <2>6, <2>7, <2>8 DEF LatchOnePlace
<1> QED BY <1>5, <1>6, <1>8, <1>9, <1>10 DEF LatchInv

(* set() goes on with the first of them.                                   *)
LEMMA LatchWake ==
  ASSUME SharedInv, LatchInv, V2, NEW a \in Agents, Events!Wake(a)
  PROVE  SharedInv' /\ LatchInv'
<1> DEFINE w == Head(local[a])
<1>1. SharedType /\ HandsInv /\ LifeInv /\ EventType /\ LatchThreads /\ LatchLocals /\ LatchOnePlace /\ LatchEmpty
  BY DEF SharedInv, LatchInv
<1>2. /\ at[a] = "wake" /\ local[a] # <<>> /\ op' = op /\ which' = which /\ ctx' = ctx
      /\ local' = [local EXCEPT ![a] = Tail(@)] /\ CompleteThen(a, w, "wake", "wake")
  BY DEF Events!Wake, Events!CompleteThen, CompleteThen, V2, Events!V2
<1>3. local[a] \in Seq(Ops) /\ Once(local[a])
  BY <1>1 DEF LatchLocals
<1>4. /\ w \in Ops /\ InList(local[a], w) /\ Tail(local[a]) \in Seq(Ops) /\ Once(Tail(local[a]))
      /\ \A p \in Ops : InList(Tail(local[a]), p) <=> p # w /\ InList(local[a], p)
  BY <1>2, <1>3, TailFacts
<1> HIDE DEF w
<1>5. \A b \in Agents : local'[b] = IF b = a THEN Tail(local[a]) ELSE local[b]
  BY <1>1, <1>2 DEF LatchLocals
<1>6. Taken(w) /\ TakenBy(a, w)
  BY <1>4 DEF Taken, TakenBy
<1>7. op[w].life = "started" /\ ~Held(w) /\ ~InList(ctx.waiters, w) /\ at[Starter(w)] # "nested"
  BY <1>1, <1>4, <1>6 DEF LatchOnePlace
<1>8. a = Caller(a[1]) /\ a[1] \in Ops /\ whom[a] = <<>>
  BY <1>1, <1>2, AgentFacts DEF LatchThreads, HandsInv
<1>9. /\ Moves(a, "try") /\ \A b \in Agents : won'[b] = IF b = a THEN "wake" ELSE won[b]
      /\ \A p \in Ops : Held(p)' <=> p = w \/ Held(p)
  BY <1>1, <1>2, <1>4, <1>8, CompleteMoves
<1>10. SharedInv'
  <2>1. "wake" \in Pcs
    BY DEF Pcs
  <2>2. op' \in [Ops -> Operation] /\ op' = op
    BY <1>1, <1>2 DEF SharedType
  <2> QED BY <1>2, <1>4, <1>7, <1>8, <2>1, <2>2, CompleteShared
<1>11. EventType' /\ LatchEmpty'
  BY <1>1, <1>2 DEF EventType, LatchEmpty
<1>12. LatchThreads'
  BY <1>1, <1>8, <1>9, AgentFacts, AgentsDiffer DEF LatchThreads, Moves
<1>13. LatchLocals'
  <2>1. local' \in [Agents -> Seq(Ops)]
    BY <1>1, <1>2, <1>4 DEF LatchLocals
  <2>2. \A b \in Agents : Once(local'[b]) /\ (at'[b] # "wake" /\ won'[b] # "wake" => local'[b] = <<>>)
    BY <1>1, <1>4, <1>5, <1>9 DEF LatchLocals, Moves
  <2> QED BY <2>1, <2>2 DEF LatchLocals
<1>14. LatchOnePlace'
  <2>1. \A b \in Agents, p \in Ops : TakenBy(b, p)' <=> IF b = a THEN p # w /\ TakenBy(b, p) ELSE TakenBy(b, p)
    BY <1>4, <1>5 DEF TakenBy
  <2>2. \A b \in Agents : TakenBy(b, w) => b = a
    BY <1>1, <1>4, <1>6 DEF LatchOnePlace
  <2>3. \A p \in Ops : Taken(p)' <=> p # w /\ Taken(p)
    BY <2>1, <2>2 DEF Taken
  <2>4. \A p \in Ops : at'[Starter(p)] = at[Starter(p)]
    BY <1>8, <1>9, AgentFacts, AgentsDiffer DEF Moves
  <2>5. \A p \in Ops : \A b, c \in Agents : TakenBy(b, p)' /\ TakenBy(c, p)' => b = c
    BY <1>1, <2>1 DEF LatchOnePlace
  <2>6. op' = op /\ ctx' = ctx
    BY <1>2
  <2> QED BY <1>1, <1>4, <1>6, <1>7, <1>9, <2>3, <2>4, <2>5, <2>6 DEF LatchOnePlace
<1> QED BY <1>10, <1>11, <1>12, <1>13, <1>14 DEF LatchInv

(* The end of set(), and reset().                                          *)
LEMMA LatchReturns ==
  ASSUME SharedInv, LatchInv, NEW a \in Agents, Events!SetReturns(a)
  PROVE  SharedInv' /\ LatchInv'
<1>1. SharedType /\ HandsInv /\ LifeInv /\ EventType /\ LatchThreads /\ LatchLocals /\ LatchOnePlace /\ LatchEmpty
  BY DEF SharedInv, LatchInv
<1>2. a = Caller(a[1]) /\ a[1] \in Ops /\ at[a] = "wake" /\ won[a] = "none"
  BY <1>1, AgentFacts DEF LatchThreads, Events!SetReturns
<1>3. /\ local[a] = <<>> /\ op' = op /\ which' = which /\ local' = local
      /\ ctx' = [ctx EXCEPT !.mutex_ = <<>>] /\ Goto(a, "returned")
  <2>1. Events!AfterSet(a) = "returned"
    BY <1>2, AgentOf DEF Events!AfterSet
  <2> QED BY <2>1 DEF Events!SetReturns, Events!Goto, Goto
<1>4. Moves(a, "returned") /\ won' = won /\ \A p \in Ops : Held(p)' <=> Held(p)
  BY <1>1, <1>3, GotoMoves
<1>5. SharedInv'
  BY <1>1, <1>2, <1>3, GotoShared DEF SharedType, SameStage, Pcs
<1>6. ctx'.waiters = ctx.waiters /\ ctx'.signalled = ctx.signalled /\ EventType' /\ LatchEmpty'
  BY <1>1, <1>3 DEF EventType, LatchEmpty
<1>7. LatchThreads'
  BY <1>1, <1>2, <1>4, AgentFacts, AgentsDiffer DEF LatchThreads, Moves
<1>8. LatchLocals'
  BY <1>1, <1>3, <1>4 DEF LatchLocals, Moves
<1>9. LatchOnePlace'
  <2>1. \A p \in Ops : at'[Starter(p)] = "nested" <=> at[Starter(p)] = "nested"
    BY <1>2, <1>4, AgentFacts, AgentsDiffer DEF Moves
  <2>2. \A p \in Ops : op'[p].life = op[p].life
    BY <1>3
  <2> QED BY <1>1, <1>3, <1>4, <1>6, <2>1, <2>2, LatchSame
<1> QED BY <1>5, <1>6, <1>7, <1>8, <1>9 DEF LatchInv

LEMMA LatchReset ==
  ASSUME SharedInv, LatchInv, NEW o \in Ops, Events!reset(o)
  PROVE  SharedInv' /\ LatchInv'
<1> DEFINE a == Caller(o)
<1>1. SharedType /\ EventType /\ LatchEmpty
  BY DEF SharedInv, LatchInv
<1>2. /\ at[a] = "none" /\ Goto(a, "returned") /\ op' = op /\ which' = which /\ local' = local
      /\ ctx' = [ctx EXCEPT !.signalled = FALSE]
  BY DEF Events!reset, Events!Goto, Goto, Caller
<1>3. a \in Agents /\ a = Caller(a[1])
  BY AgentFacts, AgentOf
<1>4. SharedInv'
  BY <1>1, <1>2, <1>3, GotoShared DEF SharedType, SameStage, Pcs
<1>5. ctx'.waiters = ctx.waiters /\ EventType' /\ LatchEmpty'
  BY <1>1, <1>2 DEF EventType, LatchEmpty
<1>6. LatchInv'
  BY <1>2, <1>3, <1>5, LatchGoto
<1> QED BY <1>4, <1>6

(* The completion of a waiter.                                             *)
LEMMA LatchTryComplete ==
  ASSUME SharedInv, LatchInv, NEW a \in Agents, try_complete(a)
  PROVE  SharedInv' /\ LatchInv'
<1>1. SharedType /\ HandsInv /\ LifeInv /\ EventType /\ LatchThreads /\ LatchLocals /\ LatchOnePlace /\ LatchEmpty
  BY DEF SharedInv, LatchInv
<1>2. PICK w \in Ops : TryCompleted(a, w)
  BY TryCompleteStep
<1>3. at[a] = "try" /\ ctx' = ctx /\ local' = local /\ Goto(a, "cleanup") /\ \A p \in Ops : op'[p].life = op[p].life
  BY <1>2 DEF TryCompleted
<1>4. Moves(a, "cleanup") /\ won' = won /\ \A p \in Ops : Held(p)' <=> Held(p)
  BY <1>1, <1>3, GotoMoves
<1>5. SharedInv' /\ EventType' /\ LatchEmpty'
  BY <1>1, <1>3, TryCompleteShared DEF EventType, LatchEmpty
<1>6. LatchThreads'
  BY <1>1, <1>3, <1>4, AgentFacts, AgentsDiffer DEF LatchThreads, Moves
<1>7. LatchLocals'
  BY <1>1, <1>3, <1>4 DEF LatchLocals, Moves
<1>8. LatchOnePlace'
  <2>1. \A p \in Ops : at'[Starter(p)] = "nested" <=> at[Starter(p)] = "nested"
    BY <1>3, <1>4, AgentFacts DEF Moves
  <2> QED BY <1>1, <1>3, <1>4, <2>1, LatchSame
<1> QED BY <1>5, <1>6, <1>7, <1>8 DEF LatchInv

LEMMA LatchCleanup ==
  ASSUME SharedInv, LatchInv, NEW a \in Agents, cleanup_(a)
  PROVE  SharedInv' /\ LatchInv'
<1>1. SharedType /\ HandsInv /\ LifeInv /\ EventType /\ LatchThreads /\ LatchLocals /\ LatchOnePlace /\ LatchEmpty
  BY DEF SharedInv, LatchInv
<1>2. PICK w \in Ops : CleanedUp(a, w)
  BY CleanupStep
<1>3. at[a] = "cleanup" /\ ctx' = ctx /\ local' = local /\ Held(w)
  BY <1>2 DEF CleanedUp, Held
<1>4. /\ Moves(a, won[a]) /\ \A b \in Agents : won'[b] = IF b = a THEN "none" ELSE won[b]
      /\ \A p \in Ops : Held(p)' <=> p # w /\ Held(p)
      /\ \A p \in Ops : op'[p].life = IF p = w THEN "hopping" ELSE op[p].life
  BY <1>2 DEF CleanedUp
<1>5. /\ a = Starter(a[1]) => won[a] \in {"mark", "returned"}
      /\ a = Stopper(a[1]) => won[a] = "return"
      /\ a = Caller(a[1]) => won[a] = "wake"
  BY <1>1, <1>3, AgentFacts DEF LatchThreads
<1>6. won[a] \in {"mark", "return", "returned", "wake"}
  BY <1>5, AgentFacts
<1>7. SharedInv' /\ EventType' /\ LatchEmpty'
  BY <1>1, <1>3, <1>6, CleanupShared DEF EventType, LatchEmpty
<1>8. LatchThreads'
  BY <1>1, <1>4, <1>5, <1>6, AgentFacts, AgentsDiffer DEF LatchThreads, Moves
<1>9. LatchLocals'
  BY <1>1, <1>3, <1>4 DEF LatchLocals, Moves
<1>10. LatchOnePlace'
  <2>1. \A p \in Ops : at'[Starter(p)] = "nested" <=> at[Starter(p)] = "nested"
    BY <1>3, <1>4, <1>6, AgentFacts DEF Moves
  <2>2. ~InList(ctx.waiters, w) /\ ~Taken(w) /\ at[Starter(w)] # "nested" /\ op[w].life = "started"
    BY <1>1, <1>3 DEF LatchOnePlace
  <2>3. \A b \in Agents, p \in Ops : TakenBy(b, p)' <=> TakenBy(b, p)
    BY <1>3 DEF TakenBy
  <2>4. \A p \in Ops : Taken(p)' <=> Taken(p)
    BY <2>3 DEF Taken
  <2> QED BY <1>1, <1>3, <1>4, <2>1, <2>2, <2>3, <2>4 DEF LatchOnePlace
<1> QED BY <1>7, <1>8, <1>9, <1>10 DEF LatchInv

LEMMA LatchForward ==
  ASSUME SharedInv, LatchInv, V2, NEW o \in Ops, forward_set_value(o)
  PROVE  SharedInv' /\ LatchInv'
<1>1. SharedType /\ HandsInv /\ LifeInv /\ EventType /\ LatchThreads /\ LatchLocals /\ LatchOnePlace /\ LatchEmpty
  BY DEF SharedInv, LatchInv
<1>2. Forwarded(o)
  BY ForwardStep
<1>3. SharedInv' /\ \A p \in Ops : Held(p)' <=> Held(p)
  BY <1>2, ForwardShared DEF V2, AutoReset
<1>4. at' = at /\ won' = won /\ ctx' = ctx /\ local' = local /\ op[o].life = "hopping"
  BY <1>2 DEF Forwarded, threads
<1>5. \A p \in Ops : op'[p].life = IF p = o THEN "completed" ELSE op[p].life
  BY <1>2 DEF Forwarded
<1>6. EventType' /\ LatchThreads' /\ LatchLocals' /\ LatchEmpty'
  BY <1>1, <1>4 DEF EventType, LatchThreads, LatchLocals, LatchEmpty
<1>7. LatchOnePlace'
  <2>1. \A b \in Agents, p \in Ops : TakenBy(b, p)' <=> TakenBy(b, p)
    BY <1>4 DEF TakenBy
  <2>2. \A p \in Ops : Taken(p)' <=> Taken(p)
    BY <2>1 DEF Taken
  <2> QED BY <1>1, <1>3, <1>4, <1>5, <2>1, <2>2 DEF LatchOnePlace
<1> QED BY <1>3, <1>6, <1>7 DEF LatchInv

LEMMA LatchCancellation ==
  ASSUME SharedInv, LatchInv, NEW o \in Ops,
         MarkStarted(o) \/ StopCallback(o) \/ CallbackReturns(o) \/ RequestStop(o)
  PROVE  SharedInv' /\ LatchInv'
<1>1. SharedType /\ LifeInv /\ EventType /\ LatchEmpty
  BY DEF SharedInv, LatchInv
<1>2. /\ Starter(o) \in Agents /\ Starter(o) = Starter(Starter(o)[1])
      /\ Stopper(o) \in Agents /\ Stopper(o) = Stopper(Stopper(o)[1])
  BY AgentFacts, AgentOf
<1>3. SharedInv' /\ Cancels
  BY CancellationShared
<1>4. local' = local /\ ctx' = ctx /\ EventType' /\ LatchEmpty' /\ \A p \in Ops : op'[p].life = op[p].life
  BY <1>1, <1>3 DEF Cancels, SameStage, EventType, LatchEmpty
<1>5. CASE MarkStarted(o)
  <2>1. PICK pc \in {"stop", "returned"} : at[Starter(o)] = "mark" /\ Goto(Starter(o), pc)
    BY <1>5, MarkStartedStep
  <2> QED BY <1>2, <1>3, <1>4, <2>1, LatchGoto
<1>6. CASE StopCallback(o)
  <2>1. PICK pc \in {"stop", "return"} : at[Stopper(o)] = "callback" /\ Goto(Stopper(o), pc)
    BY <1>6, StopCallbackStep
  <2> QED BY <1>2, <1>3, <1>4, <2>1, LatchGoto
<1>7. CASE CallbackReturns(o)
  <2>1. at[Stopper(o)] = "return" /\ Goto(Stopper(o), "returned")
    BY <1>7, CallbackReturnsStep
  <2> QED BY <1>2, <1>3, <1>4, <2>1, LatchGoto
<1>8. CASE RequestStop(o)
  <2>1. \/ at[Stopper(o)] = "none" /\ Goto(Stopper(o), "callback")
        \/ UNCHANGED threads
    BY <1>8, RequestStopStep
  <2>2. CASE at[Stopper(o)] = "none" /\ Goto(Stopper(o), "callback")
    BY <1>2, <1>3, <1>4, <2>2, LatchGoto
  <2>3. CASE UNCHANGED threads
    <3>1. at' = at /\ whom' = whom /\ won' = won
      BY <2>3 DEF threads
    <3>2. \A p \in Ops : Held(p)' <=> Held(p)
      BY <3>1 DEF Held, HeldBy
    <3>3. LatchThreads' /\ LatchLocals'
      BY <1>4, <3>1 DEF LatchInv, LatchThreads, LatchLocals
    <3>4. LatchOnePlace'
      BY <1>4, <3>1, <3>2, LatchSame DEF LatchInv
    <3> QED BY <1>3, <1>4, <3>3, <3>4 DEF LatchInv
  <2> QED BY <2>1, <2>2, <2>3
<1> QED BY <1>5, <1>6, <1>7, <1>8

(* The steps every event takes are those of Waiting.                       *)
LEMMA EventsShare ==
  /\ \A a : Events!try_complete(a) => try_complete(a)
  /\ \A a : Events!cleanup_(a) => cleanup_(a)
  /\ \A o : Events!forward_set_value(o) => forward_set_value(o)
  /\ \A o : Events!MarkStarted(o) => MarkStarted(o)
  /\ \A o : Events!StopCallback(o) => StopCallback(o)
  /\ \A o : Events!CallbackReturns(o) => CallbackReturns(o)
  /\ \A o : Events!RequestStop(o) => RequestStop(o)
<1>1. \A a : Events!try_complete(a) => try_complete(a)
  BY DEF Events!try_complete, try_complete, Events!Release, Release, Events!Goto, Goto
<1>2. \A a : Events!cleanup_(a) => cleanup_(a)
  BY DEF Events!cleanup_, cleanup_, Events!Release, Release
<1>3. \A o : Events!forward_set_value(o) => forward_set_value(o)
  BY DEF Events!forward_set_value, forward_set_value, Events!threads, threads,
         Events!Signal, Signal, Events!HopIsStopped, HopIsStopped
<1>4. \A o : Events!MarkStarted(o) => MarkStarted(o)
  BY DEF Events!MarkStarted, MarkStarted, Events!Goto, Goto
<1>5. \A o : Events!StopCallback(o) => StopCallback(o)
  BY DEF Events!StopCallback, StopCallback, Events!Goto, Goto
<1>6. \A o : Events!CallbackReturns(o) => CallbackReturns(o)
  BY DEF Events!CallbackReturns, CallbackReturns, Events!Goto, Goto
<1>7. \A o : Events!RequestStop(o) => RequestStop(o)
  BY DEF Events!RequestStop, RequestStop, Events!Goto, Goto, Events!threads, threads
<1> QED BY <1>1, <1>2, <1>3, <1>4, <1>5, <1>6, <1>7

LEMMA LatchStep ==
  ASSUME SharedInv, LatchInv, V2, Events!Next
  PROVE  SharedInv' /\ LatchInv'
<1>1. V2 /\ which # "async_auto_reset_event" /\ which # "async_manual_reset_event_v1"
  BY DEF V2
<1>2. LatchThreads
  BY DEF LatchInv
<1>3. ASSUME NEW o \in Ops,
             Events!LoadTop(o) \/ Events!PushOrComplete(o) \/ Events!try_reset(o) \/ Events!StartV1(o) \/ Events!next(o)
      PROVE  FALSE
  <2>1. at[Starter(o)] \notin {"load", "push"}
    BY <1>2 DEF LatchThreads
  <2> QED BY <1>1, <1>3, <2>1 DEF Events!LoadTop, Events!PushOrComplete, Events!try_reset, Events!StartV1, Events!next,
                            Events!Auto, Starter
<1>4. ASSUME NEW o \in Ops, Events!auto_set(o) \/ Events!cleanup(o) PROVE FALSE
  BY <1>1, <1>4 DEF Events!auto_set, Events!cleanup, Events!Auto
<1>5. ASSUME NEW a \in Agents, Events!set_done(a) PROVE FALSE
  BY <1>1, <1>5 DEF Events!set_done, Events!Auto
<1>6. ASSUME NEW o \in Ops, Events!StartV2(o) PROVE SharedInv' /\ LatchInv'
  <2>1. Start(o, FALSE)
    BY <1>6 DEF Events!StartV2, Events!Start, Start, Events!NewCallback, NewCallback, Events!Goto, Goto
  <2> QED BY <2>1, LatchStart
<1>7. ASSUME NEW a \in Agents, \/ Events!try_complete(a) \/ Events!cleanup_(a) \/ Events!Wake(a)
                               \/ Events!SetReturns(a) \/ Events!StopV2(a)
      PROVE  SharedInv' /\ LatchInv'
  BY <1>7, EventsShare, LatchTryComplete, LatchCleanup, LatchWake, LatchReturns, LatchStop
<1>8. ASSUME NEW o \in Ops, \/ Events!MarkStarted(o) \/ Events!StopCallback(o) \/ Events!CallbackReturns(o)
                            \/ Events!RequestStop(o) \/ Events!forward_set_value(o)
      PROVE  SharedInv' /\ LatchInv'
  BY <1>8, EventsShare, LatchForward, LatchCancellation
<1>9. ASSUME NEW o \in Ops, Events!set(o) \/ Events!reset(o) \/ Events!PushFront(o)
      PROVE  SharedInv' /\ LatchInv'
  BY <1>9, LatchSet, LatchReset, LatchPushFront
<1> QED BY <1>3, <1>4, <1>5, <1>6, <1>7, <1>8, <1>9
        DEF Events!Next, Events!System, Events!User, Events!Completions, Events!Cancellation, Events!Agents, Agents

-----------------------------------------------------------------------------
(* v1::async_manual_reset_event and async_auto_reset_event: steps that     *)
(* leave every waiter where it is.                                         *)
LEMMA StackParts ==
  ASSUME SharedInv, StackInv
  PROVE  /\ SharedType /\ HandsInv /\ LifeInv /\ EventType /\ StackThreads /\ StackLocals /\ StackOnePlace
         /\ LatchEmpty /\ (AutoReset => AutoInv) /\ (~AutoReset => ManualInv)
BY DEF SharedInv, StackInv

LEMMA StackFree ==
  ASSUME SharedInv, StackInv
  PROVE  /\ \A a \in Agents : at[a] \notin {"try", "cleanup"} /\ whom[a] = <<>>
         /\ \A p \in Ops : ~Held(p)
<1>1. \A a \in Agents : at[a] \notin {"try", "cleanup"}
  BY StackParts, AgentFacts DEF StackThreads
<1>2. \A a \in Agents : whom[a] = <<>>
  BY <1>1, StackParts DEF HandsInv
<1> QED BY <1>1, <1>2, WhomFacts DEF Held, HeldBy

LEMMA StackSame ==
  ASSUME StackOnePlace, ctx'.waiters = ctx.waiters,
         \A b \in Agents, p \in Ops : WokenBy(b, p)' <=> WokenBy(b, p),
         \A p \in Ops : op'[p].life = op[p].life,
         \A p \in Ops : StackStarting(p)' <=> StackStarting(p)
  PROVE  StackOnePlace'
<1>1. \A p \in Ops : Woken(p)' <=> Woken(p)
  BY DEF Woken
<1> QED BY <1>1 DEF StackOnePlace

LEMMA StackGoto ==
  ASSUME SharedInv, StackInv, NEW a \in Agents, NEW pc, Goto(a, pc), at[a] \in {"none", "callback", "return"},
         \/ a = Stopper(a[1]) /\ pc \in {"callback", "return", "returned"}
         \/ a = Caller(a[1]) /\ pc \in {"set_done", "returned"},
         which' = which, local' = local, ctx'.waiters = ctx.waiters, EventType', LatchEmpty',
         AutoReset => ctx' = ctx,
         \A p \in Ops : op'[p].life = op[p].life,
         ~AutoReset => op' = op
  PROVE  StackInv'
<1>1. /\ SharedType /\ EventType /\ StackThreads /\ StackLocals /\ StackOnePlace
      /\ (AutoReset => AutoInv) /\ (~AutoReset => ManualInv)
  BY StackParts
<1>2. Moves(a, pc) /\ won' = won
  BY <1>1, GotoMoves
<1>3. \A p \in Ops : at'[Starter(p)] = at[Starter(p)]
  BY <1>2, AgentFacts, AgentsDiffer DEF Moves
<1>4. pc \notin {"wake", "push"} /\ at[a] \notin {"wake", "push"}
  OBVIOUS
<1>5. StackThreads'
  BY <1>1, <1>2, AgentFacts, AgentsDiffer DEF StackThreads, Moves
<1>6. StackLocals'
  BY <1>1, <1>2, <1>4 DEF StackLocals, Moves
<1>7. StackOnePlace'
  <2>1. \A b \in Agents, p \in Ops : WokenBy(b, p)' <=> WokenBy(b, p)
    BY <1>2, <1>4 DEF WokenBy, Moves
  <2>2. \A p \in Ops : StackStarting(p)' <=> StackStarting(p)
    BY <1>3 DEF StackStarting
  <2> QED BY <1>1, <2>1, <2>2, StackSame
<1>8. AutoReset' = AutoReset
  BY DEF AutoReset
<1>9. AutoReset' => AutoInv'
  <2> SUFFICES ASSUME AutoReset PROVE AutoInv'
    BY <1>8
  <2>1. AutoInv /\ ctx' = ctx
    BY <1>1
  <2>2. \A b \in Agents : at'[b] = "wake" => at[b] = "wake"
    BY <1>2, <1>4 DEF Moves
  <2>3. \A p \in Ops : Active(p)' <=> Active(p)
    BY DEF Active
  <2> QED BY <1>3, <2>1, <2>2, <2>3 DEF AutoInv
<1>10. ~AutoReset' => ManualInv'
  BY <1>1, <1>3, <1>8 DEF ManualInv
<1> QED BY <1>5, <1>6, <1>7, <1>9, <1>10 DEF StackInv

(* start() and next().                                                     *)
LEMMA StackBegins ==
  ASSUME SharedInv, StackInv, NEW o \in Ops, NEW pc \in {"load", "set_done"}, Begun(o, pc),
         UNCHANGED <<which, ctx, local>>,
         AutoReset => \A p \in Ops : op[p].life \in {"idle", "completed"},
         ~AutoReset => pc = "load" /\ op'[o].cb = "none"
  PROVE  SharedInv' /\ StackInv'
<1> DEFINE a == Starter(o)
<1>1. /\ SharedType /\ LifeInv /\ EventType /\ StackThreads /\ StackLocals /\ StackOnePlace /\ LatchEmpty
      /\ (AutoReset => AutoInv) /\ (~AutoReset => ManualInv)
  BY StackParts
<1>2. a \in Agents /\ Goto(a, pc) /\ op[o].life = "idle" /\ at[a] = "none"
  BY <1>1, AgentFacts DEF Begun, LifeInv
<1>3. Moves(a, pc) /\ won' = won
  BY <1>1, <1>2, GotoMoves
<1>4. \A p \in Ops : op'[p].life = IF p = o THEN "started" ELSE op[p].life
  BY DEF Begun
<1>5. SharedInv'
  BY StartShared DEF Pcs
<1>6. EventType' /\ LatchEmpty'
  BY <1>1 DEF EventType, LatchEmpty
<1>7. StackThreads'
  BY <1>1, <1>2, <1>3, AgentFacts, AgentsDiffer DEF StackThreads, Moves
<1>8. StackLocals'
  BY <1>1, <1>2, <1>3 DEF StackLocals, Moves
<1>9. \A p \in Ops : p # o => at'[Starter(p)] = at[Starter(p)]
  BY <1>2, <1>3, AgentFacts, AgentsDiffer DEF Moves
<1>10. at'[a] = pc
  BY <1>2, <1>3 DEF Moves
<1>11. StackOnePlace'
  <2>1. \A b \in Agents, p \in Ops : WokenBy(b, p)' <=> WokenBy(b, p)
    BY <1>2, <1>3 DEF WokenBy, Moves
  <2>2. \A p \in Ops : Woken(p)' <=> Woken(p)
    BY <2>1 DEF Woken
  <2>3. \A p \in Ops : StackStarting(p)' <=> p = o \/ StackStarting(p)
    BY <1>2, <1>9, <1>10 DEF StackStarting
  <2> QED BY <1>1, <1>2, <1>4, <2>1, <2>2, <2>3 DEF StackOnePlace
<1>12. AutoReset' = AutoReset
  BY DEF AutoReset
<1>13. AutoReset' => AutoInv'
  <2> SUFFICES ASSUME AutoReset PROVE AutoInv'
    BY <1>12
  <2>1. AutoInv /\ ctx' = ctx /\ local' = local
    BY <1>1
  <2>2. \A b \in Agents : at'[b] = "wake" => at[b] = "wake"
    BY <1>3 DEF Moves
  <2>3. \A p \in Ops : Active(p)' <=> p = o
    BY <1>4 DEF Active
  <2>4. \A p \in Ops : at'[Starter(p)] = "push" => at[Starter(p)] = "push"
    BY <1>9, <1>10
  <2>5. \A p \in Ops : op'[p].life = "hopping" => op[p].life = "hopping"
    BY <1>4
  <2> QED BY <2>1, <2>2, <2>3, <2>4, <2>5 DEF AutoInv
<1>14. ~AutoReset' => ManualInv'
  <2>1. \A p \in Ops : p # o => op'[p].cb = op[p].cb
    BY DEF Begun
  <2> QED BY <1>1, <1>9, <1>10, <1>12, <2>1 DEF ManualInv
<1> QED BY <1>5, <1>6, <1>7, <1>8, <1>11, <1>13, <1>14 DEF StackInv

(* The top of the stack, as a thread in start() reads it.                  *)
LEMMA TopFacts ==
  ASSUME EventType
  PROVE  Events!Top \in Tops /\ (Events!Top = <<"signalled">> <=> ctx.signalled)
<1>1. ctx.signalled \in BOOLEAN /\ ctx.waiters \in Seq(Ops)
  BY DEF EventType
<1>2. CASE ctx.signalled
  BY <1>2 DEF Events!Top, Tops
<1>3. CASE ~ctx.signalled /\ ctx.waiters = <<>>
  <2>1. Events!Top = <<>>
    BY <1>3 DEF Events!Top
  <2>2. <<>> # <<"signalled">>
    OBVIOUS
  <2> QED BY <1>3, <2>1, <2>2 DEF Tops
<1>4. CASE ~ctx.signalled /\ ctx.waiters # <<>>
  <2>1. Head(ctx.waiters) \in Ops
    BY <1>1, <1>4, TailFacts
  <2>2. Events!Top = <<"op", Head(ctx.waiters)>>
    BY <1>4 DEF Events!Top
  <2>3. \A x : <<"op", x>> # <<"signalled">>
    OBVIOUS
  <2> QED BY <1>4, <2>1, <2>2, <2>3 DEF Tops
<1> QED BY <1>1, <1>2, <1>3, <1>4

LEMMA StackReads ==
  ASSUME SharedInv, StackInv, NEW o \in Ops, at[Starter(o)] \in {"load", "push"}, Goto(Starter(o), "push"),
         local' = [local EXCEPT ![Starter(o)] = Events!Top], UNCHANGED <<which, op, ctx>>
  PROVE  SharedInv' /\ StackInv'
<1> DEFINE a == Starter(o)
<1>1. /\ SharedType /\ LifeInv /\ EventType /\ StackThreads /\ StackLocals /\ StackOnePlace /\ LatchEmpty
      /\ (AutoReset => AutoInv) /\ (~AutoReset => ManualInv)
  BY StackParts
<1>2. a \in Agents /\ a[1] = o /\ op[o].life # "idle"
  BY <1>1, AgentFacts, AgentOf DEF LifeInv
<1>3. Moves(a, "push") /\ won' = won
  BY <1>1, <1>2, GotoMoves
<1>4. \A b \in Agents : local'[b] = IF b = a THEN Events!Top ELSE local[b]
  BY <1>1 DEF StackLocals
<1>5. Events!Top \in Tops /\ (Events!Top = <<"signalled">> <=> ctx.signalled)
  BY <1>1, TopFacts
<1>6. SharedInv'
  <2>1. op' \in [Ops -> Operation] /\ SameStage
    BY <1>1 DEF SharedType, SameStage
  <2> QED BY <1>2, <2>1, GotoShared DEF Pcs
<1>7. EventType' /\ LatchEmpty'
  BY <1>1 DEF EventType, LatchEmpty
<1>8. StackThreads'
  BY <1>1, <1>2, <1>3, AgentFacts, AgentsDiffer DEF StackThreads, Moves
<1>9. StackLocals'
  <2>1. local' \in [Agents -> Seq(Ops) \cup Tops]
    BY <1>1, <1>5 DEF StackLocals
  <2> QED BY <1>1, <1>2, <1>3, <1>4, <1>5, <2>1 DEF StackLocals, Moves
<1>10. StackOnePlace'
  <2>1. \A b \in Agents, p \in Ops : WokenBy(b, p)' <=> WokenBy(b, p)
    BY <1>2, <1>3, <1>4 DEF WokenBy, Moves
  <2>2. \A p \in Ops : StackStarting(p)' <=> StackStarting(p)
    BY <1>2, <1>3, AgentFacts, AgentsDiffer DEF StackStarting, Moves
  <2> QED BY <1>1, <2>1, <2>2, StackSame
<1>11. AutoReset' = AutoReset
  BY DEF AutoReset
<1>12. AutoReset' => AutoInv'
  <2> SUFFICES ASSUME AutoReset PROVE AutoInv'
    BY <1>11
  <2>1. AutoInv /\ ctx' = ctx /\ op' = op
    BY <1>1
  <2>2. \A b \in Agents : at'[b] = "wake" => at[b] = "wake"
    BY <1>3 DEF Moves
  <2>3. \A p \in Ops : Active(p)' <=> Active(p)
    BY DEF Active
  <2>4. \A p \in Ops : p # o => at'[Starter(p)] = at[Starter(p)] /\ local'[Starter(p)] = local[Starter(p)]
    BY <1>3, <1>4, AgentFacts, AgentsDiffer DEF Moves
  <2>5. local'[a] = <<"signalled">> => ctx.signalled
    BY <1>2, <1>4, <1>5
  <2> QED BY <2>1, <2>2, <2>3, <2>4, <2>5 DEF AutoInv
<1>13. ~AutoReset' => ManualInv'
  BY <1>1, <1>2, <1>3, <1>11, AgentFacts, AgentsDiffer DEF ManualInv, Moves
<1> QED BY <1>6, <1>7, <1>8, <1>9, <1>10, <1>12, <1>13 DEF StackInv

(* A waiter is sent to its receiver's scheduler, by its own start() or by  *)
(* the thread that wakes it.                                               *)
Hopped(o) ==
  /\ op' \in [Ops -> Operation]
  /\ \A p \in Ops : /\ op'[p].life = IF p = o THEN "hopping" ELSE op[p].life
                    /\ op'[p].signals = op[p].signals /\ op'[p].cb = op[p].cb /\ op'[p].bits = op[p].bits
LEMMA HopStep ==
  ASSUME SharedType, NEW o \in Ops, op' = [op EXCEPT ![o].life = "hopping"]
  PROVE  Hopped(o)
<1>1. op[o] \in Operation
  BY DEF SharedType
<1>2. [op[o] EXCEPT !.life = "hopping"] \in Operation
  BY <1>1 DEF Operation
<1>3. op' \in [Ops -> Operation]
  BY <1>2 DEF SharedType
<1>4. \A p \in Ops : /\ op'[p].life = IF p = o THEN "hopping" ELSE op[p].life
                     /\ op'[p].signals = op[p].signals /\ op'[p].cb = op[p].cb /\ op'[p].bits = op[p].bits
  <2> TAKE p \in Ops
  <2>1. op'[p] = IF p = o THEN [op[o] EXCEPT !.life = "hopping"] ELSE op[p]
    BY DEF SharedType
  <2> QED BY <1>1, <2>1 DEF Operation
<1> QED BY <1>3, <1>4 DEF Hopped

LEMMA HopShared ==
  ASSUME SharedInv, StackInv, NEW o \in Ops, Hopped(o), op[o].life = "started",
         which' = which, UNCHANGED <<whom, won, lost>>, at' \in [Agents -> Pcs],
         \A b \in Agents : at'[b] \notin {"try", "cleanup"} /\ (b # Starter(o) => at'[b] = at[b])
  PROVE  SharedInv'
<1>1. SharedType /\ HandsInv /\ LifeInv /\ (~AutoReset => ManualInv)
  BY StackParts
<1>2. \A a \in Agents : at[a] \notin {"try", "cleanup"} /\ whom[a] = <<>>
  BY StackFree
<1>3. \A p \in Ops : ~Held(p)'
  BY <1>2, WhomFacts DEF Held, HeldBy
<1>4. SharedType'
  BY <1>1 DEF SharedType, Hopped
<1>5. HandsInv'
  BY <1>2, <1>3 DEF HandsInv, Held
<1>6. LifeInv'
  <2>1. AutoReset' = AutoReset
    BY DEF AutoReset
  <2>2. \A p \in Ops : at'[Stopper(p)] = at[Stopper(p)] /\ (p # o => at'[Starter(p)] = at[Starter(p)])
    BY AgentFacts, AgentsDiffer
  <2>3. \A p \in Ops : "completed" \in op[p].bits => op[p].life \in {"hopping", "completed"}
    BY <1>1, <1>2 DEF LifeInv
  <2>4. ~AutoReset => op[o].cb = "none"
    BY <1>1 DEF ManualInv
  <2> QED BY <1>1, <2>1, <2>2, <2>3, <2>4 DEF LifeInv, Hopped
<1> QED BY <1>4, <1>5, <1>6 DEF SharedInv

(* start() finds the event signalled.                                      *)
LEMMA StackFound ==
  ASSUME SharedInv, StackInv, NEW o \in Ops, at[Starter(o)] = "push", local[Starter(o)] = <<"signalled">>,
         op' = [op EXCEPT ![o].life = "hopping"], local' = [local EXCEPT ![Starter(o)] = <<>>],
         Goto(Starter(o), "returned"), UNCHANGED <<which, ctx>>
  PROVE  SharedInv' /\ StackInv'
<1> DEFINE a == Starter(o)
<1>1. /\ SharedType /\ LifeInv /\ EventType /\ StackThreads /\ StackLocals /\ StackOnePlace /\ LatchEmpty
      /\ (AutoReset => AutoInv) /\ (~AutoReset => ManualInv)
  BY StackParts
<1>2. a \in Agents /\ a[1] = o /\ StackStarting(o)
  BY AgentFacts, AgentOf DEF StackStarting
<1>3. op[o].life = "started" /\ ~Woken(o) /\ ~InList(ctx.waiters, o)
  BY <1>1, <1>2 DEF StackOnePlace
<1>4. Moves(a, "returned") /\ won' = won
  BY <1>1, <1>2, GotoMoves
<1>5. Hopped(o)
  BY <1>1, HopStep
<1>6. SharedInv'
  <2>1. at' \in [Agents -> Pcs]
    BY <1>1 DEF SharedType, Goto, Pcs
  <2>2. \A b \in Agents : at'[b] \notin {"try", "cleanup"} /\ (b # Starter(o) => at'[b] = at[b])
    BY <1>4, StackFree DEF Moves
  <2> QED BY <1>3, <1>5, <2>1, <2>2, HopShared DEF Goto
<1>7. \A b \in Agents : local'[b] = IF b = a THEN <<>> ELSE local[b]
  BY <1>1 DEF StackLocals
<1>8. EventType' /\ LatchEmpty'
  BY <1>1 DEF EventType, LatchEmpty
<1>9. StackThreads'
  BY <1>1, <1>2, <1>4, AgentFacts, AgentsDiffer DEF StackThreads, Moves
<1>10. StackLocals'
  <2>1. local' \in [Agents -> Seq(Ops) \cup Tops]
    BY <1>1 DEF StackLocals, Tops
  <2> QED BY <1>1, <1>4, <1>7, <2>1 DEF StackLocals, Moves
<1>11. \A p \in Ops : p # o => at'[Starter(p)] = at[Starter(p)] /\ local'[Starter(p)] = local[Starter(p)]
  BY <1>4, <1>7, AgentFacts, AgentsDiffer DEF Moves
<1>12. at'[a] = "returned"
  BY <1>2, <1>4 DEF Moves
<1>13. \A p \in Ops : op'[p].life = IF p = o THEN "hopping" ELSE op[p].life
  BY <1>5 DEF Hopped
<1>14. StackOnePlace'
  <2>1. \A b \in Agents, p \in Ops : WokenBy(b, p)' <=> WokenBy(b, p)
    BY <1>2, <1>4, <1>7 DEF WokenBy, Moves
  <2>2. \A p \in Ops : Woken(p)' <=> Woken(p)
    BY <2>1 DEF Woken
  <2>3. \A p \in Ops : StackStarting(p)' <=> p # o /\ StackStarting(p)
    BY <1>11, <1>12 DEF StackStarting
  <2>4. ctx' = ctx
    OBVIOUS
  <2> QED BY <1>1, <1>2, <1>3, <1>13, <2>1, <2>2, <2>3, <2>4 DEF StackOnePlace
<1>15. AutoReset' = AutoReset
  BY DEF AutoReset
<1>16. AutoReset' => AutoInv'
  <2> SUFFICES ASSUME AutoReset PROVE AutoInv'
    BY <1>15
  <2>1. AutoInv /\ ctx' = ctx /\ ctx.signalled
    BY <1>1 DEF AutoInv
  <2>2. \A b \in Agents : at'[b] = "wake" => at[b] = "wake"
    BY <1>4 DEF Moves
  <2>3. \A p \in Ops : Active(p)' <=> Active(p)
    BY <1>3, <1>13 DEF Active
  <2>4. \A p \in Ops : at'[Starter(p)] = "push" /\ local'[Starter(p)] = <<"signalled">> => ctx'.signalled
    BY <2>1
  <2>5. \A p \in Ops : op'[p].life = "hopping" => ctx'.signalled
    BY <2>1
  <2> QED BY <2>1, <2>2, <2>3, <2>4, <2>5 DEF AutoInv
<1>17. ~AutoReset' => ManualInv'
  BY <1>1, <1>5, <1>11, <1>12, <1>15 DEF ManualInv, Hopped
<1> QED BY <1>6, <1>8, <1>9, <1>10, <1>14, <1>16, <1>17 DEF StackInv

(* start() pushes itself.                                                  *)
LEMMA StackPushes ==
  ASSUME SharedInv, StackInv, NEW o \in Ops, at[Starter(o)] = "push", ~ctx.signalled,
         ctx' = [ctx EXCEPT !.waiters = <<o>> \o @], local' = [local EXCEPT ![Starter(o)] = <<>>],
         Goto(Starter(o), "returned"), UNCHANGED <<which, op>>
  PROVE  SharedInv' /\ StackInv'
<1> DEFINE a == Starter(o)
<1>1. /\ SharedType /\ LifeInv /\ EventType /\ StackThreads /\ StackLocals /\ StackOnePlace /\ LatchEmpty
      /\ (AutoReset => AutoInv) /\ (~AutoReset => ManualInv)
  BY StackParts
<1>2. a \in Agents /\ a[1] = o /\ StackStarting(o)
  BY AgentFacts, AgentOf DEF StackStarting
<1>3. op[o].life = "started" /\ ~Woken(o) /\ ~InList(ctx.waiters, o)
  BY <1>1, <1>2 DEF StackOnePlace
<1>4. Moves(a, "returned") /\ won' = won
  BY <1>1, <1>2, GotoMoves
<1>5. SharedInv'
  <2>1. op' \in [Ops -> Operation] /\ SameStage
    BY <1>1 DEF SharedType, SameStage
  <2> QED BY <1>2, <1>3, <2>1, GotoShared DEF Pcs
<1>6. ctx.waiters \in Seq(Ops) /\ Once(ctx.waiters)
  BY <1>1 DEF EventType, StackOnePlace
<1>7. /\ ctx'.waiters = <<o>> \o ctx.waiters /\ ctx'.signalled = ctx.signalled /\ ctx'.waiters \in Seq(Ops)
      /\ ctx'.state_ = ctx.state_ /\ ctx'.mutex_ = ctx.mutex_
      /\ Once(ctx'.waiters) /\ \A p \in Ops : InList(ctx'.waiters, p) <=> p = o \/ InList(ctx.waiters, p)
  BY <1>1, <1>3, <1>6, PrependFacts DEF EventType
<1>8. EventType' /\ LatchEmpty'
  BY <1>1, <1>7 DEF EventType, LatchEmpty
<1>9. \A b \in Agents : local'[b] = IF b = a THEN <<>> ELSE local[b]
  BY <1>1 DEF StackLocals
<1>10. StackThreads'
  BY <1>1, <1>2, <1>4, AgentFacts, AgentsDiffer DEF StackThreads, Moves
<1>11. StackLocals'
  <2>1. local' \in [Agents -> Seq(Ops) \cup Tops]
    BY <1>1 DEF StackLocals, Tops
  <2> QED BY <1>1, <1>4, <1>9, <2>1 DEF StackLocals, Moves
<1>12. \A p \in Ops : p # o => at'[Starter(p)] = at[Starter(p)] /\ local'[Starter(p)] = local[Starter(p)]
  BY <1>4, <1>9, AgentFacts, AgentsDiffer DEF Moves
<1>13. at'[a] = "returned" /\ op' = op
  BY <1>2, <1>4 DEF Moves
<1>14. StackOnePlace'
  <2>1. \A b \in Agents, p \in Ops : WokenBy(b, p)' <=> WokenBy(b, p)
    BY <1>2, <1>4, <1>9 DEF WokenBy, Moves
  <2>2. \A p \in Ops : Woken(p)' <=> Woken(p)
    BY <2>1 DEF Woken
  <2>3. \A p \in Ops : StackStarting(p)' <=> p # o /\ StackStarting(p)
    BY <1>12, <1>13 DEF StackStarting
  <2> QED BY <1>1, <1>2, <1>3, <1>7, <1>13, <2>1, <2>2, <2>3 DEF StackOnePlace
<1>15. AutoReset' = AutoReset
  BY DEF AutoReset
<1>16. AutoReset' => AutoInv'
  <2> SUFFICES ASSUME AutoReset PROVE AutoInv'
    BY <1>15
  <2>1. AutoInv
    BY <1>1
  <2>2. \A b \in Agents : at'[b] = "wake" => at[b] = "wake"
    BY <1>4 DEF Moves
  <2>3. \A p \in Ops : Active(p)' <=> Active(p)
    BY DEF Active
  <2> QED BY <1>7, <1>12, <1>13, <2>1, <2>2, <2>3 DEF AutoInv
<1>17. ~AutoReset' => ManualInv'
  BY <1>1, <1>12, <1>13, <1>15 DEF ManualInv
<1> QED BY <1>5, <1>8, <1>10, <1>11, <1>14, <1>16, <1>17 DEF StackInv

LEMMA StackPushOrComplete ==
  ASSUME SharedInv, StackInv, NEW o \in Ops, Events!PushOrComplete(o)
  PROVE  SharedInv' /\ StackInv'
<1> DEFINE a == Starter(o)
<1>1. at[a] = "push" /\ which' = which
  BY DEF Events!PushOrComplete, Starter
<1>2. \/ /\ local[a] = <<"signalled">> /\ op' = [op EXCEPT ![o].life = "hopping"]
         /\ local' = [local EXCEPT ![a] = <<>>] /\ Goto(a, "returned") /\ UNCHANGED ctx
      \/ local' = [local EXCEPT ![a] = Events!Top] /\ UNCHANGED <<op, ctx, threads>>
      \/ /\ local[a] # <<"signalled">> /\ local[a] = Events!Top
         /\ ctx' = [ctx EXCEPT !.waiters = <<o>> \o @]
         /\ local' = [local EXCEPT ![a] = <<>>] /\ Goto(a, "returned") /\ UNCHANGED op
  BY DEF Events!PushOrComplete, Starter, Events!Goto, Goto, Events!threads, threads
<1>3. CASE /\ local[a] = <<"signalled">> /\ op' = [op EXCEPT ![o].life = "hopping"]
           /\ local' = [local EXCEPT ![a] = <<>>] /\ Goto(a, "returned") /\ UNCHANGED ctx
  BY <1>1, <1>3, StackFound
<1>4. CASE local' = [local EXCEPT ![a] = Events!Top] /\ UNCHANGED <<op, ctx, threads>>
  <2>1. at \in [Agents -> Pcs]
    BY StackParts DEF SharedType
  <2>2. Goto(a, "push")
    BY <1>1, <1>4, <2>1 DEF Goto, threads
  <2> QED BY <1>1, <1>4, <2>2, StackReads
<1>5. CASE /\ local[a] # <<"signalled">> /\ local[a] = Events!Top
           /\ ctx' = [ctx EXCEPT !.waiters = <<o>> \o @]
           /\ local' = [local EXCEPT ![a] = <<>>] /\ Goto(a, "returned") /\ UNCHANGED op
  <2>1. ~ctx.signalled
    BY <1>5, TopFacts, StackParts
  <2> QED BY <1>1, <1>5, <2>1, StackPushes
<1> QED BY <1>2, <1>3, <1>4, <1>5

(* set() and set_done() take all waiters at once.                          *)
LEMMA StackSignals ==
  ASSUME SharedInv, StackInv, NEW a \in Agents, NEW state \in {"UNSET", "SET", "DONE"},
         NEW owner \in {<<>>} \cup {<<b>> : b \in Agents},
         Events!Signalled(a, state, owner), UNCHANGED <<which, op>>,
         \/ a = Starter(a[1]) /\ at[a] = "set_done"
         \/ a = Stopper(a[1]) /\ at[a] = "callback"
         \/ a = Caller(a[1]) /\ at[a] \in {"none", "set_done"},
         AutoReset => ctx.mutex_ = <<>> /\ owner = <<a>> /\ state # "UNSET"
  PROVE  SharedInv' /\ StackInv'
<1>1. /\ SharedType /\ LifeInv /\ EventType /\ StackThreads /\ StackLocals /\ StackOnePlace /\ LatchEmpty
      /\ (AutoReset => AutoInv) /\ (~AutoReset => ManualInv)
  BY StackParts
<1>2. /\ Goto(a, "wake") /\ local' = [local EXCEPT ![a] = ctx.waiters]
      /\ ctx' = [ctx EXCEPT !.signalled = TRUE, !.waiters = <<>>, !.state_ = state, !.mutex_ = owner]
  BY DEF Events!Signalled, Events!Goto, Goto
<1>3. /\ ctx'.waiters = <<>> /\ ctx'.signalled = TRUE /\ ctx'.state_ = state /\ ctx'.mutex_ = owner
      /\ EventType' /\ LatchEmpty'
  BY <1>1, <1>2, SignalledFacts
<1>4. Moves(a, "wake") /\ won' = won
  BY <1>1, <1>2, GotoMoves
<1>5. SharedInv'
  <2>1. op' \in [Ops -> Operation] /\ SameStage
    BY <1>1 DEF SharedType, SameStage
  <2>2. a = Caller(a[1]) \/ op[a[1]].life # "idle"
    BY <1>1, AgentFacts DEF LifeInv
  <2> QED BY <1>2, <2>1, <2>2, GotoShared DEF Pcs
<1>6. /\ ctx.waiters \in Seq(Ops) /\ Once(ctx.waiters) /\ local[a] = <<>> /\ at[a] \notin {"wake", "push"}
      /\ \A b \in Agents : local'[b] = IF b = a THEN ctx.waiters ELSE local[b]
  BY <1>1, <1>2 DEF EventType, StackOnePlace, StackLocals
<1>7. StackThreads'
  BY <1>1, <1>4, AgentFacts, AgentsDiffer DEF StackThreads, Moves
<1>8. StackLocals'
  <2>1. local' \in [Agents -> Seq(Ops) \cup Tops]
    BY <1>1, <1>2, <1>6 DEF StackLocals
  <2> QED BY <1>1, <1>4, <1>6, <2>1 DEF StackLocals, Moves
<1>9. \A p \in Ops : Starter(p) # a => at'[Starter(p)] = at[Starter(p)]
  BY <1>4, AgentFacts DEF Moves
<1>10. \A p \in Ops : Starter(p) = a => at'[Starter(p)] = "wake" /\ at[Starter(p)] = "set_done"
  BY <1>4, AgentFacts, AgentsDiffer DEF Moves
<1>11. StackOnePlace'
  <2>1. \A p \in Ops : ~InList(<<>>, p)
    BY DEF InList
  <2>2. Once(<<>>)
    BY DEF Once
  <2>3. \A b \in Agents, p \in Ops : WokenBy(b, p)' <=> IF b = a THEN InList(ctx.waiters, p) ELSE WokenBy(b, p)
    BY <1>4, <1>6 DEF WokenBy, Moves
  <2>4. \A p \in Ops : ~WokenBy(a, p)
    BY <1>6 DEF WokenBy
  <2>5. \A p \in Ops : Woken(p)' <=> InList(ctx.waiters, p) \/ Woken(p)
    BY <2>3, <2>4 DEF Woken
  <2>6. \A p \in Ops : StackStarting(p)' <=> StackStarting(p)
    BY <1>9, <1>10 DEF StackStarting
  <2>7. \A p \in Ops : \A b, c \in Agents : WokenBy(b, p)' /\ WokenBy(c, p)' => b = c
    BY <1>1, <2>3 DEF StackOnePlace, Woken
  <2>8. op' = op
    OBVIOUS
  <2> QED BY <1>1, <1>3, <2>1, <2>2, <2>5, <2>6, <2>7, <2>8 DEF StackOnePlace
<1>12. AutoReset' = AutoReset
  BY DEF AutoReset
<1>13. AutoReset' => AutoInv'
  <2> SUFFICES ASSUME AutoReset PROVE AutoInv'
    BY <1>12
  <2>1. AutoInv /\ op' = op /\ ctx'.signalled
    BY <1>1, <1>3
  <2>2. \A b \in Agents : at'[b] = "wake" => b = a
    <3>1. \A b \in Agents : <<b>> # <<>>
      OBVIOUS
    <3> QED BY <1>4, <2>1, <3>1 DEF AutoInv, Moves
  <2>3. \A p \in Ops : Active(p)' <=> Active(p)
    BY DEF Active
  <2>4. ctx'.mutex_ = <<a>> /\ ctx'.state_ # "UNSET"
    BY <1>3
  <2> QED BY <2>1, <2>2, <2>3, <2>4 DEF AutoInv
<1>14. ~AutoReset' => ManualInv'
  BY <1>1, <1>9, <1>10, <1>12 DEF ManualInv
<1> QED BY <1>3, <1>5, <1>7, <1>8, <1>11, <1>13, <1>14 DEF StackInv

LEMMA StackSet ==
  ASSUME SharedInv, StackInv, NEW o \in Ops, Events!set(o)
  PROVE  SharedInv' /\ StackInv'
<1>1. EventType
  BY StackParts
<1>2. ctx.state_ \in {"UNSET", "SET", "DONE"} /\ ctx.mutex_ \in {<<>>} \cup {<<b>> : b \in Agents}
  BY <1>1 DEF EventType
<1>3. Caller(o) \in Agents /\ Caller(o) = Caller(Caller(o)[1])
  BY AgentFacts, AgentOf
<1>4. /\ ~AutoReset /\ at[Caller(o)] = "none" /\ UNCHANGED <<which, op>>
      /\ Events!Signalled(Caller(o), ctx.state_, ctx.mutex_)
  BY DEF Events!set, Caller, AutoReset, Events!Auto
<1> QED BY <1>2, <1>3, <1>4, StackSignals

LEMMA StackAutoSet ==
  ASSUME SharedInv, StackInv, NEW o \in Ops, Events!auto_set(o)
  PROVE  SharedInv' /\ StackInv'
<1>1. SharedType /\ EventType /\ LatchEmpty
  BY StackParts
<1>2. Caller(o) \in Agents /\ Caller(o) = Caller(Caller(o)[1])
  BY AgentFacts, AgentOf
<1>3. /\ at[Caller(o)] = "none" /\ ctx.mutex_ = <<>> /\ which' = which /\ op' = op
      /\ \/ Goto(Caller(o), "returned") /\ ctx' = ctx /\ local' = local
         \/ Events!Signalled(Caller(o), "SET", <<Caller(o)>>)
  BY DEF Events!auto_set, Caller, Events!Goto, Goto
<1>4. CASE Goto(Caller(o), "returned") /\ ctx' = ctx /\ local' = local
  <2>1. op' \in [Ops -> Operation] /\ SameStage
    BY <1>1, <1>3 DEF SharedType, SameStage
  <2>2. SharedInv'
    BY <1>2, <1>3, <1>4, <2>1, GotoShared DEF Pcs
  <2>3. EventType' /\ LatchEmpty'
    BY <1>1, <1>4 DEF EventType, LatchEmpty
  <2>4. StackInv'
    BY <1>2, <1>3, <1>4, <2>3, StackGoto
  <2> QED BY <2>2, <2>4
<1>5. CASE Events!Signalled(Caller(o), "SET", <<Caller(o)>>)
  BY <1>2, <1>3, <1>5, StackSignals
<1> QED BY <1>3, <1>4, <1>5

LEMMA StackSetDone ==
  ASSUME SharedInv, StackInv, NEW a \in Agents, Events!set_done(a)
  PROVE  SharedInv' /\ StackInv'
<1>1. /\ ctx.mutex_ = <<>> /\ at[a] = (IF a[2] = "stop" THEN "callback" ELSE "set_done")
      /\ Events!Signalled(a, "DONE", <<a>>) /\ which' = which /\ op' = op
  BY DEF Events!set_done
<1>2. \/ a = Starter(a[1]) /\ at[a] = "set_done"
      \/ a = Stopper(a[1]) /\ at[a] = "callback"
      \/ a = Caller(a[1]) /\ at[a] \in {"none", "set_done"}
  BY <1>1, AgentFacts, AgentOf
<1> QED BY <1>1, <1>2, StackSignals

LEMMA StackCleanup ==
  ASSUME SharedInv, StackInv, NEW o \in Ops, Events!cleanup(o)
  PROVE  SharedInv' /\ StackInv'
<1>1. SharedType /\ EventType /\ LatchEmpty
  BY StackParts
<1>2. Caller(o) \in Agents /\ Caller(o) = Caller(Caller(o)[1])
  BY AgentFacts, AgentOf
<1>3. /\ at[Caller(o)] = "none" /\ Goto(Caller(o), "set_done")
      /\ which' = which /\ op' = op /\ ctx' = ctx /\ local' = local
  BY DEF Events!cleanup, Caller, Events!Goto, Goto
<1>4. op' \in [Ops -> Operation] /\ SameStage
  BY <1>1, <1>3 DEF SharedType, SameStage
<1>5. SharedInv'
  BY <1>2, <1>3, <1>4, GotoShared DEF Pcs
<1>6. EventType' /\ LatchEmpty'
  BY <1>1, <1>3 DEF EventType, LatchEmpty
<1>7. StackInv'
  BY <1>2, <1>3, <1>6, StackGoto
<1> QED BY <1>5, <1>7

LEMMA StackReset ==
  ASSUME SharedInv, StackInv, NEW o \in Ops, Events!reset(o)
  PROVE  SharedInv' /\ StackInv'
<1>1. SharedType /\ EventType /\ LatchEmpty
  BY StackParts
<1>2. Caller(o) \in Agents /\ Caller(o) = Caller(Caller(o)[1])
  BY AgentFacts, AgentOf
<1>3. /\ ~AutoReset /\ at[Caller(o)] = "none" /\ Goto(Caller(o), "returned")
      /\ which' = which /\ op' = op /\ local' = local /\ ctx' = [ctx EXCEPT !.signalled = FALSE]
  BY DEF Events!reset, Caller, Events!Goto, Goto, AutoReset, Events!Auto
<1>4. op' \in [Ops -> Operation] /\ SameStage
  BY <1>1, <1>3 DEF SharedType, SameStage
<1>5. SharedInv'
  BY <1>2, <1>3, <1>4, GotoShared DEF Pcs
<1>6. ctx'.waiters = ctx.waiters /\ EventType' /\ LatchEmpty'
  BY <1>1, <1>3 DEF EventType, LatchEmpty
<1>7. StackInv'
  BY <1>2, <1>3, <1>6, StackGoto
<1> QED BY <1>5, <1>7

(* set() sends the first waiter on its way.                                *)
LEMMA StackWake ==
  ASSUME SharedInv, StackInv, ~V2, NEW a \in Agents, Events!Wake(a)
  PROVE  SharedInv' /\ StackInv'
<1> DEFINE w == Head(local[a])
<1>1. /\ SharedType /\ LifeInv /\ EventType /\ StackThreads /\ StackLocals /\ StackOnePlace /\ LatchEmpty
      /\ (AutoReset => AutoInv) /\ (~AutoReset => ManualInv)
  BY StackParts
<1>2. /\ at[a] = "wake" /\ local[a] # <<>> /\ which' = which /\ ctx' = ctx /\ UNCHANGED threads
      /\ local' = [local EXCEPT ![a] = Tail(@)] /\ op' = [op EXCEPT ![w].life = "hopping"]
  BY DEF Events!Wake, V2, Events!V2, Events!threads, threads
<1>3. local[a] \in Seq(Ops) /\ Once(local[a])
  BY <1>1, <1>2 DEF StackLocals
<1>4. /\ w \in Ops /\ InList(local[a], w) /\ Tail(local[a]) \in Seq(Ops) /\ Once(Tail(local[a]))
      /\ \A p \in Ops : InList(Tail(local[a]), p) <=> p # w /\ InList(local[a], p)
  BY <1>2, <1>3, TailFacts
<1> HIDE DEF w
<1>5. \A b \in Agents : local'[b] = IF b = a THEN Tail(local[a]) ELSE local[b]
  BY <1>1, <1>2 DEF StackLocals
<1>6. Woken(w) /\ WokenBy(a, w)
  BY <1>2, <1>4 DEF Woken, WokenBy
<1>7. op[w].life = "started" /\ ~InList(ctx.waiters, w) /\ ~StackStarting(w)
  BY <1>1, <1>4, <1>6 DEF StackOnePlace
<1>8. Hopped(w)
  BY <1>1, <1>2, <1>4, HopStep
<1>9. at' = at /\ whom' = whom /\ won' = won /\ lost' = lost
  BY <1>2 DEF threads
<1>10. SharedInv'
  <2>1. at' \in [Agents -> Pcs]
    BY <1>1, <1>9 DEF SharedType
  <2>2. \A b \in Agents : at'[b] \notin {"try", "cleanup"} /\ at'[b] = at[b]
    BY <1>9, StackFree
  <2> QED BY <1>2, <1>4, <1>7, <1>8, <1>9, <2>1, <2>2, HopShared
<1>11. EventType' /\ LatchEmpty' /\ StackThreads'
  BY <1>1, <1>2, <1>9 DEF EventType, LatchEmpty, StackThreads
<1>12. StackLocals'
  <2>1. local' \in [Agents -> Seq(Ops) \cup Tops]
    BY <1>1, <1>2, <1>4 DEF StackLocals
  <2> QED BY <1>1, <1>2, <1>4, <1>5, <1>9, <2>1 DEF StackLocals
<1>13. \A p \in Ops : op'[p].life = IF p = w THEN "hopping" ELSE op[p].life
  BY <1>8 DEF Hopped
<1>14. StackOnePlace'
  <2>1. \A b \in Agents, p \in Ops : WokenBy(b, p)' <=> IF b = a THEN p # w /\ WokenBy(b, p) ELSE WokenBy(b, p)
    BY <1>4, <1>5, <1>9 DEF WokenBy
  <2>2. \A b \in Agents : WokenBy(b, w) => b = a
    BY <1>1, <1>4, <1>6 DEF StackOnePlace
  <2>3. \A p \in Ops : Woken(p)' <=> p # w /\ Woken(p)
    BY <2>1, <2>2 DEF Woken
  <2>4. \A p \in Ops : StackStarting(p)' <=> StackStarting(p)
    BY <1>9 DEF StackStarting
  <2>5. \A p \in Ops : \A b, c \in Agents : WokenBy(b, p)' /\ WokenBy(c, p)' => b = c
    BY <1>1, <2>1 DEF StackOnePlace
  <2>6. ctx' = ctx
    BY <1>2
  <2> QED BY <1>1, <1>4, <1>7, <1>13, <2>3, <2>4, <2>5, <2>6 DEF StackOnePlace
<1>15. AutoReset' = AutoReset
  BY <1>2 DEF AutoReset
<1>16. AutoReset' => AutoInv'
  <2> SUFFICES ASSUME AutoReset PROVE AutoInv'
    BY <1>15
  <2>1. AutoInv /\ ctx' = ctx /\ ctx.signalled
    BY <1>1, <1>2 DEF AutoInv
  <2>2. \A p \in Ops : Active(p)' <=> Active(p)
    BY <1>7, <1>13 DEF Active
  <2> QED BY <1>9, <2>1, <2>2 DEF AutoInv
<1>17. ~AutoReset' => ManualInv'
  BY <1>1, <1>8, <1>9, <1>15 DEF ManualInv, Hopped
<1> QED BY <1>10, <1>11, <1>12, <1>14, <1>16, <1>17 DEF StackInv

LEMMA StackReturns ==
  ASSUME SharedInv, StackInv, NEW a \in Agents, Events!SetReturns(a)
  PROVE  SharedInv' /\ StackInv'
<1> DEFINE pc == IF a[2] = "stop" THEN "return" ELSE IF a[2] = "start" THEN "load" ELSE "returned"
<1>1. /\ SharedType /\ LifeInv /\ EventType /\ StackThreads /\ StackLocals /\ StackOnePlace /\ LatchEmpty
      /\ (AutoReset => AutoInv) /\ (~AutoReset => ManualInv)
  BY StackParts
<1>2. /\ at[a] = "wake" /\ local[a] = <<>> /\ op' = op /\ which' = which /\ local' = local
      /\ ctx' = [ctx EXCEPT !.mutex_ = <<>>] /\ Goto(a, pc)
  BY DEF Events!SetReturns, Events!Goto, Goto, Events!AfterSet
<1>3. \/ a = Starter(a[1]) /\ pc = "load"
      \/ a = Stopper(a[1]) /\ pc = "return"
      \/ a = Caller(a[1]) /\ pc = "returned"
  BY AgentFacts, AgentOf
<1> HIDE DEF pc
<1>4. Moves(a, pc) /\ won' = won
  BY <1>1, <1>2, GotoMoves
<1>5. SharedInv'
  <2>1. op' \in [Ops -> Operation] /\ SameStage
    BY <1>1, <1>2 DEF SharedType, SameStage
  <2>2. a = Caller(a[1]) \/ op[a[1]].life # "idle"
    BY <1>1, <1>2, AgentFacts DEF LifeInv
  <2>3. pc \in Pcs /\ pc \notin {"try", "cleanup"}
    BY <1>3 DEF Pcs
  <2> QED BY <1>2, <2>1, <2>2, <2>3, GotoShared
<1>6. /\ ctx'.waiters = ctx.waiters /\ ctx'.signalled = ctx.signalled /\ ctx'.state_ = ctx.state_
      /\ EventType' /\ LatchEmpty'
  BY <1>1, <1>2 DEF EventType, LatchEmpty
<1>7. StackThreads'
  BY <1>1, <1>3, <1>4, AgentFacts, AgentsDiffer DEF StackThreads, Moves
<1>8. StackLocals'
  BY <1>1, <1>2, <1>3, <1>4 DEF StackLocals, Moves
<1>9. \A p \in Ops : Starter(p) # a => at'[Starter(p)] = at[Starter(p)]
  BY <1>4, AgentFacts DEF Moves
<1>10. \A p \in Ops : Starter(p) = a => at'[Starter(p)] = "load" /\ at[Starter(p)] = "wake"
  BY <1>2, <1>3, <1>4, AgentFacts, AgentsDiffer DEF Moves
<1>11. StackOnePlace'
  <2>1. \A p \in Ops : ~InList(<<>>, p)
    BY DEF InList
  <2>2. \A b \in Agents, p \in Ops : WokenBy(b, p)' <=> WokenBy(b, p)
    BY <1>2, <1>3, <1>4, <2>1 DEF WokenBy, Moves
  <2>3. \A p \in Ops : StackStarting(p)' <=> StackStarting(p)
    BY <1>9, <1>10 DEF StackStarting
  <2>4. \A p \in Ops : op'[p].life = op[p].life
    BY <1>2
  <2> QED BY <1>1, <1>6, <2>2, <2>3, <2>4, StackSame
<1>12. AutoReset' = AutoReset
  BY <1>2 DEF AutoReset
<1>13. AutoReset' => AutoInv'
  <2> SUFFICES ASSUME AutoReset PROVE AutoInv'
    BY <1>12
  <2>1. AutoInv /\ op' = op /\ local' = local
    BY <1>1, <1>2
  <2>2. \A b, c \in Agents : <<b>> = <<c>> => b = c
    OBVIOUS
  <2>3. \A b \in Agents : at[b] = "wake" => b = a
    BY <1>2, <2>1, <2>2 DEF AutoInv
  <2>4. \A b \in Agents : at'[b] # "wake"
    BY <1>3, <1>4, <2>3 DEF Moves
  <2>5. \A p \in Ops : Active(p)' <=> Active(p)
    BY <1>2 DEF Active
  <2>6. \A p \in Ops : at'[Starter(p)] = "push" => at[Starter(p)] = "push"
    BY <1>9, <1>10
  <2> QED BY <1>6, <2>1, <2>4, <2>5, <2>6 DEF AutoInv
<1>14. ~AutoReset' => ManualInv'
  BY <1>1, <1>2, <1>9, <1>10, <1>12 DEF ManualInv
<1> QED BY <1>5, <1>6, <1>7, <1>8, <1>11, <1>13, <1>14 DEF StackInv

(* start() of a v1 event, and next() of an auto-reset event.               *)
LEMMA StackStart ==
  ASSUME SharedInv, StackInv, NEW o \in Ops, Events!StartV1(o) \/ Events!next(o)
  PROVE  SharedInv' /\ StackInv'
<1>1. SharedType /\ LifeInv /\ (~AutoReset => ManualInv)
  BY StackParts
<1> DEFINE x == IF AutoReset THEN NewCallback(o) ELSE op[o].cb
           pc == IF AutoReset /\ op[o].stopped THEN "set_done" ELSE "load"
<1>2. /\ op[o].life = "idle" /\ UNCHANGED <<which, ctx, local>> /\ Goto(Starter(o), pc)
      /\ AutoReset => \A p \in Ops : op[p].life \in {"idle", "completed"}
      /\ op' = [op EXCEPT ![o].life = "started", ![o].cb = x]
  <2>1. CASE Events!StartV1(o)
    <3>1. ~AutoReset /\ op' = [op EXCEPT ![o] = [op[o] EXCEPT !.life = "started"]]
      BY <2>1 DEF Events!StartV1, AutoReset
    <3>2. op[o] \in Operation
      BY <1>1 DEF SharedType
    <3>3. [op[o] EXCEPT !.life = "started"] = [op[o] EXCEPT !.life = "started", !.cb = x]
      BY <3>1, <3>2 DEF Operation
    <3>4. op' = [op EXCEPT ![o].life = "started", ![o].cb = x]
      BY <3>1, <3>3
    <3> QED BY <2>1, <3>1, <3>4 DEF Events!StartV1, Starter, Events!Goto, Goto
  <2>2. CASE Events!next(o)
    BY <2>2 DEF Events!next, AutoReset, Events!Auto, Starter, Events!Goto, Goto, Events!NewCallback, NewCallback
  <2> QED BY <2>1, <2>2
<1>3. op[o] \in Operation /\ op[o].bits = {} /\ op[o].cb = "none"
  BY <1>1, <1>2 DEF SharedType, LifeInv
<1>4. x \in {"none", "set", "running", "ran"} /\ (~AutoReset => x = "none")
  BY <1>3 DEF NewCallback
<1>5. pc \in {"load", "set_done"} /\ (~AutoReset => pc = "load")
  OBVIOUS
<1> HIDE DEF x, pc
<1>6. [op[o] EXCEPT !.life = "started", !.cb = x] \in Operation
  BY <1>3, <1>4 DEF Operation
<1>7. op' \in [Ops -> Operation]
  BY <1>1, <1>2, <1>6 DEF SharedType
<1>8. \A p \in Ops : /\ op'[p].life = IF p = o THEN "started" ELSE op[p].life
                     /\ op'[p].signals = op[p].signals /\ SameFields(p) /\ op'[p].bits = op[p].bits
                     /\ op'[p].cb = IF p = o THEN x ELSE op[p].cb
  <2> TAKE p \in Ops
  <2>1. op'[p] = IF p = o THEN [op[o] EXCEPT !.life = "started", !.cb = x] ELSE op[p]
    BY <1>1, <1>2 DEF SharedType
  <2> QED BY <1>3, <2>1 DEF SameFields, Operation
<1>9. Begun(o, pc)
  BY <1>2, <1>3, <1>7, <1>8 DEF Begun
<1>10. ~AutoReset => pc = "load" /\ op'[o].cb = "none"
  BY <1>4, <1>5, <1>8
<1> QED BY <1>2, <1>5, <1>9, <1>10, StackBegins

LEMMA StackLoadTop ==
  ASSUME SharedInv, StackInv, NEW o \in Ops, Events!LoadTop(o)
  PROVE  SharedInv' /\ StackInv'
<1>1. /\ at[Starter(o)] = "load" /\ Goto(Starter(o), "push") /\ UNCHANGED <<which, op, ctx>>
      /\ local' = [local EXCEPT ![Starter(o)] = Events!Top]
  BY DEF Events!LoadTop, Starter, Events!Goto, Goto
<1> QED BY <1>1, StackReads

(* The consumer resets the event it was woken by.                          *)
LEMMA StackTryReset ==
  ASSUME SharedInv, StackInv, NEW o \in Ops, Events!try_reset(o)
  PROVE  SharedInv' /\ StackInv'
<1> DEFINE s == <<IF ctx.state_ = "SET" THEN "value" ELSE "done">>
<1>1. /\ SharedType /\ HandsInv /\ LifeInv /\ EventType /\ StackThreads /\ StackLocals /\ StackOnePlace
      /\ LatchEmpty /\ (AutoReset => AutoInv)
  BY StackParts
<1>2. /\ AutoReset /\ op[o].life = "hopping" /\ ctx.mutex_ = <<>> /\ UNCHANGED <<which, threads, local>>
      /\ \/ ctx' = [ctx EXCEPT !.state_ = "UNSET", !.signalled = FALSE]
         \/ ctx' = ctx
  BY DEF Events!try_reset, AutoReset, Events!Auto, Events!threads, threads
<1>3. op[o] \in Operation /\ op[o].signals = <<>>
  BY <1>1, <1>2 DEF SharedType, LifeInv
<1>4. op' = [op EXCEPT ![o].life = "completed", ![o].cb = "none", ![o].signals = s]
  <2>1. Append(op[o].signals, IF ctx.state_ = "SET" THEN "value" ELSE "done") = s
    BY <1>3
  <2> QED BY <2>1 DEF Events!try_reset
<1>5. s \in {<<>>, <<"value">>, <<"done">>, <<"error">>} /\ s # <<>>
  OBVIOUS
<1> HIDE DEF s
<1>6. [op[o] EXCEPT !.life = "completed", !.cb = "none", !.signals = s] \in Operation
  BY <1>3, <1>5 DEF Operation
<1>7. op' \in [Ops -> Operation]
  BY <1>1, <1>4, <1>6 DEF SharedType
<1>8. \A p \in Ops : /\ op'[p].life = IF p = o THEN "completed" ELSE op[p].life
                     /\ op'[p].signals = IF p = o THEN s ELSE op[p].signals
                     /\ op'[p].cb = IF p = o THEN "none" ELSE op[p].cb
                     /\ op'[p].bits = op[p].bits
  <2> TAKE p \in Ops
  <2>1. op'[p] = IF p = o THEN [op[o] EXCEPT !.life = "completed", !.cb = "none", !.signals = s] ELSE op[p]
    BY <1>1, <1>4 DEF SharedType
  <2> QED BY <1>3, <2>1 DEF Operation
<1>9. at' = at /\ whom' = whom /\ won' = won /\ lost' = lost /\ local' = local /\ AutoReset'
  BY <1>2 DEF threads, AutoReset
<1>10. SharedInv'
  <2>1. SharedType'
    BY <1>1, <1>7, <1>9 DEF SharedType
  <2>2. \A p \in Ops : ~Held(p)'
    BY <1>9, StackFree DEF Held, HeldBy
  <2>3. HandsInv'
    BY <1>1, <1>9, <2>2 DEF HandsInv, Held
  <2>4. \A p \in Ops : "completed" \in op[p].bits => op[p].life \in {"hopping", "completed"}
    BY <1>1, StackFree DEF LifeInv
  <2>5. LifeInv'
    BY <1>1, <1>2, <1>5, <1>8, <1>9, <2>4 DEF LifeInv
  <2> QED BY <2>1, <2>3, <2>5 DEF SharedInv
<1>11. /\ ctx'.waiters = ctx.waiters /\ ctx'.mutex_ = ctx.mutex_
       /\ ctx'.signalled => ctx.signalled
       /\ EventType'
  BY <1>1, <1>2 DEF EventType
<1>12. LatchEmpty' /\ StackThreads' /\ StackLocals'
  BY <1>1, <1>9, <1>11 DEF LatchEmpty, StackThreads, StackLocals
<1>13. StackOnePlace'
  <2>1. \A b \in Agents, p \in Ops : WokenBy(b, p)' <=> WokenBy(b, p)
    BY <1>9 DEF WokenBy
  <2>2. \A p \in Ops : Woken(p)' <=> Woken(p)
    BY <2>1 DEF Woken
  <2>3. \A p \in Ops : StackStarting(p)' <=> StackStarting(p)
    BY <1>9 DEF StackStarting
  <2> QED BY <1>1, <1>2, <1>8, <1>11, <2>1, <2>2, <2>3 DEF StackOnePlace
<1>14. AutoInv'
  <2>1. AutoInv
    BY <1>1, <1>2
  <2>2. \A b \in Agents : at'[b] # "wake"
    <3>1. \A b \in Agents : <<b>> # <<>>
      OBVIOUS
    <3> QED BY <1>2, <1>9, <2>1, <3>1 DEF AutoInv
  <2>3. \A p \in Ops : ~Active(p)'
    BY <1>2, <1>8, <2>1 DEF Active, AutoInv
  <2>4. \A p \in Ops : at'[Starter(p)] # "push"
    <3> TAKE p \in Ops
    <3>1. at[Starter(p)] = "push" => op[p].life = "started"
      BY <1>1 DEF StackOnePlace, StackStarting
    <3>2. op[p].life # "started"
      BY <1>2, <2>1 DEF Active, AutoInv
    <3> QED BY <1>9, <3>1, <3>2
  <2>5. \A p \in Ops : op'[p].life # "hopping"
    BY <2>3 DEF Active
  <2>6. ctx'.signalled <=> ctx'.state_ # "UNSET"
    <3>1. CASE ctx' = ctx
      BY <2>1, <3>1 DEF AutoInv
    <3>2. CASE ctx' = [ctx EXCEPT !.state_ = "UNSET", !.signalled = FALSE]
      <4> DEFINE no == FALSE
      <4>1. ctx' = [ctx EXCEPT !.state_ = "UNSET", !.signalled = no]
        BY <3>2
      <4> HIDE DEF no
      <4>2. ctx'.signalled = no /\ ctx'.state_ = "UNSET"
        BY <1>1, <4>1 DEF EventType
      <4> QED BY <4>2 DEF no
    <3> QED BY <1>2, <3>1, <3>2
  <2> QED BY <2>2, <2>3, <2>4, <2>5, <2>6 DEF AutoInv
<1> QED BY <1>9, <1>10, <1>11, <1>12, <1>13, <1>14 DEF StackInv

LEMMA StackForward ==
  ASSUME SharedInv, StackInv, ~AutoReset, NEW o \in Ops, forward_set_value(o)
  PROVE  SharedInv' /\ StackInv'
<1>1. /\ SharedType /\ EventType /\ StackThreads /\ StackLocals /\ StackOnePlace /\ LatchEmpty
      /\ (~AutoReset => ManualInv)
  BY StackParts
<1>2. Forwarded(o)
  BY ForwardStep
<1>3. SharedInv'
  BY <1>2, ForwardShared
<1>4. at' = at /\ won' = won /\ ctx' = ctx /\ local' = local /\ which' = which /\ op[o].life = "hopping"
  BY <1>2 DEF Forwarded, threads
<1>5. \A p \in Ops : op'[p].life = (IF p = o THEN "completed" ELSE op[p].life) /\ op'[p].cb = op[p].cb
  BY <1>2 DEF Forwarded
<1>6. EventType' /\ StackThreads' /\ StackLocals' /\ LatchEmpty'
  BY <1>1, <1>4 DEF EventType, StackThreads, StackLocals, LatchEmpty
<1>7. StackOnePlace'
  <2>1. \A b \in Agents, p \in Ops : WokenBy(b, p)' <=> WokenBy(b, p)
    BY <1>4 DEF WokenBy
  <2>2. \A p \in Ops : Woken(p)' <=> Woken(p)
    BY <2>1 DEF Woken
  <2>3. \A p \in Ops : StackStarting(p)' <=> StackStarting(p)
    BY <1>4 DEF StackStarting
  <2> QED BY <1>1, <1>4, <1>5, <2>1, <2>2, <2>3 DEF StackOnePlace
<1>8. ~AutoReset' /\ ManualInv'
  BY <1>1, <1>4, <1>5 DEF ManualInv, AutoReset
<1> QED BY <1>3, <1>6, <1>7, <1>8 DEF StackInv

(* The stop callback of an auto-reset event.                               *)
LEMMA StackCancellation ==
  ASSUME SharedInv, StackInv, AutoReset, NEW o \in Ops, CallbackReturns(o) \/ RequestStop(o)
  PROVE  SharedInv' /\ StackInv'
<1>1. /\ SharedType /\ EventType /\ StackThreads /\ StackLocals /\ StackOnePlace /\ LatchEmpty /\ AutoInv
  BY StackParts
<1>2. Stopper(o) \in Agents /\ Stopper(o) = Stopper(Stopper(o)[1])
  BY AgentFacts, AgentOf
<1>3. SharedInv' /\ Cancels
  BY CancellationShared
<1>4. /\ local' = local /\ ctx' = ctx /\ which' = which /\ EventType' /\ LatchEmpty'
      /\ \A p \in Ops : op'[p].life = op[p].life
  BY <1>1, <1>3 DEF Cancels, SameStage, EventType, LatchEmpty
<1>5. \/ at[Stopper(o)] = "return" /\ Goto(Stopper(o), "returned")
      \/ at[Stopper(o)] = "none" /\ Goto(Stopper(o), "callback")
      \/ UNCHANGED threads
  BY CallbackReturnsStep, RequestStopStep
<1>6. CASE at[Stopper(o)] = "return" /\ Goto(Stopper(o), "returned")
  BY <1>2, <1>3, <1>4, <1>6, StackGoto
<1>7. CASE at[Stopper(o)] = "none" /\ Goto(Stopper(o), "callback")
  BY <1>2, <1>3, <1>4, <1>7, StackGoto
<1>8. CASE UNCHANGED threads
  <2>1. at' = at /\ won' = won /\ AutoReset'
    BY <1>4, <1>8 DEF threads, AutoReset
  <2>2. StackThreads' /\ StackLocals'
    BY <1>1, <1>4, <2>1 DEF StackThreads, StackLocals
  <2>3. StackOnePlace'
    <3>1. \A b \in Agents, p \in Ops : WokenBy(b, p)' <=> WokenBy(b, p)
      BY <1>4, <2>1 DEF WokenBy
    <3>2. \A p \in Ops : StackStarting(p)' <=> StackStarting(p)
      BY <2>1 DEF StackStarting
    <3> QED BY <1>1, <1>4, <3>1, <3>2, StackSame
  <2>4. AutoInv'
    <3>1. \A p \in Ops : Active(p)' <=> Active(p)
      BY <1>4 DEF Active
    <3> QED BY <1>1, <1>4, <2>1, <3>1 DEF AutoInv
  <2> QED BY <1>3, <1>4, <2>1, <2>2, <2>3, <2>4 DEF StackInv
<1> QED BY <1>5, <1>6, <1>7, <1>8

LEMMA StackStep ==
  ASSUME SharedInv, StackInv, V1 \/ AutoReset, Events!Next
  PROVE  SharedInv' /\ StackInv'
<1>1. ~V2 /\ ~Events!V2 /\ (AutoReset <=> Events!Auto) /\ (V1 <=> ~AutoReset)
  BY DEF V1, V2, AutoReset, Events!V2, Events!Auto
<1>2. StackThreads /\ \A a \in Agents : at[a] \notin {"try", "cleanup"}
  BY StackParts, StackFree
<1>3. ASSUME NEW a \in Agents, Events!try_complete(a) \/ Events!cleanup_(a) \/ Events!StopV2(a) PROVE FALSE
  BY <1>1, <1>2, <1>3 DEF Events!try_complete, Events!cleanup_, Events!StopV2
<1>4. ASSUME NEW o \in Ops, Events!PushFront(o) \/ Events!StartV2(o) PROVE FALSE
  BY <1>1, <1>4 DEF Events!PushFront, Events!StartV2
<1>5. ASSUME NEW a \in Agents, Events!Wake(a) \/ Events!SetReturns(a) \/ Events!set_done(a)
      PROVE  SharedInv' /\ StackInv'
  BY <1>1, <1>5, StackWake, StackReturns, StackSetDone
<1>6. ASSUME NEW o \in Ops, Events!LoadTop(o) \/ Events!PushOrComplete(o) \/ Events!try_reset(o)
      PROVE  SharedInv' /\ StackInv'
  BY <1>6, StackLoadTop, StackPushOrComplete, StackTryReset
<1>7. ASSUME NEW o \in Ops, \/ Events!StartV1(o) \/ Events!next(o) \/ Events!set(o) \/ Events!reset(o)
                            \/ Events!auto_set(o) \/ Events!cleanup(o)
      PROVE  SharedInv' /\ StackInv'
  BY <1>7, StackStart, StackSet, StackReset, StackAutoSet, StackCleanup
<1>8. ASSUME NEW o \in Ops, AutoReset, Events!CallbackReturns(o) \/ Events!RequestStop(o)
      PROVE  SharedInv' /\ StackInv'
  BY <1>8, EventsShare, StackCancellation
<1>9. ASSUME NEW o \in Ops, ~AutoReset, Events!forward_set_value(o)
      PROVE  SharedInv' /\ StackInv'
  BY <1>9, EventsShare, StackForward
<1>10. CASE Events!System
  <2>1. CASE ~Events!Auto /\ Events!Completions
    BY <1>1, <1>3, <1>9, <2>1 DEF Events!Completions, Events!Agents, Agents
  <2>2. CASE \E a \in Agents : Events!Wake(a) \/ Events!SetReturns(a) \/ Events!StopV2(a) \/ Events!set_done(a)
    BY <1>3, <1>5, <2>2
  <2>3. CASE \E o \in Ops : \/ Events!LoadTop(o) \/ Events!PushOrComplete(o) \/ Events!PushFront(o)
                            \/ Events!try_reset(o)
                            \/ Events!Auto /\ Events!CallbackReturns(o)
    BY <1>1, <1>4, <1>6, <1>8, <2>3
  <2> QED BY <1>1, <1>10, <2>1, <2>2, <2>3 DEF Events!System, Events!Agents, Agents
<1>11. CASE Events!User
  <2>1. which # "async_manual_reset_event_v1" <=> AutoReset
    BY <1>1 DEF V1
  <2> QED BY <1>4, <1>7, <1>8, <1>11, <2>1 DEF Events!User
<1> QED BY <1>10, <1>11 DEF Events!Next

-----------------------------------------------------------------------------
(* Every event starts without waiters.                                     *)
LEMMA EventStart ==
  ASSUME Events!Init
  PROVE  SharedInv /\ (V2 => LatchInv) /\ (V1 \/ AutoReset => StackInv)
<1>1. /\ op = [o \in Ops |-> NewOp("wait")] /\ NoAgents
      /\ \E startSignalled \in BOOLEAN :
           ctx = [signalled |-> startSignalled, waiters |-> <<>>, mutex_ |-> <<>>,
                  state_ |-> IF startSignalled THEN "SET" ELSE "UNSET"]
  BY DEF Events!Init, Events!NewOp, NewOp, Events!NoAgents, NoAgents, Events!Agents, Agents
<1>2. \A o \in Ops : \E kind \in Kinds : op[o] = NewOp(kind)
  BY <1>1 DEF Kinds
<1>3. op = [o \in Ops |-> op[o]]
  BY <1>1
<1>4. SharedInv /\ \A o \in Ops : ~Held(o) /\ op[o].life = "idle"
  BY <1>1, <1>2, <1>3, SharedStart
<1>5. \A o \in Ops : op[o].cb = "none"
  BY <1>4 DEF SharedInv, LifeInv
<1>6. /\ local = [a \in Agents |-> <<>>]
      /\ \A a \in Agents : at[a] = "none" /\ won[a] = "none" /\ local[a] = <<>>
  BY <1>1 DEF NoAgents
<1>7. EventType /\ LatchEmpty /\ ctx.waiters = <<>> /\ (ctx.signalled <=> ctx.state_ # "UNSET")
  <2>1. PICK b \in BOOLEAN : ctx = [signalled |-> b, waiters |-> <<>>, mutex_ |-> <<>>,
                                    state_ |-> IF b THEN "SET" ELSE "UNSET"]
    BY <1>1
  <2> DEFINE nobody == <<>>
  <2>2. nobody \in Seq(Ops) /\ nobody \in {<<>>} \cup {<<a>> : a \in Agents}
    OBVIOUS
  <2>3. ctx = [signalled |-> b, waiters |-> nobody, mutex_ |-> nobody, state_ |-> IF b THEN "SET" ELSE "UNSET"]
    BY <2>1
  <2>4. ctx.waiters = <<>>
    BY <2>1
  <2> HIDE DEF nobody
  <2>5. EventType /\ (ctx.signalled <=> ctx.state_ # "UNSET")
    BY <2>2, <2>3 DEF EventType
  <2> QED BY <2>4, <2>5 DEF LatchEmpty
<1>8. Once(<<>>) /\ \A o \in Ops : ~InList(<<>>, o)
  BY DEF Once, InList
<1>9. <<>> \in Seq(Ops) /\ <<>> \in Tops
  BY DEF Tops
<1>10. LatchInv
  <2>1. LatchThreads
    BY <1>6, AgentFacts DEF LatchThreads
  <2>2. LatchLocals
    BY <1>6, <1>8, <1>9 DEF LatchLocals
  <2>3. \A o \in Ops : ~Taken(o) /\ at[Starter(o)] # "nested"
    BY <1>6, <1>8, AgentFacts DEF Taken, TakenBy
  <2>4. LatchOnePlace
    BY <1>4, <1>7, <1>8, <2>3 DEF LatchOnePlace, Taken
  <2> QED BY <1>7, <2>1, <2>2, <2>4 DEF LatchInv
<1>11. StackInv
  <2>1. StackThreads
    BY <1>6, AgentFacts DEF StackThreads
  <2>2. StackLocals
    BY <1>6, <1>9 DEF StackLocals
  <2>3. \A o \in Ops : ~Woken(o) /\ ~StackStarting(o)
    BY <1>6, AgentFacts DEF Woken, WokenBy, StackStarting
  <2>4. StackOnePlace
    BY <1>4, <1>7, <1>8, <2>3 DEF StackOnePlace, Woken
  <2>5. AutoInv
    BY <1>4, <1>6, <1>7, AgentFacts DEF AutoInv, Active
  <2>6. ManualInv
    BY <1>5, <1>6, AgentFacts DEF ManualInv
  <2> QED BY <1>7, <2>1, <2>2, <2>4, <2>5, <2>6 DEF StackInv
<1> QED BY <1>4, <1>10, <1>11

LEMMA LatchStutters ==
  ASSUME LatchInv, UNCHANGED vars
  PROVE  LatchInv'
<1>1. ctx' = ctx /\ op' = op /\ at' = at /\ whom' = whom /\ won' = won /\ local' = local
  BY DEF vars, threads
<1>2. EventType' /\ LatchThreads' /\ LatchLocals' /\ LatchEmpty'
  BY <1>1 DEF LatchInv, EventType, LatchThreads, LatchLocals, LatchEmpty
<1>3. LatchOnePlace'
  BY <1>1 DEF LatchInv, LatchOnePlace, Taken, TakenBy, Held, HeldBy
<1> QED BY <1>2, <1>3 DEF LatchInv

LEMMA StackStutters ==
  ASSUME StackInv, UNCHANGED vars
  PROVE  StackInv'
<1>1. ctx' = ctx /\ op' = op /\ at' = at /\ won' = won /\ local' = local /\ which' = which
  BY DEF vars, threads
<1>2. EventType' /\ StackThreads' /\ StackLocals' /\ LatchEmpty'
  BY <1>1 DEF StackInv, EventType, StackThreads, StackLocals, LatchEmpty
<1>3. StackOnePlace'
  BY <1>1 DEF StackInv, StackOnePlace, Woken, WokenBy, StackStarting
<1>4. (AutoReset => AutoInv)' /\ (~AutoReset => ManualInv)'
  BY <1>1 DEF StackInv, AutoReset, AutoInv, ManualInv, Active
<1> QED BY <1>2, <1>3, <1>4 DEF StackInv

(* A v2 event keeps its invariant in every behaviour.                      *)
THEOREM LatchInvariance == Spec => [](V2 => SharedInv /\ LatchInv)
<1> DEFINE I == V2 => SharedInv /\ LatchInv
<1>1. Init => I
  BY EventStart DEF Init, Mutex!Init, Pass!Init, List!Init, V2
<1>2. I /\ [Next]_vars => I'
  <2> SUFFICES ASSUME I, [Next]_vars, V2' PROVE SharedInv' /\ LatchInv'
    OBVIOUS
  <2>1. V2 /\ SharedInv /\ LatchInv
    BY OnePrimitive DEF V2
  <2>2. CASE UNCHANGED vars
    BY <2>1, <2>2, SharedStutters, LatchStutters
  <2>3. CASE Next
    <3>1. Events!Next
      BY <2>1, <2>3 DEF Next, Mutex!Next, Pass!Next, List!Next, V2
    <3> QED BY <2>1, <3>1, LatchStep
  <2> QED BY <2>2, <2>3
<1> QED BY <1>1, <1>2, PTL DEF Spec

(* So do the v1 event and the async_auto_reset_event.                      *)
THEOREM StackInvariance == Spec => [](V1 \/ AutoReset => SharedInv /\ StackInv)
<1> DEFINE I == V1 \/ AutoReset => SharedInv /\ StackInv
<1>1. Init => I
  BY EventStart DEF Init, Mutex!Init, Pass!Init, List!Init, V1, AutoReset
<1>2. I /\ [Next]_vars => I'
  <2> SUFFICES ASSUME I, [Next]_vars, (V1 \/ AutoReset)' PROVE SharedInv' /\ StackInv'
    OBVIOUS
  <2>1. (V1 \/ AutoReset) /\ SharedInv /\ StackInv
    BY OnePrimitive DEF V1, AutoReset
  <2>2. CASE UNCHANGED vars
    BY <2>1, <2>2, SharedStutters, StackStutters
  <2>3. CASE Next
    <3>1. Events!Next
      BY <2>1, <2>3 DEF Next, Mutex!Next, Pass!Next, List!Next, V1, AutoReset
    <3> QED BY <2>1, <3>1, StackStep
  <2> QED BY <2>2, <2>3
<1> QED BY <1>1, <1>2, PTL DEF Spec

(* Nobody waits in the list of an event that is signalled; the state_ of   *)
(* an auto-reset event says whether the event inside it is signalled, and  *)
(* that event is still signalled when the consumer it woke comes to reset  *)
(* it (async_manual_reset_event.cpp, async_auto_reset_event.cpp).          *)
THEOREM SignalledIsEmpty == Spec => []EventIsRight
<1> DEFINE L == V2 => SharedInv /\ LatchInv
           S == V1 \/ AutoReset => SharedInv /\ StackInv
<1>1. L /\ S => EventIsRight
  <2> SUFFICES ASSUME L, S, AnEvent PROVE Events!EventIsRight
    BY DEF EventIsRight
  <2>1. LatchEmpty /\ EventType /\ (AutoReset => AutoInv)
    BY DEF AnEvent, V1, V2, AutoReset, LatchInv, StackInv
  <2>2. Events!Auto => AutoReset
    BY DEF Events!Auto, AutoReset
  <2>3. ctx.signalled \in BOOLEAN
    BY <2>1 DEF EventType
  <2> QED BY <2>1, <2>2, <2>3 DEF Events!EventIsRight, LatchEmpty, AutoInv
<1> QED BY <1>1, LatchInvariance, StackInvariance, PTL

-----------------------------------------------------------------------------
(* async_pass: steps that leave every operation where it is.               *)
LEMMA PassParts ==
  ASSUME SharedInv, PassInv
  PROVE  /\ SharedType /\ HandsInv /\ LifeInv
         /\ PassType /\ PassThreads /\ PassLocals /\ PassOnePlace /\ PassPartners
         /\ (~HopStops => Pass!Paired)
BY DEF SharedInv, PassInv

LEMMA PairedStays ==
  ASSUME Pass!Paired, SharedType,
         \A p \in Ops : /\ op'[p].kind = op[p].kind /\ op'[p].partner = op[p].partner
                        /\ op'[p].signals = op[p].signals
  PROVE  Pass!Paired'
<1>1. \A p \in Ops : op[p].partner \in Whom
  BY DEF SharedType, Operation
<1>2. \A p \in Ops : op[p].partner # <<>> => op[p].partner[1] \in Ops
  BY <1>1, WhomFacts
<1> QED BY <1>2 DEF Pass!Paired

LEMMA ResumesSame ==
  ASSUME local' = local, \A p \in Ops : op'[p].kind = op[p].kind, \A b \in Agents : Resumes(b)' <=> Resumes(b)
  PROVE  /\ \A b \in Agents, p \in Ops : ResumedBy(b, p)' <=> ResumedBy(b, p)
         /\ \A p \in Ops : Resuming(p)' <=> Resuming(p)
<1>1. \A b \in Agents : Pass!Resumed(b)' = Pass!Resumed(b)
  BY AgentFacts DEF Pass!Resumed
<1>2. \A b \in Agents, p \in Ops : ResumedBy(b, p)' <=> ResumedBy(b, p)
  BY <1>1 DEF ResumedBy
<1> QED BY <1>2 DEF Resuming

LEMMA PassStays ==
  ASSUME SharedInv, PassInv, ctx' = ctx, local' = local,
         \A p \in Ops : op'[p].life = op[p].life /\ op'[p].signals = op[p].signals /\ SameFields(p),
         \A p \in Ops : Held(p)' <=> Held(p),
         \A p \in Ops : at'[Starter(p)] = "nested" <=> at[Starter(p)] = "nested",
         \A b \in Agents : Resumes(b)' <=> Resumes(b),
         PassThreads'
  PROVE  PassInv'
<1>1. /\ SharedType /\ PassType /\ PassLocals /\ PassOnePlace /\ PassPartners
      /\ (~HopStops => Pass!Paired)
  BY PassParts
<1>2. /\ \A b \in Agents, p \in Ops : ResumedBy(b, p)' <=> ResumedBy(b, p)
      /\ \A p \in Ops : Resuming(p)' <=> Resuming(p)
  BY ResumesSame DEF SameFields
<1>3. PassType'
  BY <1>1 DEF PassType
<1>4. PassLocals'
  BY <1>1, AgentFacts DEF PassLocals, SameFields
<1>5. PassOnePlace'
  BY <1>1, <1>2 DEF PassOnePlace
<1>6. PassPartners'
  BY <1>1, <1>2 DEF PassPartners, SameFields
<1>7. ~HopStops => Pass!Paired'
  BY <1>1, PairedStays DEF SameFields
<1> QED BY <1>3, <1>4, <1>5, <1>6, <1>7 DEF PassInv

LEMMA PassGoto ==
  ASSUME SharedInv, PassInv, NEW a \in Agents, NEW pc, Goto(a, pc),
         at[a] \notin {"try", "cleanup", "nested", "resume"},
         \/ a = Starter(a[1]) /\ pc \in {"stop", "returned"}
         \/ a = Stopper(a[1]) /\ pc \in {"callback", "stop", "return", "returned"},
         ctx' = ctx, local' = local,
         \A p \in Ops : op'[p].life = op[p].life /\ op'[p].signals = op[p].signals /\ SameFields(p)
  PROVE  PassInv'
<1>1. SharedType /\ PassThreads
  BY PassParts
<1>2. /\ Moves(a, pc) /\ won' = won /\ \A p \in Ops : Held(p)' <=> Held(p)
  BY <1>1, GotoMoves
<1>3. PassThreads'
  BY <1>1, <1>2, AgentFacts, AgentsDiffer DEF PassThreads, Moves
<1>4. \A p \in Ops : at'[Starter(p)] = "nested" <=> at[Starter(p)] = "nested"
  BY <1>2, AgentFacts DEF Moves
<1>5. \A b \in Agents : Resumes(b)' <=> Resumes(b)
  BY <1>1, <1>2 DEF Resumes, Moves
<1> QED BY <1>2, <1>3, <1>4, <1>5, PassStays

(* The word holds at most a caller or an acceptor that has met nobody.     *)
LEMMA WordFacts ==
  ASSUME SharedInv, PassInv
  PROVE  /\ ctx.state_ = <<>> => ~Pass!is_caller(ctx.state_) /\ ~Pass!is_acceptor(ctx.state_)
         /\ ~Pass!is_caller(ctx.state_) /\ ~Pass!is_acceptor(ctx.state_) => ctx.state_ = <<>>
         /\ ctx.state_ # <<>> =>
              LET w == ctx.state_[1] IN
              /\ w \in Ops /\ ctx.state_ = <<w>>
              /\ op[w].life = "started" /\ ~Held(w) /\ ~Resuming(w) /\ at[Starter(w)] # "nested"
              /\ op[w].partner = <<>> /\ ~op[w].cancelled
              /\ (Pass!is_caller(ctx.state_) <=> op[w].kind \in Pass!Callers)
              /\ (Pass!is_acceptor(ctx.state_) <=> op[w].kind = "async_accept")
<1>1. SharedType /\ PassType /\ PassOnePlace /\ PassPartners
  BY PassParts
<1>2. ctx.state_ \in Whom
  BY <1>1 DEF PassType
<1>3. ASSUME ctx.state_ # <<>>
      PROVE  LET w == ctx.state_[1] IN
              /\ w \in Ops /\ ctx.state_ = <<w>>
              /\ op[w].life = "started" /\ ~Held(w) /\ ~Resuming(w) /\ at[Starter(w)] # "nested"
              /\ op[w].partner = <<>> /\ ~op[w].cancelled
              /\ (Pass!is_caller(ctx.state_) <=> op[w].kind \in Pass!Callers)
              /\ (Pass!is_acceptor(ctx.state_) <=> op[w].kind = "async_accept")
              /\ (op[w].kind \in Pass!Callers \/ op[w].kind = "async_accept")
  <2> DEFINE w == ctx.state_[1]
  <2>1. w \in Ops /\ ctx.state_ = <<w>>
    BY <1>2, <1>3, WhomFacts
  <2>2. (Pass!is_caller(ctx.state_) <=> op[w].kind \in Pass!Callers)
        /\ (Pass!is_acceptor(ctx.state_) <=> op[w].kind = "async_accept")
    BY <1>3 DEF Pass!is_caller, Pass!is_acceptor
  <2> HIDE DEF w
  <2>3. op[w].kind \in Kinds
    BY <1>1, <2>1 DEF SharedType, Operation
  <2>4. op[w].kind \notin Pass!Tries /\ op[w].kind \notin {"wait", "async_lock", "try_lock"}
    BY <1>1, <2>1 DEF PassPartners
  <2>5. op[w].kind \in Pass!Callers \/ op[w].kind = "async_accept"
    BY <2>3, <2>4 DEF Kinds, Pass!Tries, Pass!Callers
  <2>6. op[w].life = "started" /\ ~Held(w) /\ ~Resuming(w) /\ at[Starter(w)] # "nested"
    BY <1>1, <2>1 DEF PassOnePlace
  <2>7. op[w].partner = <<>> /\ ~op[w].cancelled
    BY <1>1, <2>1 DEF PassPartners
  <2> QED BY <2>1, <2>2, <2>5, <2>6, <2>7 DEF w
<1> QED BY <1>3 DEF Pass!is_caller, Pass!is_acceptor

LEMMA PassStart ==
  ASSUME SharedInv, PassInv, NEW o \in Ops, Start(o, FALSE)
  PROVE  SharedInv' /\ PassInv'
<1> DEFINE a == Starter(o)
<1>1. /\ SharedType /\ HandsInv /\ LifeInv /\ PassType /\ PassThreads /\ PassLocals /\ PassOnePlace /\ PassPartners
      /\ (~HopStops => Pass!Paired)
  BY PassParts
<1>2. Begun(o, "nested") /\ UNCHANGED <<which, ctx, local>>
  BY StartStep
<1>3. a \in Agents /\ Goto(a, "nested") /\ op[o].life = "idle" /\ at[a] = "none" /\ won[a] = "none"
  BY <1>1, <1>2, AgentFacts DEF Begun, LifeInv, PassThreads
<1>4. Moves(a, "nested") /\ won' = won /\ \A p \in Ops : Held(p)' <=> Held(p)
  BY <1>1, <1>3, GotoMoves
<1>5. \A p \in Ops : /\ op'[p].life = IF p = o THEN "started" ELSE op[p].life
                     /\ op'[p].signals = op[p].signals /\ SameFields(p)
  BY <1>2 DEF Begun
<1>6. SharedInv'
  BY <1>2, StartShared DEF Pcs
<1>7. PassThreads'
  BY <1>1, <1>3, <1>4, AgentFacts, AgentsDiffer DEF PassThreads, Moves
<1>8. \A b \in Agents : Resumes(b)' <=> Resumes(b)
  BY <1>3, <1>4 DEF Resumes, Moves
<1>9. /\ \A b \in Agents, p \in Ops : ResumedBy(b, p)' <=> ResumedBy(b, p)
      /\ \A p \in Ops : Resuming(p)' <=> Resuming(p)
  BY <1>2, <1>5, <1>8, ResumesSame DEF SameFields
<1>10. PassType' /\ PassLocals'
  BY <1>1, <1>2, <1>5, <1>8, AgentFacts DEF PassType, PassLocals, SameFields
<1>11. \A p \in Ops : at'[Starter(p)] = "nested" <=> p = o \/ at[Starter(p)] = "nested"
  BY <1>3, <1>4, AgentFacts, AgentsDiffer DEF Moves
<1>12. PassOnePlace' /\ PassPartners'
  <2>1. ctx' = ctx
    BY <1>2
  <2>2. ctx.state_ # <<o>> /\ ~Resuming(o) /\ ~Held(o) /\ at[Starter(o)] # "nested"
    BY <1>1, <1>3 DEF PassOnePlace
  <2>3. PassOnePlace'
    BY <1>1, <1>3, <1>4, <1>5, <1>9, <1>11, <2>1, <2>2 DEF PassOnePlace
  <2>4. PassPartners'
    BY <1>1, <1>3, <1>4, <1>5, <1>9, <1>11, <2>1, <2>2 DEF PassPartners, SameFields
  <2> QED BY <2>3, <2>4
<1>13. ~HopStops => Pass!Paired'
  BY <1>1, <1>5, PairedStays DEF SameFields
<1> QED BY <1>6, <1>7, <1>10, <1>12, <1>13 DEF PassInv

LEMMA PassSuspend ==
  ASSUME SharedInv, PassInv, NEW o \in Ops, at[Starter(o)] = "nested", ctx.state_ = <<>>,
         op[o].kind \notin Pass!Tries,
         ctx' = [ctx EXCEPT !.state_ = <<o>>], Goto(Starter(o), "mark"), UNCHANGED <<which, op, local>>
  PROVE  SharedInv' /\ PassInv'
<1> DEFINE a == Starter(o)
<1>1. /\ SharedType /\ HandsInv /\ LifeInv /\ PassType /\ PassThreads /\ PassLocals /\ PassOnePlace /\ PassPartners
      /\ (~HopStops => Pass!Paired)
  BY PassParts
<1>2. a \in Agents /\ a[1] = o /\ won[a] = "none"
  BY <1>1, AgentFacts, AgentOf DEF PassThreads
<1>3. Moves(a, "mark") /\ won' = won /\ \A p \in Ops : Held(p)' <=> Held(p)
  BY <1>1, <1>2, GotoMoves
<1>4. op[o].life = "started" /\ ~Resuming(o) /\ ~Held(o)
  BY <1>1 DEF PassOnePlace
<1>5. SharedInv'
  <2>1. op' \in [Ops -> Operation] /\ SameStage
    BY <1>1 DEF SharedType, SameStage
  <2> QED BY <1>2, <1>4, <2>1, GotoShared DEF Pcs
<1>6. PassThreads'
  BY <1>1, <1>2, <1>3, AgentFacts, AgentsDiffer DEF PassThreads, Moves
<1>7. \A p \in Ops : SameFields(p) /\ op'[p].signals = op[p].signals
  BY DEF SameFields
<1>8. \A b \in Agents : Resumes(b)' <=> Resumes(b)
  BY <1>2, <1>3 DEF Resumes, Moves
<1>9. /\ \A b \in Agents, p \in Ops : ResumedBy(b, p)' <=> ResumedBy(b, p)
      /\ \A p \in Ops : Resuming(p)' <=> Resuming(p)
  BY <1>7, <1>8, ResumesSame DEF SameFields
<1>10. ctx' \in [state_ : Whom] /\ ctx'.state_ = <<o>>
  BY <1>1, WhomFacts DEF PassType
<1>11. PassType' /\ PassLocals'
  BY <1>1, <1>8, <1>10 DEF PassType, PassLocals
<1>12. \A p \in Ops : at'[Starter(p)] = "nested" <=> p # o /\ at[Starter(p)] = "nested"
  BY <1>2, <1>3, AgentFacts, AgentsDiffer DEF Moves
<1>13. \A p \in Ops : (ctx'.state_ = <<p>> <=> p = o) /\ ctx.state_ # <<p>>
  BY <1>10, WhomFacts
<1>14. op' = op
  OBVIOUS
<1>15. PassOnePlace'
  BY <1>1, <1>3, <1>4, <1>9, <1>12, <1>13, <1>14 DEF PassOnePlace
<1>16. PassPartners'
  BY <1>1, <1>3, <1>4, <1>9, <1>12, <1>13, <1>14 DEF PassPartners
<1>17. ~HopStops => Pass!Paired'
  BY <1>1, <1>7, PairedStays DEF SameFields
<1> QED BY <1>5, <1>6, <1>11, <1>15, <1>16, <1>17 DEF PassInv

(* Two that have met nobody meet.                                          *)
LEMMA PairedMeets ==
  ASSUME Pass!Paired, SharedType, NEW c \in Ops, NEW x \in Ops, c # x,
         op[c].partner = <<>>, op[x].partner = <<>>, op'[c].partner = <<x>>, op'[x].partner = <<c>>,
         \A p \in Ops : op'[p].kind = op[p].kind,
         \A p \in Ops \ {c, x} : op'[p].signals = op[p].signals /\ op'[p].partner = op[p].partner,
         \A p \in {c, x} : /\ op'[p].signals \in {<<>>, <<"value">>, <<"error">>}
                           /\ op'[p].kind \in Pass!Callers => op'[p].signals \in {<<>>, <<"value">>}
  PROVE  Pass!Paired'
<1>1. \A p \in Ops : op[p].partner \in Whom
  BY DEF SharedType, Operation
<1>2. \A p \in Ops \ {c, x} : op[p].partner # <<>> => op[p].partner[1] \in Ops \ {c, x}
  BY <1>1, WhomFacts DEF Pass!Paired
<1>3. \A p \in Ops : op'[p].partner # <<>> => op'[op'[p].partner[1]].partner = <<p>>
  <2> TAKE p \in Ops
  <2>1. CASE p \in {c, x}
    BY <2>1, WhomFacts
  <2>2. CASE p \notin {c, x}
    BY <2>2, <1>2 DEF Pass!Paired
  <2> QED BY <2>1, <2>2
<1>4. \A p \in Ops : op'[p].signals # <<>> => (op'[p].signals = <<"done">> <=> op'[p].partner = <<>>)
  <2> TAKE p \in Ops
  <2>1. CASE p \in {c, x}
    <3>1. op'[p].partner # <<>>
      BY <2>1, WhomFacts
    <3>2. op'[p].signals # <<"done">>
      BY <2>1
    <3> QED BY <3>1, <3>2
  <2>2. CASE p \notin {c, x}
    BY <2>2 DEF Pass!Paired
  <2> QED BY <2>1, <2>2
<1>5. \A p \in Ops : op'[p].signals # <<>> /\ op'[p].partner # <<>> /\ op'[p].kind \in Pass!Callers =>
                       op'[p].signals = <<"value">>
  BY DEF Pass!Paired
<1> QED BY <1>3, <1>4, <1>5 DEF Pass!Paired

(* What the two know of each other then.                                   *)
Same(r, s) ==
  /\ s.life = r.life /\ s.signals = r.signals /\ s.cb = r.cb /\ s.bits = r.bits
  /\ s.kind = r.kind /\ s.cancelled = r.cancelled
Outcomes == {"value", "error"}
Mated(r, mate) == [r EXCEPT !.partner = mate]
Served(r, mate, result) == [r EXCEPT !.partner = mate, !.result = result]
LEMMA MatedFields ==
  ASSUME NEW r \in Operation, NEW mate \in Whom
  PROVE  /\ Mated(r, mate) \in Operation /\ Same(r, Mated(r, mate))
         /\ Mated(r, mate).partner = mate /\ Mated(r, mate).result = r.result
BY DEF Operation, Same, Mated
LEMMA ServedFields ==
  ASSUME NEW r \in Operation, NEW mate \in Whom, NEW given \in Outcomes
  PROVE  /\ Served(r, mate, given) \in Operation /\ Same(r, Served(r, mate, given))
         /\ Served(r, mate, given).partner = mate /\ Served(r, mate, given).result = given
BY DEF Operation, Same, Served, Outcomes

Met(c, x, result) ==
  /\ op' \in [Ops -> Operation]
  /\ \A p \in Ops : /\ op'[p].life = op[p].life /\ op'[p].signals = op[p].signals
                    /\ op'[p].cb = op[p].cb /\ op'[p].bits = op[p].bits
                    /\ op'[p].kind = op[p].kind /\ op'[p].cancelled = op[p].cancelled
                    /\ p \notin {c, x} => op'[p].partner = op[p].partner
                    /\ p # x => op'[p].result = op[p].result
  /\ op'[c].partner = <<x>> /\ op'[x].partner = <<c>> /\ op'[x].result = result
LEMMA MeetStep ==
  ASSUME SharedType, NEW c \in Ops, NEW x \in Ops, c # x, NEW result \in {"value", "error"},
         Pass!Meet(c, x, result)
  PROVE  Met(c, x, result) /\ ctx' = [ctx EXCEPT !.state_ = <<>>]
<1> DEFINE mate == <<x>>
           back == <<c>>
           C == Mated(op[c], mate)
           X == Served(op[x], back, result)
<1>1. op[c] \in Operation /\ op[x] \in Operation /\ mate \in Whom /\ back \in Whom
  BY WhomFacts DEF SharedType
<1>2. op' = [op EXCEPT ![c].partner = mate, ![x].partner = back, ![x].result = result]
  BY DEF Pass!Meet
<1> HIDE DEF mate, back
<1>3. \A p \in Ops : op'[p] = IF p = c THEN C ELSE IF p = x THEN X ELSE op[p]
  BY <1>2 DEF SharedType, Mated, Served
<1>4. DOMAIN op' = Ops /\ op' = [p \in Ops |-> op'[p]]
  BY <1>2 DEF SharedType
<1>5. C \in Operation /\ Same(op[c], C) /\ C.partner = mate /\ C.result = op[c].result
  BY <1>1, MatedFields
<1>6. X \in Operation /\ Same(op[x], X) /\ X.partner = back /\ X.result = result
  <2>1. result \in Outcomes
    BY DEF Outcomes
  <2> QED BY <1>1, <2>1, ServedFields
<1> HIDE DEF C, X
<1>7. op'[c] = C /\ op'[x] = X /\ \A p \in Ops : p \notin {c, x} => op'[p] = op[p]
  BY <1>3
<1>8. op' \in [Ops -> Operation]
  <2>1. \A p \in Ops : op'[p] \in Operation
    BY <1>3, <1>5, <1>6 DEF SharedType
  <2> QED BY <1>4, <2>1
<1>9. \A p \in Ops : /\ op'[p].life = op[p].life /\ op'[p].signals = op[p].signals
                     /\ op'[p].cb = op[p].cb /\ op'[p].bits = op[p].bits
                     /\ op'[p].kind = op[p].kind /\ op'[p].cancelled = op[p].cancelled
                     /\ p \notin {c, x} => op'[p].partner = op[p].partner
                     /\ p # x => op'[p].result = op[p].result
  <2> TAKE p \in Ops
  <2> QED BY <1>5, <1>6, <1>7 DEF Same
<1>10. op'[c].partner = <<x>> /\ op'[x].partner = <<c>> /\ op'[x].result = result
  BY <1>5, <1>6, <1>7 DEF mate, back
<1> QED BY <1>8, <1>9, <1>10 DEF Met, Pass!Meet

LEMMA PassMeets ==
  ASSUME SharedInv, PassInv, NEW o \in Ops, NEW w \in Ops, NEW c \in Ops, NEW x \in Ops,
         NEW result \in {"value", "error"},
         at[Starter(o)] = "nested", ctx.state_ = <<w>>,
         \/ c = o /\ x = w /\ local' = local
         \/ c = w /\ x = o /\ local' = [local EXCEPT ![Starter(o)] = <<w>>],
         op[c].kind \in Pass!Callers, op[x].kind = "async_accept",
         Met(c, x, result),
         ctx' = [ctx EXCEPT !.state_ = <<>>],
         CompleteThen(Starter(o), x, "resume", "resume"), which' = which
  PROVE  SharedInv' /\ PassInv'
<1> DEFINE a == Starter(o)
<1>1. /\ SharedType /\ HandsInv /\ LifeInv /\ PassType /\ PassThreads /\ PassLocals /\ PassOnePlace /\ PassPartners
      /\ (~HopStops => Pass!Paired)
  BY PassParts
<1>2. a \in Agents /\ a[1] = o /\ won[a] = "none" /\ whom[a] = <<>> /\ c # x
  BY <1>1, AgentFacts, AgentOf DEF PassThreads, HandsInv, Pass!Callers
<1>3. /\ op[w].life = "started" /\ ~Held(w) /\ ~Resuming(w) /\ at[Starter(w)] # "nested"
      /\ op[o].life = "started" /\ ~Held(o) /\ ~Resuming(o) /\ ctx.state_ # <<o>>
  BY <1>1 DEF PassOnePlace
<1>4. op[w].partner = <<>> /\ ~op[w].cancelled /\ op[o].partner = <<>> /\ ~op[o].cancelled
  BY <1>1 DEF PassPartners
<1>9. op' \in [Ops -> Operation]
  BY DEF Met
<1>10. /\ \A p \in Ops : /\ op'[p].life = op[p].life /\ op'[p].signals = op[p].signals
                         /\ op'[p].cb = op[p].cb /\ op'[p].bits = op[p].bits
                         /\ op'[p].kind = op[p].kind /\ op'[p].cancelled = op[p].cancelled
                         /\ p \notin {c, x} => op'[p].partner = op[p].partner
                         /\ p # x => op'[p].result = op[p].result
       /\ op'[c].partner = <<x>> /\ op'[x].partner = <<c>>
  BY DEF Met
<1>11. x \in {o, w} /\ c \in {o, w} /\ ~Held(x) /\ op[x].life = "started"
  BY <1>3
<1>12. SharedInv'
  <2>1. "resume" \in Pcs
    BY DEF Pcs
  <2>2. op'[a[1]].life # "idle"
    BY <1>2, <1>3, <1>10
  <2>3. at[a] \notin {"try", "cleanup"} /\ at[a] # "none"
    OBVIOUS
  <2>4. \A p \in Ops : /\ op'[p].bits = op[p].bits /\ op'[p].cb = op[p].cb
                       /\ op'[p].life = op[p].life /\ op'[p].signals = op[p].signals
    BY <1>10
  <2> QED BY <1>2, <1>9, <1>11, <2>1, <2>2, <2>3, <2>4, CompleteShared
<1>13. /\ Moves(a, "try") /\ \A b \in Agents : won'[b] = IF b = a THEN "resume" ELSE won[b]
       /\ \A p \in Ops : Held(p)' <=> p = x \/ Held(p)
  BY <1>1, <1>2, CompleteMoves
<1>14. PassThreads'
  BY <1>1, <1>2, <1>13, AgentFacts, AgentsDiffer DEF PassThreads, Moves
<1>15. ctx' \in [state_ : Whom] /\ ctx'.state_ = <<>>
  BY <1>1, WhomFacts DEF PassType
<1>16. local' \in [Agents -> Whom] /\ \A b \in Agents : b # a => local'[b] = local[b]
  BY <1>1, WhomFacts DEF PassType
<1>17. \A b \in Agents : Resumes(b)' <=> b = a \/ Resumes(b)
  BY <1>2, <1>13 DEF Resumes, Moves
<1>18. ~Resumes(a)
  BY <1>2 DEF Resumes
<1>19. \A b \in Agents : op'[b[1]].kind = op[b[1]].kind
  BY <1>10, AgentFacts
<1>20. /\ op[o].kind = "async_accept" => c = w /\ local'[a] = <<w>>
       /\ op[o].kind # "async_accept" => c = o
  BY <1>1, <1>2 DEF PassType, Pass!Callers
<1>21. Pass!Resumed(a)' = c
  BY <1>2, <1>19, <1>20, WhomFacts DEF Pass!Resumed
<1>22. \A b \in Agents : b # a => Pass!Resumed(b)' = Pass!Resumed(b)
  BY <1>16, <1>19 DEF Pass!Resumed
<1>23. PassType' /\ PassLocals'
  <2>1. PassType'
    BY <1>15, <1>16 DEF PassType
  <2>2. PassLocals'
    BY <1>1, <1>2, <1>16, <1>17, <1>19, <1>20, WhomFacts DEF PassLocals
  <2> QED BY <2>1, <2>2
<1>24. \A b \in Agents, p \in Ops : ResumedBy(b, p)' <=> IF b = a THEN p = c ELSE ResumedBy(b, p)
  BY <1>17, <1>18, <1>21, <1>22 DEF ResumedBy
<1>25. \A p \in Ops : Resuming(p)' <=> p = c \/ Resuming(p)
  <2>1. \A p \in Ops : ~ResumedBy(a, p)
    BY <1>18 DEF ResumedBy
  <2> QED BY <1>2, <1>24, <2>1 DEF Resuming
<1>26. \A p \in Ops : at'[Starter(p)] = "nested" <=> p # o /\ at[Starter(p)] = "nested"
  BY <1>2, <1>13, AgentFacts, AgentsDiffer DEF Moves
<1>27. \A p \in Ops : ctx'.state_ # <<p>> /\ (ctx.state_ = <<p>> <=> p = w)
  BY <1>15, WhomFacts
<1>28. /\ \A p \in Ops : p = o \/ p = w <=> p = c \/ p = x
       /\ op[c].life = "started" /\ ~Held(c) /\ ~Resuming(c) /\ ~Resuming(x)
  BY <1>3
<1>29. PassOnePlace'
  <2>1. \A p \in Ops : \A b, d \in Agents : ResumedBy(b, p)' /\ ResumedBy(d, p)' => b = d
    BY <1>1, <1>24, <1>28 DEF PassOnePlace, Resuming
  <2>2. \A p \in Ops : op'[p].life = "started" <=> Resuming(p)' \/ Held(p)' \/ at'[Starter(p)] = "nested"
    BY <1>1, <1>3, <1>10, <1>11, <1>13, <1>25, <1>26, <1>27, <1>28 DEF PassOnePlace
  <2>3. \A p \in Ops : ~(Resuming(p)' /\ Held(p)')
    BY <1>1, <1>2, <1>11, <1>13, <1>25, <1>28 DEF PassOnePlace
  <2>4. \A p \in Ops : at'[Starter(p)] = "nested" => ~Resuming(p)' /\ ~Held(p)'
    BY <1>1, <1>3, <1>13, <1>25, <1>26, <1>28 DEF PassOnePlace
  <2> QED BY <1>27, <2>1, <2>2, <2>3, <2>4 DEF PassOnePlace
<1>30. op'[c].partner # <<>> /\ op'[x].partner # <<>> /\ ~op[c].cancelled /\ ~op[x].cancelled
  BY <1>4, <1>10, WhomFacts
<1>31. PassPartners'
  <2>1. \A p \in Ops : op'[p].kind \notin {"wait", "async_lock", "try_lock"}
    BY <1>1, <1>10 DEF PassPartners
  <2>2. \A p \in Ops : op'[p].life = "idle" \/ ctx'.state_ = <<p>> \/ at'[Starter(p)] = "nested" =>
                         op'[p].partner = <<>> /\ ~op'[p].cancelled
    BY <1>1, <1>3, <1>10, <1>11, <1>26, <1>27, <1>28 DEF PassPartners
  <2>3. \A p \in Ops : op'[p].life = "hopping" \/ Resuming(p)' \/ Held(p)' =>
                         (op'[p].cancelled <=> op'[p].partner = <<>>)
    BY <1>1, <1>10, <1>13, <1>25, <1>30 DEF PassPartners
  <2>4. \A p \in Ops : op'[p].kind \in Pass!Callers => op'[p].result = "value"
    <3>1. x \in Ops /\ op[x].kind \notin Pass!Callers
      BY DEF Pass!Callers
    <3> QED BY <1>1, <1>10, <3>1 DEF PassPartners
  <2> QED BY <1>27, <2>1, <2>2, <2>3, <2>4 DEF PassPartners
<1>32. ~HopStops => Pass!Paired'
  <2>1. op[c].partner = <<>> /\ op[x].partner = <<>> /\ op'[c].partner = <<x>> /\ op'[x].partner = <<c>>
    BY <1>4, <1>10
  <2>2. /\ \A p \in Ops : op'[p].kind = op[p].kind
        /\ \A p \in Ops \ {c, x} : op'[p].signals = op[p].signals /\ op'[p].partner = op[p].partner
    BY <1>10
  <2>3. \A p \in {c, x} : op'[p].signals = <<>>
    BY <1>1, <1>3, <1>10, <1>11, <1>28 DEF LifeInv
  <2> QED BY <1>1, <1>2, <2>1, <2>2, <2>3, PairedMeets
<1> QED BY <1>12, <1>14, <1>23, <1>29, <1>31, <1>32 DEF PassInv

-----------------------------------------------------------------------------
(* async_pass: the calls that meet somebody, and the end of a meeting.     *)
LEMMA PassCall ==
  ASSUME SharedInv, PassInv, NEW o \in Ops, Pass!call_or_suspend(o)
  PROVE  SharedInv' /\ PassInv'
<1> DEFINE a == Starter(o)
<1>1. at[a] = "nested" /\ op[o].kind \in Pass!Callers /\ ~Pass!is_caller(ctx.state_) /\ which' = which
  BY DEF Pass!call_or_suspend, Starter
<1>2. CASE Pass!is_acceptor(ctx.state_)
  <2> DEFINE w == ctx.state_[1]
  <2>1. w \in Ops /\ ctx.state_ = <<w>> /\ op[w].kind = "async_accept"
    BY <1>2, WordFacts DEF Pass!is_acceptor
  <2>2. PICK result \in Pass!Results(o) : Pass!Meet(o, w, result)
    BY <1>2 DEF Pass!call_or_suspend
  <2>3. result \in {"value", "error"}
    BY DEF Pass!Results
  <2>4. CompleteThen(a, w, "resume", "resume") /\ local' = local
    BY <1>2 DEF Pass!call_or_suspend, Pass!CompleteThen, CompleteThen, Starter
  <2> HIDE DEF w
  <2>5. o # w
    BY <1>1, <2>1 DEF Pass!Callers
  <2>6. Met(o, w, result) /\ ctx' = [ctx EXCEPT !.state_ = <<>>]
    BY <2>1, <2>2, <2>3, <2>5, MeetStep DEF SharedInv
  <2> QED BY <1>1, <2>1, <2>3, <2>4, <2>6, PassMeets
<1>3. CASE ~Pass!is_acceptor(ctx.state_)
  <2>1. ctx.state_ = <<>>
    BY <1>1, <1>3, WordFacts
  <2>2. ctx' = [ctx EXCEPT !.state_ = <<o>>] /\ Goto(a, "mark") /\ UNCHANGED <<which, op, local>>
    BY <1>3 DEF Pass!call_or_suspend, Pass!Suspend, Pass!Goto, Goto, Starter
  <2>3. op[o].kind \notin Pass!Tries
    BY <1>1 DEF Pass!Callers, Pass!Tries
  <2> QED BY <1>1, <2>1, <2>2, <2>3, PassSuspend
<1> QED BY <1>2, <1>3

LEMMA PassAccept ==
  ASSUME SharedInv, PassInv, NEW o \in Ops, Pass!accept_or_suspend(o)
  PROVE  SharedInv' /\ PassInv'
<1> DEFINE a == Starter(o)
<1>1. at[a] = "nested" /\ op[o].kind = "async_accept" /\ ~Pass!is_acceptor(ctx.state_) /\ which' = which
  BY DEF Pass!accept_or_suspend, Starter
<1>2. CASE Pass!is_caller(ctx.state_)
  <2> DEFINE w == ctx.state_[1]
  <2>1. w \in Ops /\ ctx.state_ = <<w>> /\ op[w].kind \in Pass!Callers
    BY <1>2, WordFacts DEF Pass!is_caller
  <2>2. PICK result \in Pass!Results(w) : Pass!Meet(w, o, result)
    BY <1>2 DEF Pass!accept_or_suspend
  <2>3. result \in {"value", "error"}
    BY DEF Pass!Results
  <2>4. CompleteThen(a, o, "resume", "resume") /\ local' = [local EXCEPT ![a] = <<w>>]
    BY <1>2, <2>1 DEF Pass!accept_or_suspend, Pass!CompleteThen, CompleteThen, Starter
  <2> HIDE DEF w
  <2>5. w # o
    BY <1>1, <2>1 DEF Pass!Callers
  <2>6. Met(w, o, result) /\ ctx' = [ctx EXCEPT !.state_ = <<>>]
    BY <2>1, <2>2, <2>3, <2>5, MeetStep DEF SharedInv
  <2> QED BY <1>1, <2>1, <2>3, <2>4, <2>6, PassMeets
<1>3. CASE ~Pass!is_caller(ctx.state_)
  <2>1. ctx.state_ = <<>>
    BY <1>1, <1>3, WordFacts
  <2>2. ctx' = [ctx EXCEPT !.state_ = <<o>>] /\ Goto(a, "mark") /\ UNCHANGED <<which, op, local>>
    BY <1>3 DEF Pass!accept_or_suspend, Pass!Suspend, Pass!Goto, Goto, Starter
  <2>3. op[o].kind \notin Pass!Tries
    BY <1>1 DEF Pass!Tries
  <2> QED BY <1>1, <2>1, <2>2, <2>3, PassSuspend
<1> QED BY <1>2, <1>3

LEMMA PassResume ==
  ASSUME SharedInv, PassInv, NEW o \in Ops, Pass!resume_(o)
  PROVE  SharedInv' /\ PassInv'
<1> DEFINE a == Starter(o)
           w == Pass!Resumed(a)
<1>1. /\ SharedType /\ HandsInv /\ LifeInv /\ PassType /\ PassThreads /\ PassLocals /\ PassOnePlace /\ PassPartners
      /\ (~HopStops => Pass!Paired)
  BY PassParts
<1>2. /\ at[a] = "resume" /\ CompleteThen(a, w, "mark", "mark")
      /\ local' = [local EXCEPT ![a] = <<>>] /\ UNCHANGED <<which, op, ctx>>
  BY DEF Pass!resume_, Pass!CompleteThen, CompleteThen, Starter
<1>3. a \in Agents /\ a[1] = o /\ won[a] = "none" /\ Resumes(a) /\ whom[a] = <<>>
  BY <1>1, <1>2, AgentFacts, AgentOf DEF PassThreads, Resumes, HandsInv
<1>4. w \in Ops
  <2>1. op[o].kind = "async_accept" => local[a][1] \in Ops
    BY <1>1, <1>3, WhomFacts DEF PassLocals, PassType
  <2> QED BY <1>3, <2>1 DEF Pass!Resumed
<1>5. ResumedBy(a, w) /\ \A p \in Ops : ResumedBy(a, p) => p = w
  BY <1>3 DEF ResumedBy
<1> HIDE DEF w
<1>6. Resuming(w) /\ \A b \in Agents : ResumedBy(b, w) => b = a
  BY <1>1, <1>3, <1>4, <1>5 DEF PassOnePlace, Resuming
<1>7. op[w].life = "started" /\ ~Held(w) /\ ctx.state_ # <<w>> /\ at[Starter(w)] # "nested"
  BY <1>1, <1>4, <1>6 DEF PassOnePlace
<1>8. /\ Moves(a, "try") /\ \A b \in Agents : won'[b] = IF b = a THEN "mark" ELSE won[b]
      /\ \A p \in Ops : Held(p)' <=> p = w \/ Held(p)
  BY <1>1, <1>2, <1>3, <1>4, CompleteMoves
<1>9. SharedInv'
  <2>1. "mark" \in Pcs
    BY DEF Pcs
  <2>2. op'[a[1]].life # "idle"
    BY <1>1, <1>2, <1>3 DEF LifeInv
  <2>3. op' \in [Ops -> Operation] /\ which' = which
    BY <1>1, <1>2 DEF SharedType
  <2>4. \A p \in Ops : /\ op'[p].bits = op[p].bits /\ op'[p].cb = op[p].cb
                       /\ op'[p].life = op[p].life /\ op'[p].signals = op[p].signals
    BY <1>2
  <2> QED BY <1>2, <1>3, <1>4, <1>7, <2>1, <2>2, <2>3, <2>4, CompleteShared
<1>10. PassThreads'
  BY <1>1, <1>3, <1>8, AgentFacts, AgentsDiffer DEF PassThreads, Moves
<1>11. \A b \in Agents : Resumes(b)' <=> b # a /\ Resumes(b)
  BY <1>3, <1>8 DEF Resumes, Moves
<1>12. local' \in [Agents -> Whom] /\ \A b \in Agents : b # a => local'[b] = local[b]
  BY <1>1, <1>2, WhomFacts DEF PassType
<1>13. PassType' /\ PassLocals'
  BY <1>1, <1>2, <1>11, <1>12 DEF PassType, PassLocals
<1>14. \A b \in Agents, p \in Ops : ResumedBy(b, p)' <=> b # a /\ ResumedBy(b, p)
  <2>1. \A b \in Agents : b # a => Pass!Resumed(b)' = Pass!Resumed(b)
    BY <1>2, <1>12 DEF Pass!Resumed
  <2> QED BY <1>11, <2>1 DEF ResumedBy
<1>15. \A p \in Ops : Resuming(p)' <=> p # w /\ Resuming(p)
  BY <1>5, <1>6, <1>14 DEF Resuming
<1>16. \A p \in Ops : at'[Starter(p)] = "nested" <=> at[Starter(p)] = "nested"
  BY <1>2, <1>8, AgentFacts DEF Moves
<1>17. op' = op /\ ctx' = ctx
  BY <1>2
<1>18. PassOnePlace'
  <2>1. \A p \in Ops : \A b, d \in Agents : ResumedBy(b, p)' /\ ResumedBy(d, p)' => b = d
    BY <1>1, <1>14 DEF PassOnePlace
  <2> QED BY <1>1, <1>4, <1>6, <1>7, <1>8, <1>15, <1>16, <1>17, <2>1 DEF PassOnePlace
<1>19. PassPartners'
  <2>1. \A p \in Ops : Resuming(p)' \/ Held(p)' <=> Resuming(p) \/ Held(p)
    BY <1>4, <1>6, <1>8, <1>15
  <2> QED BY <1>1, <1>16, <1>17, <2>1 DEF PassPartners
<1>20. ~HopStops => Pass!Paired'
  BY <1>1, <1>17, PairedStays
<1> QED BY <1>9, <1>10, <1>13, <1>18, <1>19, <1>20 DEF PassInv

-----------------------------------------------------------------------------
(* async_pass: the calls that never wait.                                  *)
LEMMA PassLeaves ==
  ASSUME SharedInv, PassInv, NEW o \in Ops, Pass!try(o), ~Pass!Found(o)
  PROVE  SharedInv' /\ PassInv'
<1>1. /\ SharedType /\ HandsInv /\ LifeInv /\ PassType /\ PassThreads /\ PassLocals /\ PassOnePlace /\ PassPartners
      /\ (~HopStops => Pass!Paired)
  BY PassParts
<1> DEFINE x == <<"done">>
           D == [op[o] EXCEPT !.life = "completed", !.signals = x]
<1>2. op[o].life = "idle" /\ UNCHANGED <<ctx, threads, which, local>>
  BY DEF Pass!try, Pass!threads, threads
<1>3. at' = at /\ whom' = whom /\ won' = won
  BY <1>2 DEF threads
<1>4. op[o] \in Operation
  BY <1>1 DEF SharedType
<1>5. x \in {<<>>, <<"value">>, <<"done">>, <<"error">>} /\ x # <<>> /\ x = <<"done">>
  OBVIOUS
<1>6. op' = [op EXCEPT ![o] = D]
  BY DEF Pass!try
<1> HIDE DEF x
<1>7. D \in Operation
  BY <1>4, <1>5 DEF Operation
<1>8. op' \in [Ops -> Operation] /\ \A p \in Ops : op'[p] = IF p = o THEN D ELSE op[p]
  <2> HIDE DEF D
  <2> QED BY <1>1, <1>6, <1>7 DEF SharedType
<1>9. \A p \in Ops : /\ op'[p].life = IF p = o THEN "completed" ELSE op[p].life
                     /\ op'[p].signals = IF p = o THEN x ELSE op[p].signals
                     /\ op'[p].cb = op[p].cb /\ op'[p].bits = op[p].bits /\ SameFields(p)
  <2> TAKE p \in Ops
  <2>1. op'[p] = IF p = o THEN D ELSE op[p]
    BY <1>8
  <2>2. op'[p].life = IF p = o THEN "completed" ELSE op[p].life
    BY <1>4, <2>1 DEF Operation
  <2>3. op'[p].signals = IF p = o THEN x ELSE op[p].signals
    BY <1>4, <2>1 DEF Operation
  <2>4. op'[p].cb = op[p].cb /\ op'[p].bits = op[p].bits /\ SameFields(p)
    BY <1>4, <2>1 DEF Operation, SameFields
  <2> QED BY <2>2, <2>3, <2>4
<1>10. SharedInv' /\ \A p \in Ops : Held(p)' <=> Held(p)
  BY <1>2, <1>5, <1>8, <1>9, AtOnceShared
<1>11. \A b \in Agents : Resumes(b)' <=> Resumes(b)
  BY <1>3 DEF Resumes
<1>12. /\ \A b \in Agents, p \in Ops : ResumedBy(b, p)' <=> ResumedBy(b, p)
       /\ \A p \in Ops : Resuming(p)' <=> Resuming(p)
  BY <1>2, <1>9, <1>11, ResumesSame DEF SameFields
<1>13. PassType' /\ PassThreads' /\ PassLocals'
  <2>1. PassType' /\ PassThreads'
    BY <1>1, <1>2, <1>3 DEF PassType, PassThreads
  <2>2. \A b \in Agents : op'[b[1]].kind = op[b[1]].kind
    BY <1>9, AgentFacts DEF SameFields
  <2>3. PassLocals'
    BY <1>1, <1>2, <1>11, <2>2 DEF PassLocals
  <2> QED BY <2>1, <2>3
<1>14. ctx.state_ # <<o>> /\ ~Resuming(o) /\ ~Held(o) /\ at[Starter(o)] # "nested"
  BY <1>1, <1>2 DEF PassOnePlace
<1>15. ctx' = ctx
  BY <1>2
<1>16. PassOnePlace'
  BY <1>1, <1>2, <1>3, <1>9, <1>10, <1>12, <1>14, <1>15 DEF PassOnePlace
<1>17. PassPartners'
  BY <1>1, <1>2, <1>3, <1>9, <1>10, <1>12, <1>14, <1>15 DEF PassPartners, SameFields
<1>18. ~HopStops => Pass!Paired'
  <2>1. op[o].partner = <<>>
    BY <1>1, <1>2 DEF PassPartners
  <2>2. \A p \in Ops : op[p].partner \in Whom
    BY <1>1 DEF SharedType, Operation
  <2>3. \A p \in Ops : op[p].partner # <<>> => op[p].partner[1] \in Ops
    BY <2>2, WhomFacts
  <2> QED BY <1>1, <1>5, <1>9, <2>1, <2>3 DEF Pass!Paired, SameFields
<1> QED BY <1>10, <1>13, <1>16, <1>17, <1>18 DEF PassInv

(* It completes at once, and then the other that it found.                 *)
Tried(o, w, x) ==
  /\ op' \in [Ops -> Operation]
  /\ \A p \in Ops : /\ op'[p].cb = op[p].cb /\ op'[p].bits = op[p].bits
                    /\ op'[p].kind = op[p].kind /\ op'[p].cancelled = op[p].cancelled
                    /\ p # o => op'[p].life = op[p].life /\ op'[p].signals = op[p].signals
                    /\ p \notin {o, w} => op'[p].partner = op[p].partner
                    /\ p # x => op'[p].result = op[p].result
  /\ op'[o].life = "completed" /\ op'[o].signals \in {<<"value">>, <<"error">>}
  /\ op'[o].partner = <<w>> /\ op'[w].partner = <<o>>
Ended(r, signals, mate) == [r EXCEPT !.life = "completed", !.signals = signals, !.partner = mate]
EndedWith(r, signals, mate, result) ==
  [r EXCEPT !.life = "completed", !.signals = signals, !.partner = mate, !.result = result]
SameBut(r, s) ==
  /\ s.cb = r.cb /\ s.bits = r.bits /\ s.kind = r.kind /\ s.cancelled = r.cancelled
Signals == {<<"value">>, <<"error">>}
LEMMA EndedFields ==
  ASSUME NEW r \in Operation, NEW signals \in Signals, NEW mate \in Whom, NEW result \in Outcomes
  PROVE  /\ Ended(r, signals, mate) \in Operation /\ SameBut(r, Ended(r, signals, mate))
         /\ Ended(r, signals, mate).life = "completed" /\ Ended(r, signals, mate).signals = signals
         /\ Ended(r, signals, mate).partner = mate /\ Ended(r, signals, mate).result = r.result
         /\ EndedWith(r, signals, mate, result) \in Operation /\ SameBut(r, EndedWith(r, signals, mate, result))
         /\ EndedWith(r, signals, mate, result).life = "completed"
         /\ EndedWith(r, signals, mate, result).signals = signals
         /\ EndedWith(r, signals, mate, result).partner = mate
<1>1. signals \in {<<>>, <<"value">>, <<"done">>, <<"error">>}
  BY DEF Signals
<1>2. Ended(r, signals, mate) \in Operation /\ EndedWith(r, signals, mate, result) \in Operation
  BY <1>1 DEF Operation, Ended, EndedWith, Outcomes
<1>3. /\ SameBut(r, Ended(r, signals, mate))
      /\ Ended(r, signals, mate).life = "completed" /\ Ended(r, signals, mate).signals = signals
      /\ Ended(r, signals, mate).partner = mate /\ Ended(r, signals, mate).result = r.result
  BY DEF Operation, Ended, SameBut
<1>4. /\ SameBut(r, EndedWith(r, signals, mate, result))
      /\ EndedWith(r, signals, mate, result).life = "completed"
      /\ EndedWith(r, signals, mate, result).signals = signals
      /\ EndedWith(r, signals, mate, result).partner = mate
  BY DEF Operation, EndedWith, SameBut
<1> QED BY <1>2, <1>3, <1>4

LEMMA TryFinds ==
  ASSUME SharedInv, PassInv, NEW o \in Ops, Pass!try(o), Pass!Found(o)
  PROVE  \E w \in Ops, x \in Ops :
           /\ ctx.state_ = <<w>> /\ w # o /\ x \in {o, w} /\ Tried(o, w, x) /\ op[x].kind \notin Pass!Callers
           /\ CompleteThen(Starter(o), w, "returned", "returned")
           /\ ctx' = [ctx EXCEPT !.state_ = <<>>] /\ UNCHANGED <<which, local>>
<1> DEFINE w == ctx.state_[1]
<1>1. SharedType /\ LifeInv
  BY DEF SharedInv
<1>2. ctx.state_ # <<>> /\ op[o].kind \in Pass!Tries /\ op[o].life = "idle"
  BY DEF Pass!Found, Pass!is_caller, Pass!is_acceptor, Pass!try
<1>3. /\ w \in Ops /\ ctx.state_ = <<w>> /\ op[w].life = "started"
      /\ op[o].kind # "try_accept" => op[w].kind = "async_accept"
  BY <1>2, WordFacts DEF Pass!Found
<1>4. w # o
  BY <1>2, <1>3
<1>5. /\ CompleteThen(Starter(o), w, "returned", "returned")
      /\ ctx' = [ctx EXCEPT !.state_ = <<>>] /\ UNCHANGED <<which, local>>
  BY DEF Pass!try, Pass!CompleteThen, CompleteThen, Starter
<1>6. op[o].kind \notin Pass!Callers /\ (op[o].kind # "try_accept" => op[w].kind \notin Pass!Callers)
  BY <1>2, <1>3 DEF Pass!Tries, Pass!Callers
<1>7. CASE op[o].kind = "try_accept"
  <2>1. PICK result \in Outcomes :
          op' = [op EXCEPT ![o].life = "completed", ![o].signals = <<result>>, ![o].partner = <<w>>,
                           ![w].partner = <<o>>, ![o].result = result]
    BY <1>7 DEF Pass!try, Pass!Results, Outcomes
  <2> DEFINE signals == <<result>>
             mate == <<w>>
             back == <<o>>
             O == EndedWith(op[o], signals, mate, result)
             W == Mated(op[w], back)
  <2>2. /\ mate \in Whom /\ back \in Whom /\ signals \in Signals /\ op[o] \in Operation /\ op[w] \in Operation
    BY <1>1, <1>3, WhomFacts DEF Signals, SharedType, Outcomes
  <2>3. op' = [op EXCEPT ![o].life = "completed", ![o].signals = signals, ![o].partner = mate,
                         ![w].partner = back, ![o].result = result]
    BY <2>1
  <2> HIDE DEF w, signals, mate, back
  <2>4. \A p \in Ops : op'[p] = IF p = o THEN O ELSE IF p = w THEN W ELSE op[p]
    BY <1>1, <1>3, <1>4, <2>3 DEF SharedType, EndedWith, Mated
  <2>5. DOMAIN op' = Ops /\ op' = [p \in Ops |-> op'[p]]
    BY <1>1, <2>3 DEF SharedType
  <2>6. O \in Operation /\ SameBut(op[o], O) /\ O.life = "completed" /\ O.signals = signals /\ O.partner = mate
    BY <2>2, EndedFields
  <2>7. W \in Operation /\ Same(op[w], W) /\ W.partner = back /\ W.result = op[w].result
    BY <2>2, MatedFields
  <2> HIDE DEF O, W
  <2>8. Tried(o, w, o)
    <3>1. op'[o] = O /\ op'[w] = W /\ \A p \in Ops : p \notin {o, w} => op'[p] = op[p]
      BY <1>3, <1>4, <2>4
    <3>2. op' \in [Ops -> Operation]
      <4>1. \A p \in Ops : op'[p] \in Operation
        BY <1>1, <2>4, <2>6, <2>7 DEF SharedType
      <4> QED BY <2>5, <4>1
    <3>3. \A p \in Ops : /\ op'[p].cb = op[p].cb /\ op'[p].bits = op[p].bits
                         /\ op'[p].kind = op[p].kind /\ op'[p].cancelled = op[p].cancelled
                         /\ p # o => op'[p].life = op[p].life /\ op'[p].signals = op[p].signals
                         /\ p \notin {o, w} => op'[p].partner = op[p].partner
                         /\ p # o => op'[p].result = op[p].result
      <4> TAKE p \in Ops
      <4> QED BY <2>6, <2>7, <3>1 DEF Same, SameBut
    <3>4. op'[o].signals \in {<<"value">>, <<"error">>}
      BY <2>2, <2>6, <3>1 DEF Signals
    <3>5. op'[o].life = "completed" /\ op'[o].partner = <<w>> /\ op'[w].partner = <<o>>
      BY <2>6, <2>7, <3>1 DEF mate, back
    <3> QED BY <3>2, <3>3, <3>4, <3>5 DEF Tried
  <2> QED BY <1>3, <1>4, <1>5, <1>6, <1>7, <2>8
<1>8. CASE op[o].kind # "try_accept"
  <2>1. PICK result \in Outcomes :
          op' = [op EXCEPT ![o].life = "completed", ![o].signals = <<"value">>, ![o].partner = <<w>>,
                           ![w].partner = <<o>>, ![w].result = result]
    BY <1>8 DEF Pass!try, Pass!Results, Outcomes
  <2> DEFINE signals == <<"value">>
             mate == <<w>>
             back == <<o>>
             O == Ended(op[o], signals, mate)
             W == Served(op[w], back, result)
  <2>2. /\ mate \in Whom /\ back \in Whom /\ signals \in Signals /\ op[o] \in Operation /\ op[w] \in Operation
    BY <1>1, <1>3, WhomFacts DEF Signals, SharedType
  <2>3. op' = [op EXCEPT ![o].life = "completed", ![o].signals = signals, ![o].partner = mate,
                         ![w].partner = back, ![w].result = result]
    BY <2>1
  <2> HIDE DEF w, signals, mate, back
  <2>4. \A p \in Ops : op'[p] = IF p = o THEN O ELSE IF p = w THEN W ELSE op[p]
    BY <1>1, <1>3, <1>4, <2>3 DEF SharedType, Ended, Served
  <2>5. DOMAIN op' = Ops /\ op' = [p \in Ops |-> op'[p]]
    BY <1>1, <2>3 DEF SharedType
  <2>6. /\ O \in Operation /\ SameBut(op[o], O) /\ O.life = "completed" /\ O.signals = signals
        /\ O.partner = mate /\ O.result = op[o].result
    BY <2>2, EndedFields
  <2>7. W \in Operation /\ Same(op[w], W) /\ W.partner = back
    BY <2>2, ServedFields
  <2> HIDE DEF O, W
  <2>8. Tried(o, w, w)
    <3>1. op'[o] = O /\ op'[w] = W /\ \A p \in Ops : p \notin {o, w} => op'[p] = op[p]
      BY <1>3, <1>4, <2>4
    <3>2. op' \in [Ops -> Operation]
      <4>1. \A p \in Ops : op'[p] \in Operation
        BY <1>1, <2>4, <2>6, <2>7 DEF SharedType
      <4> QED BY <2>5, <4>1
    <3>3. \A p \in Ops : /\ op'[p].cb = op[p].cb /\ op'[p].bits = op[p].bits
                         /\ op'[p].kind = op[p].kind /\ op'[p].cancelled = op[p].cancelled
                         /\ p # o => op'[p].life = op[p].life /\ op'[p].signals = op[p].signals
                         /\ p \notin {o, w} => op'[p].partner = op[p].partner
                         /\ p # w => op'[p].result = op[p].result
      <4> TAKE p \in Ops
      <4> QED BY <2>6, <2>7, <3>1 DEF Same, SameBut
    <3>4. op'[o].signals \in {<<"value">>, <<"error">>}
      BY <2>2, <2>6, <3>1 DEF Signals
    <3>5. op'[o].life = "completed" /\ op'[o].partner = <<w>> /\ op'[w].partner = <<o>>
      BY <2>6, <2>7, <3>1 DEF mate, back
    <3> QED BY <3>2, <3>3, <3>4, <3>5 DEF Tried
  <2> QED BY <1>3, <1>4, <1>5, <1>6, <1>8, <2>8
<1> QED BY <1>7, <1>8

LEMMA PassTry ==
  ASSUME SharedInv, PassInv, NEW o \in Ops, Pass!try(o), Pass!Found(o)
  PROVE  SharedInv' /\ PassInv'
<1> DEFINE a == Starter(o)
<1>1. /\ SharedType /\ HandsInv /\ LifeInv /\ PassType /\ PassThreads /\ PassLocals /\ PassOnePlace /\ PassPartners
      /\ (~HopStops => Pass!Paired)
  BY PassParts
<1>2. PICK w \in Ops, x \in Ops :
        /\ ctx.state_ = <<w>> /\ w # o /\ x \in {o, w} /\ Tried(o, w, x) /\ op[x].kind \notin Pass!Callers
        /\ CompleteThen(a, w, "returned", "returned")
        /\ ctx' = [ctx EXCEPT !.state_ = <<>>] /\ UNCHANGED <<which, local>>
  BY TryFinds
<1>3. op[o].kind \in Pass!Tries /\ op[o].life = "idle"
  BY DEF Pass!try
<1>4. /\ op' \in [Ops -> Operation]
      /\ \A p \in Ops : /\ op'[p].cb = op[p].cb /\ op'[p].bits = op[p].bits
                        /\ op'[p].kind = op[p].kind /\ op'[p].cancelled = op[p].cancelled
                        /\ p # o => op'[p].life = op[p].life /\ op'[p].signals = op[p].signals
                        /\ p \notin {o, w} => op'[p].partner = op[p].partner
                        /\ p # x => op'[p].result = op[p].result
      /\ op'[o].life = "completed" /\ op'[o].signals \in {<<"value">>, <<"error">>}
      /\ op'[o].partner = <<w>> /\ op'[w].partner = <<o>>
  BY <1>2 DEF Tried
<1>5. a \in Agents /\ a[1] = o /\ at[a] = "none" /\ won[a] = "none" /\ whom[a] = <<>> /\ op[o].cb = "none"
  BY <1>1, <1>3, AgentFacts, AgentOf DEF LifeInv, HandsInv, PassThreads
<1>6. op[w].life = "started" /\ ~Held(w) /\ ~Resuming(w) /\ at[Starter(w)] # "nested"
  BY <1>1, <1>2 DEF PassOnePlace
<1>7. op[w].partner = <<>> /\ ~op[w].cancelled /\ op[o].partner = <<>> /\ ~op[o].cancelled
  BY <1>1, <1>2, <1>3 DEF PassPartners
<1>8. ctx.state_ # <<o>> /\ ~Held(o) /\ ~Resuming(o) /\ at[Starter(o)] # "nested"
  BY <1>1, <1>3 DEF PassOnePlace
<1>9. /\ Moves(a, "try") /\ \A b \in Agents : won'[b] = IF b = a THEN "returned" ELSE won[b]
      /\ \A p \in Ops : Held(p)' <=> p = w \/ Held(p)
  BY <1>1, <1>2, <1>5, CompleteMoves
<1>10. op'[o].signals # <<>>
  BY <1>4
<1>11. SharedInv'
  <2>1. "returned" \in Pcs
    BY DEF Pcs
  <2>2. op'[a[1]].life # "idle" /\ op'[a[1]].cb # "set"
    BY <1>4, <1>5
  <2>3. at[a] \notin {"try", "cleanup"}
    BY <1>5
  <2>4. \A p \in Ops : /\ op'[p].bits = op[p].bits /\ op'[p].cb = op[p].cb
                       /\ \/ op'[p].life = op[p].life /\ op'[p].signals = op[p].signals
                          \/ op[p].life = "idle" /\ op'[p].life = "completed" /\ op'[p].signals # <<>>
    BY <1>3, <1>4, <1>10
  <2>5. op' \in [Ops -> Operation] /\ which' = which /\ CompleteThen(a, w, "returned", "returned")
    BY <1>2, <1>4
  <2> QED BY <1>5, <1>6, <2>1, <2>2, <2>3, <2>4, <2>5, CompleteShared
<1>12. PassThreads'
  BY <1>1, <1>5, <1>9, AgentFacts, AgentsDiffer DEF PassThreads, Moves
<1>13. \A b \in Agents : Resumes(b)' <=> Resumes(b)
  BY <1>5, <1>9 DEF Resumes, Moves
<1>14. \A p \in Ops : op'[p].kind = op[p].kind /\ op'[p].cancelled = op[p].cancelled
  BY <1>4
<1>15. /\ \A b \in Agents, p \in Ops : ResumedBy(b, p)' <=> ResumedBy(b, p)
       /\ \A p \in Ops : Resuming(p)' <=> Resuming(p)
  BY <1>2, <1>13, <1>14, ResumesSame
<1>16. ctx' \in [state_ : Whom] /\ ctx'.state_ = <<>>
  BY <1>1, <1>2, WhomFacts DEF PassType
<1>17. PassType' /\ PassLocals'
  BY <1>1, <1>2, <1>13, <1>14, <1>16, AgentFacts DEF PassType, PassLocals
<1>18. \A p \in Ops : at'[Starter(p)] = "nested" <=> at[Starter(p)] = "nested"
  BY <1>5, <1>9, AgentFacts DEF Moves
<1>19. \A p \in Ops : ctx'.state_ # <<p>> /\ (ctx.state_ = <<p>> <=> p = w)
  BY <1>2, <1>16, WhomFacts
<1>20. \A p \in Ops : op'[p].life = IF p = o THEN "completed" ELSE op[p].life
  BY <1>4
<1>21. PassOnePlace'
  BY <1>1, <1>2, <1>3, <1>6, <1>8, <1>9, <1>15, <1>18, <1>19, <1>20 DEF PassOnePlace
<1>22. \A p \in Ops : p \notin {o, w} => op'[p].partner = op[p].partner
  BY <1>4
<1>23. op'[o].partner # <<>> /\ op'[w].partner # <<>>
  BY <1>4, WhomFacts
<1>24. PassPartners'
  <2>1. \A p \in Ops : op'[p].kind \notin {"wait", "async_lock", "try_lock"}
    BY <1>1, <1>14 DEF PassPartners
  <2>2. \A p \in Ops : op'[p].life = "idle" \/ ctx'.state_ = <<p>> \/ at'[Starter(p)] = "nested" =>
                         op'[p].partner = <<>> /\ ~op'[p].cancelled
    BY <1>1, <1>6, <1>8, <1>14, <1>18, <1>19, <1>20, <1>22 DEF PassPartners
  <2>3. \A p \in Ops : op'[p].life = "hopping" \/ Resuming(p)' \/ Held(p)' =>
                         (op'[p].cancelled <=> op'[p].partner = <<>>)
    BY <1>1, <1>7, <1>8, <1>9, <1>14, <1>15, <1>20, <1>22, <1>23 DEF PassPartners
  <2>4. \A p \in Ops : op'[p].kind \in Pass!Callers => op'[p].result = "value"
    BY <1>1, <1>2, <1>4 DEF PassPartners
  <2> QED BY <1>19, <2>1, <2>2, <2>3, <2>4 DEF PassPartners
<1>25. ~HopStops => Pass!Paired'
  <2>1. op'[w].signals = <<>>
    BY <1>1, <1>2, <1>4, <1>6 DEF LifeInv
  <2>2. op[o].kind \notin Pass!Callers
    BY <1>3 DEF Pass!Tries, Pass!Callers
  <2>3. \A p \in {o, w} : /\ op'[p].signals \in {<<>>, <<"value">>, <<"error">>}
                          /\ op'[p].kind \in Pass!Callers => op'[p].signals \in {<<>>, <<"value">>}
    BY <1>4, <1>14, <2>1, <2>2
  <2>4. \A p \in Ops \ {o, w} : op'[p].signals = op[p].signals /\ op'[p].partner = op[p].partner
    BY <1>4
  <2> QED BY <1>1, <1>2, <1>4, <1>7, <1>14, <2>3, <2>4, PairedMeets
<1> QED BY <1>11, <1>12, <1>17, <1>21, <1>24, <1>25 DEF PassInv

-----------------------------------------------------------------------------
(* async_pass: stop(), which finds the operation unclaimed or leaves it,   *)
(* and the steps it shares with the others.                                *)
LEMMA PassStop ==
  ASSUME SharedInv, PassInv, NEW a \in Agents, Pass!stop(a)
  PROVE  SharedInv' /\ PassInv'
<1> DEFINE o == a[1]
           next == IF a[2] = "stop" THEN "return" ELSE "returned"
<1>1. /\ SharedType /\ HandsInv /\ LifeInv /\ PassType /\ PassThreads /\ PassLocals /\ PassOnePlace /\ PassPartners
      /\ (~HopStops => Pass!Paired)
  BY PassParts
<1>2. /\ at[a] = "stop" /\ which' = which /\ local' = local
      /\ \/ /\ ctx.state_ = <<o>> /\ op' = [op EXCEPT ![o].cancelled = TRUE]
            /\ ctx' = [ctx EXCEPT !.state_ = <<>>] /\ CompleteThen(a, o, next, next)
         \/ Goto(a, next) /\ op' = op /\ ctx' = ctx
  <2>1. Pass!AfterStop(a) = next
    BY DEF Pass!AfterStop
  <2> QED BY <2>1 DEF Pass!stop, Pass!Goto, Goto, Pass!CompleteThen, CompleteThen
<1>3. o \in Ops /\ (a = Starter(o) \/ a = Stopper(o))
  BY <1>1, <1>2, AgentFacts DEF PassThreads
<1>4. \/ a = Starter(o) /\ next = "returned"
      \/ a = Stopper(o) /\ next = "return"
  BY <1>3, AgentOf
<1>5. op[o].life # "idle"
  BY <1>1, <1>2, <1>3 DEF LifeInv
<1> HIDE DEF o, next
<1>6. CASE Goto(a, next) /\ op' = op /\ ctx' = ctx
  <2>1. SharedInv'
    BY <1>1, <1>2, <1>4, <1>5, <1>6, GotoShared DEF SharedType, SameStage, Pcs, o
  <2>2. \/ a = Starter(a[1]) /\ next \in {"stop", "returned"}
        \/ a = Stopper(a[1]) /\ next \in {"callback", "stop", "return", "returned"}
    BY <1>4 DEF o
  <2>3. \A p \in Ops : op'[p].life = op[p].life /\ op'[p].signals = op[p].signals /\ SameFields(p)
    BY <1>6 DEF SameFields
  <2>4. PassInv'
    BY <1>2, <1>6, <2>2, <2>3, PassGoto
  <2> QED BY <2>1, <2>4
<1>7. CASE /\ ctx.state_ = <<o>> /\ op' = [op EXCEPT ![o].cancelled = TRUE]
           /\ ctx' = [ctx EXCEPT !.state_ = <<>>] /\ CompleteThen(a, o, next, next)
  <2>1. op[o].life = "started" /\ ~Held(o) /\ ~Resuming(o) /\ at[Starter(o)] # "nested"
    BY <1>1, <1>3, <1>7 DEF PassOnePlace
  <2>2. op[o].partner = <<>>
    BY <1>1, <1>3, <1>7 DEF PassPartners
  <2>3. op[o] \in Operation
    BY <1>1, <1>3 DEF SharedType
  <2> DEFINE yes == TRUE
             C == [op[o] EXCEPT !.cancelled = yes]
  <2>4. C \in Operation
    BY <2>3 DEF Operation
  <2>5. op' = [op EXCEPT ![o] = C]
    BY <1>7
  <2> HIDE DEF yes
  <2>6. op' \in [Ops -> Operation] /\ \A p \in Ops : op'[p] = IF p = o THEN C ELSE op[p]
    <3> HIDE DEF C
    <3> QED BY <1>1, <2>4, <2>5 DEF SharedType
  <2>7. \A p \in Ops : /\ op'[p].life = op[p].life /\ op'[p].signals = op[p].signals
                       /\ op'[p].cb = op[p].cb /\ op'[p].bits = op[p].bits
                       /\ op'[p].kind = op[p].kind /\ op'[p].partner = op[p].partner
                       /\ op'[p].result = op[p].result
                       /\ op'[p].cancelled = IF p = o THEN yes ELSE op[p].cancelled
    <3> TAKE p \in Ops
    <3>1. op'[p] = IF p = o THEN C ELSE op[p]
      BY <2>6
    <3> QED BY <2>3, <3>1 DEF Operation
  <2>8. whom[a] = <<>> /\ won[a] = "none"
    BY <1>1, <1>2 DEF HandsInv, PassThreads
  <2>9. /\ Moves(a, "try") /\ \A b \in Agents : won'[b] = IF b = a THEN next ELSE won[b]
        /\ \A p \in Ops : Held(p)' <=> p = o \/ Held(p)
    BY <1>1, <1>3, <1>7, <2>8, CompleteMoves
  <2>10. SharedInv'
    <3>1. next \in Pcs
      BY <1>4 DEF Pcs
    <3>2. op'[a[1]].life # "idle"
      BY <1>3, <1>5, <2>7 DEF o
    <3> QED BY <1>2, <1>3, <1>7, <2>1, <2>6, <2>7, <3>1, <3>2, CompleteShared
  <2>11. PassThreads'
    BY <1>1, <1>3, <1>4, <2>8, <2>9, AgentFacts, AgentsDiffer DEF PassThreads, Moves
  <2>12. \A b \in Agents : Resumes(b)' <=> Resumes(b)
    BY <1>2, <1>4, <2>8, <2>9 DEF Resumes, Moves
  <2>13. /\ \A b \in Agents, p \in Ops : ResumedBy(b, p)' <=> ResumedBy(b, p)
         /\ \A p \in Ops : Resuming(p)' <=> Resuming(p)
    BY <1>2, <2>7, <2>12, ResumesSame
  <2>14. ctx' \in [state_ : Whom] /\ ctx'.state_ = <<>>
    BY <1>1, <1>7, WhomFacts DEF PassType
  <2>15. PassType' /\ PassLocals'
    <3>1. \A b \in Agents : op'[b[1]].kind = op[b[1]].kind
      BY <2>7, AgentFacts
    <3> QED BY <1>1, <1>2, <2>12, <2>14, <3>1 DEF PassType, PassLocals
  <2>16. \A p \in Ops : at'[Starter(p)] = "nested" <=> at[Starter(p)] = "nested"
    BY <1>2, <2>9, AgentFacts DEF Moves
  <2>17. \A p \in Ops : ctx'.state_ # <<p>> /\ (ctx.state_ = <<p>> <=> p = o)
    BY <1>3, <1>7, <2>14, WhomFacts
  <2>18. PassOnePlace'
    BY <1>1, <1>3, <2>1, <2>7, <2>9, <2>13, <2>16, <2>17 DEF PassOnePlace
  <2>19. PassPartners'
    <3>1. \A p \in Ops : op'[p].life = "hopping" \/ Resuming(p)' \/ Held(p)' =>
                           (op'[p].cancelled <=> op'[p].partner = <<>>)
      <4> TAKE p \in Ops
      <4>1. CASE p = o
        BY <2>2, <2>7, <4>1 DEF yes
      <4>2. CASE p # o
        BY <1>1, <2>7, <2>9, <2>13, <4>2 DEF PassPartners
      <4> QED BY <4>1, <4>2
    <3>2. \A p \in Ops : op'[p].life = "idle" \/ ctx'.state_ = <<p>> \/ at'[Starter(p)] = "nested" =>
                           op'[p].partner = <<>> /\ ~op'[p].cancelled
      <4> TAKE p \in Ops
      <4>1. CASE p = o
        BY <2>1, <2>7, <2>16, <2>17, <4>1
      <4>2. CASE p # o
        BY <1>1, <2>7, <2>16, <2>17, <4>2 DEF PassPartners
      <4> QED BY <4>1, <4>2
    <3> QED BY <1>1, <2>7, <2>17, <3>1, <3>2 DEF PassPartners
  <2>20. ~HopStops => Pass!Paired'
    BY <1>1, <2>7, PairedStays
  <2> QED BY <2>10, <2>11, <2>15, <2>18, <2>19, <2>20 DEF PassInv
<1> QED BY <1>2, <1>6, <1>7 DEF o, next

LEMMA PassTryComplete ==
  ASSUME SharedInv, PassInv, NEW a \in Agents, try_complete(a)
  PROVE  SharedInv' /\ PassInv'
<1>1. SharedType /\ PassThreads
  BY PassParts
<1>2. PICK w \in Ops : TryCompleted(a, w)
  BY TryCompleteStep
<1>3. /\ at[a] = "try" /\ ctx' = ctx /\ local' = local /\ Goto(a, "cleanup")
      /\ \A p \in Ops : op'[p].life = op[p].life /\ op'[p].signals = op[p].signals /\ SameFields(p)
  BY <1>2 DEF TryCompleted
<1>4. Moves(a, "cleanup") /\ won' = won /\ \A p \in Ops : Held(p)' <=> Held(p)
  BY <1>1, <1>3, GotoMoves
<1>5. SharedInv'
  BY TryCompleteShared
<1>6. PassThreads'
  BY <1>1, <1>3, <1>4, AgentFacts, AgentsDiffer DEF PassThreads, Moves
<1>7. \A p \in Ops : at'[Starter(p)] = "nested" <=> at[Starter(p)] = "nested"
  BY <1>3, <1>4, AgentFacts DEF Moves
<1>8. \A b \in Agents : Resumes(b)' <=> Resumes(b)
  BY <1>3, <1>4 DEF Resumes, Moves
<1> QED BY <1>3, <1>4, <1>5, <1>6, <1>7, <1>8, PassStays

LEMMA PassCleanup ==
  ASSUME SharedInv, PassInv, NEW a \in Agents, cleanup_(a)
  PROVE  SharedInv' /\ PassInv'
<1>1. /\ SharedType /\ HandsInv /\ LifeInv /\ PassType /\ PassThreads /\ PassLocals /\ PassOnePlace /\ PassPartners
      /\ (~HopStops => Pass!Paired)
  BY PassParts
<1>2. PICK w \in Ops : CleanedUp(a, w)
  BY CleanupStep
<1>3. at[a] = "cleanup" /\ ctx' = ctx /\ local' = local /\ Held(w)
  BY <1>2 DEF CleanedUp, Held
<1>4. /\ Moves(a, won[a]) /\ \A b \in Agents : won'[b] = IF b = a THEN "none" ELSE won[b]
      /\ \A p \in Ops : Held(p)' <=> p # w /\ Held(p)
      /\ \A p \in Ops : /\ op'[p].life = IF p = w THEN "hopping" ELSE op[p].life
                        /\ op'[p].signals = op[p].signals /\ SameFields(p)
  BY <1>2 DEF CleanedUp
<1>5. /\ a = Starter(a[1]) => won[a] \in {"resume", "mark", "returned"}
      /\ a = Stopper(a[1]) => won[a] = "return"
      /\ a # Caller(a[1])
  BY <1>1, <1>3, AgentFacts DEF PassThreads
<1>6. won[a] \in {"resume", "mark", "return", "returned"}
  BY <1>5, AgentFacts
<1>7. SharedInv'
  BY <1>6, CleanupShared
<1>8. PassThreads'
  BY <1>1, <1>4, <1>5, <1>6, AgentFacts, AgentsDiffer DEF PassThreads, Moves
<1>9. \A b \in Agents : Resumes(b)' <=> Resumes(b)
  BY <1>3, <1>4 DEF Resumes, Moves
<1>10. /\ \A b \in Agents, p \in Ops : ResumedBy(b, p)' <=> ResumedBy(b, p)
       /\ \A p \in Ops : Resuming(p)' <=> Resuming(p)
  BY <1>3, <1>4, <1>9, ResumesSame DEF SameFields
<1>11. PassType' /\ PassLocals'
  <2>1. \A b \in Agents : op'[b[1]].kind = op[b[1]].kind
    BY <1>4, AgentFacts DEF SameFields
  <2> QED BY <1>1, <1>3, <1>9, <2>1 DEF PassType, PassLocals
<1>12. \A p \in Ops : at'[Starter(p)] = "nested" <=> at[Starter(p)] = "nested"
  BY <1>3, <1>4, <1>6, AgentFacts DEF Moves
<1>13. ctx.state_ # <<w>> /\ ~Resuming(w) /\ at[Starter(w)] # "nested" /\ op[w].life = "started"
  BY <1>1, <1>3 DEF PassOnePlace
<1>14. PassOnePlace'
  BY <1>1, <1>3, <1>4, <1>10, <1>12, <1>13 DEF PassOnePlace
<1>15. PassPartners'
  BY <1>1, <1>3, <1>4, <1>10, <1>12, <1>13 DEF PassPartners, SameFields
<1>16. ~HopStops => Pass!Paired'
  BY <1>1, <1>4, PairedStays DEF SameFields
<1> QED BY <1>7, <1>8, <1>11, <1>14, <1>15, <1>16 DEF PassInv

LEMMA PassForward ==
  ASSUME SharedInv, PassInv, APass, NEW o \in Ops, forward_set_value(o)
  PROVE  SharedInv' /\ PassInv'
<1>1. /\ SharedType /\ HandsInv /\ LifeInv /\ PassType /\ PassThreads /\ PassLocals /\ PassOnePlace /\ PassPartners
      /\ (~HopStops => Pass!Paired)
  BY PassParts
<1>2. Forwarded(o)
  BY ForwardStep
<1>3. SharedInv' /\ \A p \in Ops : Held(p)' <=> Held(p)
  BY <1>2, ForwardShared DEF APass, AutoReset
<1>4. at' = at /\ won' = won /\ ctx' = ctx /\ local' = local /\ op[o].life = "hopping"
  BY <1>2 DEF Forwarded, threads
<1>5. \A p \in Ops : /\ op'[p].life = IF p = o THEN "completed" ELSE op[p].life
                     /\ op'[p].signals = IF p = o THEN <<Signal(o)>> ELSE op[p].signals
                     /\ SameFields(p)
  BY <1>2 DEF Forwarded
<1>6. \A b \in Agents : Resumes(b)' <=> Resumes(b)
  BY <1>4 DEF Resumes
<1>7. /\ \A b \in Agents, p \in Ops : ResumedBy(b, p)' <=> ResumedBy(b, p)
      /\ \A p \in Ops : Resuming(p)' <=> Resuming(p)
  BY <1>4, <1>5, <1>6, ResumesSame DEF SameFields
<1>8. PassType' /\ PassThreads' /\ PassLocals'
  <2>1. PassType' /\ PassThreads'
    BY <1>1, <1>4 DEF PassType, PassThreads
  <2>2. \A b \in Agents : op'[b[1]].kind = op[b[1]].kind
    BY <1>5, AgentFacts DEF SameFields
  <2> QED BY <1>1, <1>4, <1>6, <2>1, <2>2 DEF PassLocals
<1>9. PassOnePlace'
  BY <1>1, <1>3, <1>4, <1>5, <1>7 DEF PassOnePlace
<1>10. PassPartners'
  BY <1>1, <1>3, <1>4, <1>5, <1>7 DEF PassPartners, SameFields
<1>11. ~HopStops => Pass!Paired'
  <2> SUFFICES ASSUME ~HopStops PROVE Pass!Paired'
    OBVIOUS
  <2>1. \A p \in Ops : op[p].partner \in Whom /\ op[p].result \in {"value", "error"}
    BY <1>1 DEF SharedType, Operation
  <2>2. \A p \in Ops : op[p].partner # <<>> => op[p].partner[1] \in Ops
    BY <2>1, WhomFacts
  <2>3. op[o].cancelled <=> op[o].partner = <<>>
    BY <1>1, <1>4 DEF PassPartners
  <2>4. Signal(o) = IF op[o].partner = <<>> THEN "done" ELSE op[o].result
    BY <2>3 DEF Signal, HopIsStopped
  <2> HIDE DEF Signal
  <2>5. Signal(o) = "done" <=> op[o].partner = <<>>
    BY <2>1, <2>4
  <2>6. op[o].kind \in Pass!Callers /\ op[o].partner # <<>> => Signal(o) = "value"
    BY <1>1, <2>4 DEF PassPartners
  <2> DEFINE s == <<Signal(o)>>
  <2>7. (s = <<"done">> <=> Signal(o) = "done") /\ (s = <<"value">> <=> Signal(o) = "value")
    OBVIOUS
  <2>8. \A p \in Ops : op'[p].signals = IF p = o THEN s ELSE op[p].signals
    BY <1>5
  <2> HIDE DEF s
  <2> QED BY <1>1, <1>5, <2>2, <2>5, <2>6, <2>7, <2>8 DEF Pass!Paired, SameFields
<1> QED BY <1>3, <1>8, <1>9, <1>10, <1>11 DEF PassInv

LEMMA PassCancellation ==
  ASSUME SharedInv, PassInv, NEW o \in Ops,
         MarkStarted(o) \/ StopCallback(o) \/ CallbackReturns(o) \/ RequestStop(o)
  PROVE  SharedInv' /\ PassInv'
<1>1. SharedType /\ LifeInv /\ PassThreads
  BY PassParts
<1>2. /\ Starter(o) \in Agents /\ Starter(o) = Starter(Starter(o)[1])
      /\ Stopper(o) \in Agents /\ Stopper(o) = Stopper(Stopper(o)[1])
  BY AgentFacts, AgentOf
<1>3. SharedInv' /\ Cancels
  BY CancellationShared
<1>4. /\ local' = local /\ ctx' = ctx
      /\ \A p \in Ops : op'[p].life = op[p].life /\ op'[p].signals = op[p].signals /\ SameFields(p)
  BY <1>3 DEF Cancels, SameStage
<1>5. CASE MarkStarted(o)
  <2>1. PICK pc \in {"stop", "returned"} : at[Starter(o)] = "mark" /\ Goto(Starter(o), pc)
    BY <1>5, MarkStartedStep
  <2> QED BY <1>2, <1>3, <1>4, <2>1, PassGoto
<1>6. CASE StopCallback(o)
  <2>1. PICK pc \in {"stop", "return"} : at[Stopper(o)] = "callback" /\ Goto(Stopper(o), pc)
    BY <1>6, StopCallbackStep
  <2> QED BY <1>2, <1>3, <1>4, <2>1, PassGoto
<1>7. CASE CallbackReturns(o)
  <2>1. at[Stopper(o)] = "return" /\ Goto(Stopper(o), "returned")
    BY <1>7, CallbackReturnsStep
  <2> QED BY <1>2, <1>3, <1>4, <2>1, PassGoto
<1>8. CASE RequestStop(o)
  <2>1. \/ at[Stopper(o)] = "none" /\ Goto(Stopper(o), "callback")
        \/ UNCHANGED threads
    BY <1>8, RequestStopStep
  <2>2. CASE at[Stopper(o)] = "none" /\ Goto(Stopper(o), "callback")
    BY <1>2, <1>3, <1>4, <2>2, PassGoto
  <2>3. CASE UNCHANGED threads
    <3>1. at' = at /\ whom' = whom /\ won' = won
      BY <2>3 DEF threads
    <3>2. \A p \in Ops : Held(p)' <=> Held(p)
      BY <3>1 DEF Held, HeldBy
    <3>3. PassThreads' /\ \A b \in Agents : Resumes(b)' <=> Resumes(b)
      BY <1>1, <3>1 DEF PassThreads, Resumes
    <3>4. \A p \in Ops : at'[Starter(p)] = "nested" <=> at[Starter(p)] = "nested"
      BY <3>1
    <3> QED BY <1>3, <1>4, <3>2, <3>3, <3>4, PassStays
  <2> QED BY <2>1, <2>2, <2>3
<1> QED BY <1>5, <1>6, <1>7, <1>8

LEMMA PassShare ==
  /\ \A a : Pass!try_complete(a) => try_complete(a)
  /\ \A a : Pass!cleanup_(a) => cleanup_(a)
  /\ \A o : Pass!forward_set_value(o) => forward_set_value(o)
  /\ \A o : Pass!MarkStarted(o) => MarkStarted(o)
  /\ \A o : Pass!StopCallback(o) => StopCallback(o)
  /\ \A o : Pass!CallbackReturns(o) => CallbackReturns(o)
  /\ \A o : Pass!RequestStop(o) => RequestStop(o)
  /\ \A o : Pass!Start(o, FALSE) => Start(o, FALSE)
<1>1. \A a : Pass!try_complete(a) => try_complete(a)
  BY DEF Pass!try_complete, try_complete, Pass!Release, Release, Pass!Goto, Goto
<1>2. \A a : Pass!cleanup_(a) => cleanup_(a)
  BY DEF Pass!cleanup_, cleanup_, Pass!Release, Release
<1>3. \A o : Pass!forward_set_value(o) => forward_set_value(o)
  BY DEF Pass!forward_set_value, forward_set_value, Pass!threads, threads,
         Pass!Signal, Signal, Pass!HopIsStopped, HopIsStopped
<1>4. \A o : Pass!MarkStarted(o) => MarkStarted(o)
  BY DEF Pass!MarkStarted, MarkStarted, Pass!Goto, Goto
<1>5. \A o : Pass!StopCallback(o) => StopCallback(o)
  BY DEF Pass!StopCallback, StopCallback, Pass!Goto, Goto
<1>6. \A o : Pass!CallbackReturns(o) => CallbackReturns(o)
  BY DEF Pass!CallbackReturns, CallbackReturns, Pass!Goto, Goto
<1>7. \A o : Pass!RequestStop(o) => RequestStop(o)
  BY DEF Pass!RequestStop, RequestStop, Pass!Goto, Goto, Pass!threads, threads
<1>8. \A o : Pass!Start(o, FALSE) => Start(o, FALSE)
  BY DEF Pass!Start, Start, Pass!NewCallback, NewCallback, Pass!Goto, Goto
<1> QED BY <1>1, <1>2, <1>3, <1>4, <1>5, <1>6, <1>7, <1>8

LEMMA PassStep ==
  ASSUME SharedInv, PassInv, APass, Pass!Next
  PROVE  SharedInv' /\ PassInv'
<1>1. ASSUME NEW a \in Agents, Pass!try_complete(a) \/ Pass!cleanup_(a) \/ Pass!stop(a)
      PROVE  SharedInv' /\ PassInv'
  BY <1>1, PassShare, PassTryComplete, PassCleanup, PassStop
<1>2. ASSUME NEW o \in Ops, \/ Pass!MarkStarted(o) \/ Pass!StopCallback(o) \/ Pass!CallbackReturns(o)
                            \/ Pass!RequestStop(o) \/ Pass!forward_set_value(o)
      PROVE  SharedInv' /\ PassInv'
  BY <1>2, PassShare, PassForward, PassCancellation
<1>3. ASSUME NEW o \in Ops, \/ Pass!call_or_suspend(o) \/ Pass!accept_or_suspend(o) \/ Pass!resume_(o)
      PROVE  SharedInv' /\ PassInv'
  BY <1>3, PassCall, PassAccept, PassResume
<1>4. ASSUME NEW o \in Ops, Pass!async(o) PROVE SharedInv' /\ PassInv'
  BY <1>4, PassShare, PassStart DEF Pass!async
<1>5. ASSUME NEW o \in Ops, Pass!try(o) PROVE SharedInv' /\ PassInv'
  BY <1>5, PassTry, PassLeaves
<1> QED BY <1>1, <1>2, <1>3, <1>4, <1>5
        DEF Pass!Next, Pass!System, Pass!User, Pass!Completions, Pass!Cancellation, Pass!Agents, Agents

LEMMA PassBegins ==
  ASSUME Pass!Init
  PROVE  SharedInv /\ PassInv
<1> DEFINE kinds == {"async_call", "async_throw", "async_accept", "try_call", "try_throw", "try_accept"}
<1>1. /\ op \in [Ops -> {NewOp(kind) : kind \in kinds}]
      /\ ctx = [state_ |-> <<>>] /\ NoAgents
  <2>1. kinds = Pass!Callers \cup Pass!Tries \cup {"async_accept"}
    BY DEF Pass!Callers, Pass!Tries
  <2> HIDE DEF kinds
  <2> QED BY <2>1 DEF Pass!Init, Pass!NewOp, NewOp, Pass!NoAgents, NoAgents, Pass!Agents, Agents
<1>2. \A o \in Ops : \E kind \in kinds : op[o] = NewOp(kind)
  BY <1>1
<1>3. op = [o \in Ops |-> op[o]] /\ kinds \subseteq Kinds
  BY <1>1 DEF Kinds
<1> HIDE DEF kinds
<1>4. SharedInv /\ \A o \in Ops : ~Held(o) /\ op[o].life = "idle" /\ op[o].signals = <<>>
  BY <1>1, <1>2, <1>3, SharedStart
<1>5. /\ local = [a \in Agents |-> <<>>] /\ <<>> \in Whom
      /\ \A a \in Agents : at[a] = "none" /\ won[a] = "none"
  BY <1>1, WhomFacts DEF NoAgents
<1>6. PassType
  BY <1>1, <1>5 DEF PassType
<1>7. PassThreads
  BY <1>5, AgentFacts DEF PassThreads
<1>8. (\A a \in Agents : ~Resumes(a)) /\ \A o \in Ops : ~Resuming(o)
  BY <1>5 DEF Resumes, Resuming, ResumedBy
<1>9. PassLocals
  BY <1>8 DEF PassLocals
<1>10. \A o \in Ops : ctx.state_ # <<o>> /\ at[Starter(o)] = "none"
  BY <1>1, <1>5, AgentFacts, WhomFacts
<1>11. PassOnePlace
  BY <1>4, <1>8, <1>10 DEF PassOnePlace, ResumedBy
<1>12. \A o \in Ops : /\ op[o].partner = <<>> /\ ~op[o].cancelled /\ op[o].result = "value"
                      /\ op[o].kind \notin {"wait", "async_lock", "try_lock"}
  BY <1>2 DEF NewOp, kinds
<1>13. PassPartners
  BY <1>4, <1>8, <1>10, <1>12 DEF PassPartners
<1>14. Pass!Paired
  BY <1>4, <1>12 DEF Pass!Paired
<1> QED BY <1>4, <1>6, <1>7, <1>9, <1>11, <1>13, <1>14 DEF PassInv

LEMMA PassStutters ==
  ASSUME PassInv, UNCHANGED vars
  PROVE  PassInv'
<1>1. ctx' = ctx /\ op' = op /\ at' = at /\ whom' = whom /\ won' = won /\ local' = local
  BY DEF vars, threads
<1>2. PassType' /\ PassThreads' /\ PassLocals'
  BY <1>1 DEF PassInv, PassType, PassThreads, PassLocals, Resumes
<1>3. PassOnePlace'
  BY <1>1 DEF PassInv, PassOnePlace, Resuming, ResumedBy, Resumes, Pass!Resumed, Held, HeldBy
<1>4. PassPartners'
  BY <1>1 DEF PassInv, PassPartners, Resuming, ResumedBy, Resumes, Pass!Resumed, Held, HeldBy
<1>5. (~HopStops => Pass!Paired)'
  BY <1>1 DEF PassInv, Pass!Paired
<1> QED BY <1>2, <1>3, <1>4, <1>5 DEF PassInv

(* An async_pass keeps its invariant in every behaviour.                   *)
THEOREM PassInvariance == Spec => [](APass => SharedInv /\ PassInv)
<1> DEFINE I == APass => SharedInv /\ PassInv
<1>1. Init => I
  BY PassBegins DEF Init, Mutex!Init, Events!Init, List!Init, APass
<1>2. I /\ [Next]_vars => I'
  <2> SUFFICES ASSUME I, [Next]_vars, APass' PROVE SharedInv' /\ PassInv'
    OBVIOUS
  <2>1. APass /\ SharedInv /\ PassInv
    BY OnePrimitive DEF APass
  <2>2. CASE UNCHANGED vars
    BY <2>1, <2>2, SharedStutters, PassStutters
  <2>3. CASE Next
    <3>1. Pass!Next
      BY <2>1, <2>3 DEF Next, Mutex!Next, Events!Next, List!Next, APass
    <3> QED BY <2>1, <3>1, PassStep
  <2> QED BY <2>2, <2>3
<1> QED BY <1>1, <1>2, PTL DEF Spec

(* Unless the hop to the receiver's scheduler can complete with done, who  *)
(* completes with done has met nobody, and everybody else has met one      *)
(* partner, who met him: no call is consumed by an acceptor that was       *)
(* cancelled (async_pass.hpp: stop() gives up what was claimed).           *)
THEOREM MetOrCancelled ==
  ASSUME ~HopStops
  PROVE  Spec => []Paired
<1>1. (APass => SharedInv /\ PassInv) => Paired
  BY DEF PassInv, Paired, APass
<1> QED BY <1>1, PassInvariance, PTL

-----------------------------------------------------------------------------
(* Where a waiter is, counted.                                             *)
LEMMA CountOne ==
  ASSUME NEW S, \A x, y \in S : x = y
  PROVE  Cardinality(S) = One(S # {})
<1>1. CASE S = {}
  BY <1>1, FS_EmptySet DEF One
<1>2. CASE S # {}
  <2>1. PICK x \in S : TRUE
    BY <1>2
  <2>2. S = {x}
    BY <2>1
  <2>3. Cardinality({x}) = 1
    BY FS_Singleton
  <2> QED BY <1>2, <2>2, <2>3 DEF One
<1> QED BY <1>1, <1>2

LEMMA TimesOne ==
  ASSUME NEW q, NEW o, Once(q)
  PROVE  Times(q, o) = One(InList(q, o))
<1> DEFINE S == {i \in DOMAIN q : q[i] = o}
<1>1. \A i, j \in S : i = j
  BY DEF Once
<1>2. S # {} <=> InList(q, o)
  BY DEF InList
<1> HIDE DEF S
<1>3. Cardinality(S) = One(S # {})
  BY <1>1, CountOne
<1>4. Times(q, o) = Cardinality(S)
  BY DEF Times, S
<1> QED BY <1>2, <1>3, <1>4 DEF One

LEMMA HandlingOne ==
  ASSUME SharedInv, NEW o \in Ops
  PROVE  Handling(o) = One(Held(o))
<1> DEFINE S == {a \in Agents : whom[a] = <<o>> /\ at[a] \in {"try", "cleanup"}}
<1>1. HandsInv
  BY DEF SharedInv
<1>2. \A a \in Agents : a \in S <=> HeldBy(a, o)
  BY <1>1, WhomFacts DEF HandsInv, HeldBy
<1>3. \A a, b \in S : a = b
  BY <1>1, <1>2 DEF HandsInv
<1>4. S # {} <=> Held(o)
  BY <1>2 DEF Held
<1> HIDE DEF S
<1>5. Cardinality(S) = One(S # {})
  BY <1>3, CountOne
<1>6. Handling(o) = Cardinality(S)
  BY DEF Handling, S
<1> QED BY <1>4, <1>5, <1>6 DEF One

LEMMA SignalledOnce ==
  ASSUME SharedInv, NEW o \in Ops
  PROVE  /\ Len(op[o].signals) = One(op[o].life = "completed")
         /\ op[o].life = "completed" => op[o].cb = "none"
<1>1. SharedType /\ LifeInv
  BY DEF SharedInv
<1>2. op[o].signals \in {<<>>, <<"value">>, <<"done">>, <<"error">>}
  BY <1>1 DEF SharedType, Operation
<1>3. \A s \in {<<>>, <<"value">>, <<"done">>, <<"error">>} : Len(s) = One(s # <<>>)
  BY DEF One
<1>4. op[o].life = "completed" <=> op[o].signals # <<>>
  BY <1>1 DEF LifeInv
<1> QED BY <1>1, <1>2, <1>3, <1>4 DEF LifeInv, One

LEMMA MutexPlaces ==
  ASSUME SharedInv, MutexInv, NEW o \in Ops
  PROVE  Mutex!Places(o) = One(op[o].life = "started")
<1>1. MutexOnePlace
  BY DEF MutexInv
<1>2. \A S : Mutex!Cardinality(S) = Cardinality(S)
  BY DEF Mutex!Cardinality, Cardinality, Mutex!IsFiniteSet, IsFiniteSet
<1>3. Times(ctx.queue_, o) = One(InList(ctx.queue_, o)) /\ Handling(o) = One(Held(o))
  BY <1>1, TimesOne, HandlingOne DEF MutexOnePlace
<1>4. Mutex!Times(ctx.queue_, o) = Times(ctx.queue_, o) /\ Mutex!Handling(o) = Handling(o)
  BY <1>2 DEF Mutex!Times, Times, Mutex!Handling, Handling, Mutex!Agents, Agents
<1>5. Mutex!Places(o) = Times(ctx.queue_, o) + Handling(o) + One(at[Starter(o)] \in {"nested", "push"})
                        + One(at[Starter(o)] = "stop" /\ o \notin ctx.started_)
  BY <1>4 DEF Mutex!Places, Mutex!Starting, Mutex!One, One, Starter
<1>6. MutexStarting(o) <=> \/ at[Starter(o)] \in {"nested", "push"}
                           \/ at[Starter(o)] = "stop" /\ o \notin ctx.started_
  BY DEF MutexStarting
<1>7. /\ op[o].life = "started" <=> InList(ctx.queue_, o) \/ Held(o) \/ MutexStarting(o)
      /\ ~(InList(ctx.queue_, o) /\ Held(o)) /\ ~(InList(ctx.queue_, o) /\ MutexStarting(o))
      /\ ~(Held(o) /\ MutexStarting(o))
  BY <1>1 DEF MutexOnePlace
<1> QED BY <1>3, <1>5, <1>6, <1>7 DEF One

LEMMA PassPlaces ==
  ASSUME SharedInv, PassInv, NEW o \in Ops
  PROVE  Pass!Places(o) = One(op[o].life = "started")
<1>1. PassType /\ PassOnePlace
  BY PassParts
<1>2. \A S : Pass!Cardinality(S) = Cardinality(S)
  BY DEF Pass!Cardinality, Cardinality, Pass!IsFiniteSet, IsFiniteSet
<1>3. Handling(o) = One(Held(o))
  BY HandlingOne
<1>4. Times(ctx.state_, o) = One(ctx.state_ = <<o>>)
  <2>1. ctx.state_ \in Whom
    BY <1>1 DEF PassType
  <2>2. \A q \in Whom : Once(q) /\ (InList(q, o) <=> q = <<o>>)
    BY DEF Whom, Once, InList
  <2> QED BY <2>1, <2>2, TimesOne DEF One
<1> DEFINE S == {a \in Agents : (won[a] = "resume" \/ at[a] = "resume") /\ o = Pass!Resumed(a)}
<1>5. \A a \in Agents : a \in S <=> ResumedBy(a, o)
  BY DEF ResumedBy, Resumes
<1>6. \A a, b \in S : a = b
  BY <1>1, <1>5 DEF PassOnePlace
<1>7. S # {} <=> Resuming(o)
  BY <1>5 DEF Resuming
<1>8. Pass!Resuming(o) = S
  BY DEF Pass!Resuming, Pass!Agents, Agents
<1> HIDE DEF S
<1>9. Cardinality(S) = One(Resuming(o))
  BY <1>6, <1>7, CountOne DEF One
<1>10. Pass!Times(ctx.state_, o) = Times(ctx.state_, o) /\ Pass!Handling(o) = Handling(o)
  BY <1>2 DEF Pass!Times, Times, Pass!Handling, Handling, Pass!Agents, Agents
<1>11. Pass!Places(o) = One(ctx.state_ = <<o>>) + One(Held(o)) + One(at[Starter(o)] = "nested") + One(Resuming(o))
  BY <1>2, <1>3, <1>4, <1>8, <1>9, <1>10 DEF Pass!Places, Pass!Starting, Pass!One, One, Starter
<1>12. /\ op[o].life = "started" <=>
            ctx.state_ = <<o>> \/ Resuming(o) \/ Held(o) \/ at[Starter(o)] = "nested"
       /\ ~(ctx.state_ = <<o>> /\ Resuming(o)) /\ ~(ctx.state_ = <<o>> /\ Held(o))
       /\ ~(ctx.state_ = <<o>> /\ at[Starter(o)] = "nested") /\ ~(Resuming(o) /\ Held(o))
       /\ ~(Resuming(o) /\ at[Starter(o)] = "nested") /\ ~(Held(o) /\ at[Starter(o)] = "nested")
  BY <1>1 DEF PassOnePlace
<1> QED BY <1>11, <1>12 DEF One

(* The threads whose list o is in are counted by whether they wake it now  *)
(* or have another one in their hands first.                               *)
LEMMA EventCounts ==
  ASSUME NEW o \in Ops,
         \A a \in Agents : at[a] = "wake" \/ won[a] = "wake" => Once(local[a]),
         \A a, b \in Agents : /\ at[a] = "wake" \/ won[a] = "wake"
                              /\ at[b] = "wake" \/ won[b] = "wake"
                              /\ InList(local[a], o) /\ InList(local[b], o)
                              => a = b
  PROVE  /\ Events!Taken(o) = One(\E a \in Agents : at[a] = "wake" /\ InList(local[a], o))
         /\ Events!Between(o) = One(\E a \in Agents : won[a] = "wake" /\ InList(local[a], o))
<1> DEFINE S == {a \in Agents : at[a] = "wake" /\ Events!Times(local[a], o) = 1}
           T == {a \in Agents : won[a] = "wake" /\ Events!Times(local[a], o) = 1}
<1>1. \A U : Events!Cardinality(U) = Cardinality(U)
  BY DEF Events!Cardinality, Cardinality, Events!IsFiniteSet, IsFiniteSet
<1>2. \A q : Events!Times(q, o) = Times(q, o)
  BY <1>1 DEF Events!Times, Times
<1>3. \A q : Once(q) => (Times(q, o) = 1 <=> InList(q, o))
  BY TimesOne DEF One
<1>4. \A a \in Agents : a \in S <=> at[a] = "wake" /\ InList(local[a], o)
  BY <1>2, <1>3
<1>5. \A a \in Agents : a \in T <=> won[a] = "wake" /\ InList(local[a], o)
  BY <1>2, <1>3
<1>6. (\A a, b \in S : a = b) /\ (\A a, b \in T : a = b)
  BY <1>4, <1>5
<1>7. Events!Taken(o) = Cardinality(S) /\ Events!Between(o) = Cardinality(T)
  BY <1>1 DEF Events!Taken, Events!Between, Events!Agents, Agents
<1>8. S # {} <=> \E a \in Agents : at[a] = "wake" /\ InList(local[a], o)
  BY <1>4
<1>9. T # {} <=> \E a \in Agents : won[a] = "wake" /\ InList(local[a], o)
  BY <1>5
<1> HIDE DEF S, T
<1>10. Cardinality(S) = One(S # {}) /\ Cardinality(T) = One(T # {})
  BY <1>6, CountOne
<1> QED BY <1>7, <1>8, <1>9, <1>10 DEF One

LEMMA EventShares ==
  ASSUME SharedInv, NEW o \in Ops, Once(ctx.waiters)
  PROVE  Events!Times(ctx.waiters, o) = One(InList(ctx.waiters, o)) /\ Events!Handling(o) = One(Held(o))
<1>1. \A U : Events!Cardinality(U) = Cardinality(U)
  BY DEF Events!Cardinality, Cardinality, Events!IsFiniteSet, IsFiniteSet
<1>2. Events!Times(ctx.waiters, o) = Times(ctx.waiters, o) /\ Events!Handling(o) = Handling(o)
  BY <1>1 DEF Events!Times, Times, Events!Handling, Handling, Events!Agents, Agents
<1> QED BY <1>2, TimesOne, HandlingOne

LEMMA LatchPlaces ==
  ASSUME SharedInv, LatchInv, V2, NEW o \in Ops
  PROVE  Events!Places(o) = One(op[o].life = "started")
<1>1. LatchThreads /\ LatchLocals /\ LatchOnePlace
  BY DEF LatchInv
<1> DEFINE now == \E a \in Agents : at[a] = "wake" /\ InList(local[a], o)
           then == \E a \in Agents : won[a] = "wake" /\ InList(local[a], o)
<1>2. Events!Taken(o) = One(now) /\ Events!Between(o) = One(then)
  <2>1. \A a \in Agents : Once(local[a])
    BY <1>1 DEF LatchLocals
  <2>2. \A a, b \in Agents : InList(local[a], o) /\ InList(local[b], o) => a = b
    BY <1>1 DEF LatchOnePlace, TakenBy
  <2> QED BY <2>1, <2>2, EventCounts
<1>3. ~(now /\ then) /\ (Taken(o) <=> now \/ then)
  <2>1. \A a \in Agents : InList(local[a], o) => at[a] = "wake" \/ won[a] = "wake"
    <3>1. ~InList(<<>>, o)
      BY DEF InList
    <3> QED BY <1>1, <3>1 DEF LatchLocals
  <2>2. \A a \in Agents : ~(at[a] = "wake" /\ won[a] = "wake")
    BY <1>1 DEF LatchThreads
  <2>3. \A a, b \in Agents : InList(local[a], o) /\ InList(local[b], o) => a = b
    BY <1>1 DEF LatchOnePlace, TakenBy
  <2> QED BY <2>1, <2>2, <2>3 DEF Taken, TakenBy
<1> HIDE DEF now, then
<1>4. Events!Times(ctx.waiters, o) = One(InList(ctx.waiters, o)) /\ Events!Handling(o) = One(Held(o))
  BY <1>1, EventShares DEF LatchOnePlace
<1>5. Events!Starting(o, {"nested", "load", "push"}) = One(at[Starter(o)] = "nested")
  BY <1>1 DEF LatchThreads, Events!Starting, Events!One, One, Starter
<1>6. Events!One(Events!Auto /\ (at[<<o, "start">>] = "set_done" \/ (at[<<o, "start">>] = "wake" /\ Events!Taken(o) = 0))) = 0
  BY DEF V2, Events!Auto, Events!One
<1>7. Events!Places(o) = One(InList(ctx.waiters, o)) + One(now) + One(then) + One(Held(o)) + One(at[Starter(o)] = "nested")
  BY <1>2, <1>4, <1>5, <1>6 DEF Events!Places, One
<1>8. /\ op[o].life = "started" <=>
           InList(ctx.waiters, o) \/ Taken(o) \/ Held(o) \/ at[Starter(o)] = "nested"
      /\ ~(InList(ctx.waiters, o) /\ Taken(o)) /\ ~(InList(ctx.waiters, o) /\ Held(o))
      /\ ~(InList(ctx.waiters, o) /\ at[Starter(o)] = "nested") /\ ~(Taken(o) /\ Held(o))
      /\ ~(Taken(o) /\ at[Starter(o)] = "nested") /\ ~(Held(o) /\ at[Starter(o)] = "nested")
  BY <1>1 DEF LatchOnePlace
<1> QED BY <1>3, <1>7, <1>8 DEF One

LEMMA StackPlaces ==
  ASSUME SharedInv, StackInv, NEW o \in Ops
  PROVE  Events!Places(o) = One(op[o].life = "started")
<1>1. SharedType /\ HandsInv /\ StackThreads /\ StackLocals /\ StackOnePlace /\ (~AutoReset => ManualInv)
  BY DEF SharedInv, StackInv
<1>2. Events!Taken(o) = One(Woken(o)) /\ Events!Between(o) = 0
  <2>1. \A a \in Agents : won[a] = "none" /\ (at[a] = "wake" => Once(local[a]))
    BY <1>1 DEF StackThreads, StackLocals
  <2>2. \A a, b \in Agents : at[a] = "wake" /\ at[b] = "wake" /\ InList(local[a], o) /\ InList(local[b], o) => a = b
    BY <1>1 DEF StackOnePlace, WokenBy
  <2>3. /\ Events!Taken(o) = One(\E a \in Agents : at[a] = "wake" /\ InList(local[a], o))
        /\ Events!Between(o) = One(\E a \in Agents : won[a] = "wake" /\ InList(local[a], o))
    BY <2>1, <2>2, EventCounts
  <2>4. ~\E a \in Agents : won[a] = "wake" /\ InList(local[a], o)
    BY <2>1
  <2>5. Woken(o) <=> \E a \in Agents : at[a] = "wake" /\ InList(local[a], o)
    BY DEF Woken, WokenBy
  <2> QED BY <2>3, <2>4, <2>5 DEF One
<1>3. Events!Times(ctx.waiters, o) = One(InList(ctx.waiters, o)) /\ Events!Handling(o) = One(Held(o))
  BY <1>1, EventShares DEF StackOnePlace
<1>4. ~Held(o)
  <2>1. \A a \in Agents : at[a] \notin {"try", "cleanup"}
    BY <1>1, AgentFacts DEF StackThreads
  <2> QED BY <1>1, <2>1, WhomFacts DEF HandsInv, Held, HeldBy
<1>5. /\ op[o].life = "started" <=> InList(ctx.waiters, o) \/ Woken(o) \/ StackStarting(o)
      /\ ~(InList(ctx.waiters, o) /\ Woken(o)) /\ ~(InList(ctx.waiters, o) /\ StackStarting(o))
      /\ ~(Woken(o) /\ StackStarting(o))
  BY <1>1 DEF StackOnePlace
<1>6. /\ Events!Starting(o, {"nested", "load", "push"}) = One(at[Starter(o)] \in {"load", "push"})
      /\ at[Starter(o)] # "nested"
  BY <1>1 DEF StackThreads, Events!Starting, Events!One, One, Starter
<1>7. Events!One(Events!Auto /\ (at[<<o, "start">>] = "set_done" \/ (at[<<o, "start">>] = "wake" /\ Events!Taken(o) = 0)))
        = One(at[Starter(o)] \in {"set_done", "wake"})
  <2>1. at[Starter(o)] \in {"set_done", "wake"} => AutoReset
    BY <1>1 DEF ManualInv
  <2>2. at[Starter(o)] = "wake" => Events!Taken(o) = 0
    BY <1>2, <1>5 DEF StackStarting, One
  <2> QED BY <2>1, <2>2 DEF AutoReset, Events!Auto, Events!One, One, Starter
<1>8. Events!Places(o) = One(InList(ctx.waiters, o)) + One(Woken(o)) + One(at[Starter(o)] \in {"load", "push"})
                         + One(at[Starter(o)] \in {"set_done", "wake"})
  BY <1>2, <1>3, <1>4, <1>6, <1>7 DEF Events!Places, One
<1>9. /\ StackStarting(o) <=> \/ at[Starter(o)] \in {"load", "push"}
                              \/ at[Starter(o)] \in {"set_done", "wake"}
      /\ ~(at[Starter(o)] \in {"load", "push"} /\ at[Starter(o)] \in {"set_done", "wake"})
  BY DEF StackStarting
<1> QED BY <1>5, <1>8, <1>9 DEF One

(* One of the four invariants is about the primitive that is run.          *)
LEMMA Selection == Spec => [](AnEvent \/ AMutex \/ APass \/ AList)
<1> DEFINE I == AnEvent \/ AMutex \/ APass \/ AList
<1>1. Init => I
  BY DEF Init, Events!Init, Mutex!Init, Pass!Init, List!Init, AnEvent, AMutex, APass, AList
<1>2. I /\ [Next]_vars => I'
  BY OnePrimitive DEF AnEvent, AMutex, APass, AList
<1> QED BY <1>1, <1>2, PTL DEF Spec

(* A waiter that has not been completed is in the list or word it waits in *)
(* or in the hands of one thread, and is completed once, with its callback *)
(* destroyed (cancellable.hpp: try_complete() never loses; async_mutex,    *)
(* async_pass and the events: whoever takes a waiter out completes it).    *)
THEOREM OnePlace == Spec => []WaitsInOnePlace
<1> DEFINE M == AMutex => SharedInv /\ MutexInv
           P == APass => SharedInv /\ PassInv
           L == V2 => SharedInv /\ LatchInv
           S == V1 \/ AutoReset => SharedInv /\ StackInv
           I == AnEvent \/ AMutex \/ APass \/ AList
<1>1. M /\ P /\ L /\ S /\ I => WaitsInOnePlace
  <2> SUFFICES ASSUME M, P, L, S, I, ~AList PROVE WaitsInOnePlace
    BY DEF WaitsInOnePlace
  <2>1. CASE AMutex
    <3>1. SharedInv /\ MutexInv
      BY <2>1
    <3>2. \A o \in Ops : Places(o) = Mutex!Places(o)
      BY <2>1 DEF Places, AMutex, AnEvent
    <3>3. DOMAIN op = Ops
      BY <3>1 DEF SharedInv, SharedType
    <3> QED BY <3>1, <3>2, <3>3, MutexPlaces, SignalledOnce DEF WaitsInOnePlace
  <2>2. CASE APass
    <3>1. SharedInv /\ PassInv
      BY <2>2
    <3>2. \A o \in Ops : Places(o) = Pass!Places(o)
      BY <2>2 DEF Places, APass, AnEvent
    <3>3. DOMAIN op = Ops
      BY <3>1 DEF SharedInv, SharedType
    <3> QED BY <3>1, <3>2, <3>3, PassPlaces, SignalledOnce DEF WaitsInOnePlace
  <2>3. CASE AnEvent
    <3>1. \A o \in Ops : Places(o) = Events!Places(o)
      BY <2>3 DEF Places, AnEvent
    <3>2. SharedInv /\ ((V2 /\ LatchInv) \/ StackInv)
      BY <2>3 DEF AnEvent, V1, V2, AutoReset
    <3>3. \A o \in Ops : Events!Places(o) = One(op[o].life = "started")
      BY <3>2, LatchPlaces, StackPlaces
    <3>4. DOMAIN op = Ops
      BY <3>2 DEF SharedInv, SharedType
    <3> QED BY <3>1, <3>2, <3>3, <3>4, SignalledOnce DEF WaitsInOnePlace
  <2> QED BY <2>1, <2>2, <2>3
<1> QED BY <1>1, MutexInvariance, PassInvariance, LatchInvariance, StackInvariance, Selection, PTL
=============================================================================
