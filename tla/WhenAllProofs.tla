--------------------------- MODULE WhenAllProofs ---------------------------
(***************************************************************************)
(* Proofs about WhenAll, for any number of children.                       *)
(*                                                                         *)
(* CountInv says what the count stands for: the children that have not     *)
(* given theirs back and a callback that is running, with one exception, a *)
(* callback that came too late and left its count behind.  DeliveryInv     *)
(* says that nobody delivers while somebody holds a count; CallbackInv and *)
(* StartInv tie the callback and start() to the rest; ResultInv follows    *)
(* the signals of the children into the result.                            *)
(***************************************************************************)
EXTENDS WhenAll, FiniteSetTheorems, TLAPS

\* The callback holds a count.
Holding == bpc \in {"inner", "sub"}

\* The count.
CountInv ==
  \/ refCount = Cardinality(Pending) + (IF Holding THEN 1 ELSE 0)
  \/ Pending = {} /\ bpc = "done" /\ refCount = 1

\* Who delivers, and when.
DeliveryInv ==
  /\ DeliversOnce
  /\ CompletesLast
  /\ completions > 0 <=> op = "destroyed"
  /\ Deliverers # {} \/ bpc = "deliver" => Pending = {} /\ ~Holding

\* stopCallback_ and the body of the callback.
CallbackInv ==
  /\ callback \in {"none", "registered"} => bpc = "idle"
  /\ callback = "running" => bpc \in {"add", "inner", "sub", "deliver"}
  /\ callback = "ran" => bpc = "done"
  /\ callback = "gone" => bpc \in {"idle", "deliver", "done"}
  /\ bpc \in {"add", "inner", "sub"} => callback = "running"
  /\ \A c \in Children : cpc[c] = "deliver" => callback = "gone"

\* start() and the children it has not started.
StartInv ==
  /\ spc = "idle" => callback = "none" /\ next = 1 /\ completions = 0
  /\ spc \in {"callback", "children"} => next \in Children /\ cpc[next] = "unstarted"
  /\ \A c \in Children : c >= next => cpc[c] \in {"absent", "unstarted"}
  /\ \A c, d \in Children : c < d /\ cpc[c] = "absent" => cpc[d] = "absent"
  /\ kind = "stop_when" => 1 \in Children /\ cpc[1] # "absent"

\* The signals and the result.
ResultInv ==
  /\ error # 0 => error \in Children /\ signal[error] = "error"
  /\ \A c \in Children : signal[c] = None <=> cpc[c] \in {"absent", "unstarted", "running"}
  /\ kind # "stop_when" =>
       /\ ~doneOrError => \A c \in Children : signal[c] = "value" \/ signal[c] = None
                                              \/ cpc[c] = "exchange"
       /\ doneOrError /\ error = 0 => \E c \in Children : signal[c] = "done"
       /\ \A c \in Children : cpc[c] \in {"exchange", "inner"} => signal[c] \in {"error", "done"}
  /\ ResultIsRight

Inv == /\ TypeOK /\ CountInv /\ DeliveryInv /\ CallbackInv
       /\ StartInv /\ ResultInv
-----------------------------------------------------------------------------
\* The children are finitely many, so the count of those pending is a number,
\* zero when there are none.
LEMMA PendingFinite ==
  /\ IsFiniteSet(Pending) /\ Cardinality(Pending) \in Nat
  /\ Cardinality(Pending) = 0 <=> Pending = {}
<1>1. IsFiniteSet(Children)
  BY WhenAllAssumption, FS_Interval DEF Children
<1>2. IsFiniteSet(Pending)
  BY <1>1, FS_Subset DEF Pending
<1> QED BY <1>2, FS_CardinalityType, FS_EmptySet

\* A new operation satisfies the invariant.
LEMMA InitInv == Init => Inv
<1> SUFFICES ASSUME Init PROVE Inv
  OBVIOUS
<1>1. PICK n \in 0..MaxChildren :
        /\ kind = "when_all" => n > 0
        /\ kind = "stop_when" => n = 2
        /\ refCount = n
        /\ cpc = [c \in Children |-> IF c <= n THEN "unstarted" ELSE "absent"]
  BY DEF Init
<1>2. TypeOK
  <2>1. kind \in AllKinds /\ refCount \in Nat /\ error \in 0..MaxChildren
        /\ next \in 1..(MaxChildren + 1)
    BY <1>1, WhenAllAssumption DEF Init
  <2>2. cpc \in [Children -> {"absent", "unstarted"}] /\ signal \in [Children -> {None}]
    BY <1>1 DEF Init
  <2>3. \A c \in Children : cpc[c] \in {"absent", "unstarted"} /\ signal[c] = None
    BY <2>2
  <2> QED BY <2>1, <2>2, <2>3 DEF Init, TypeOK
<1>3. Pending = 1..n
  BY <1>1, WhenAllAssumption DEF Pending, Children
<1>4. Cardinality(1..n) = n
  BY <1>1, WhenAllAssumption, FS_Interval
<1>5. CountInv
  BY <1>1, <1>3, <1>4 DEF Init, CountInv, Holding
<1>6. DeliveryInv
  BY <1>1 DEF Init, DeliveryInv, DeliversOnce, CompletesLast, Deliverers, Holding
<1>7. CallbackInv
  BY <1>1 DEF Init, CallbackInv
<1>8. StartInv
  BY <1>1, WhenAllAssumption DEF Init, StartInv, Children
<1>9. ResultInv
  BY <1>1 DEF Init, ResultInv, ResultIsRight, None
<1> QED BY <1>2, <1>5, <1>6, <1>7, <1>8, <1>9 DEF Inv

\* What a signal given to the receiver says about the children.
Explains(s) ==
  /\ kind = "stop_when" => s = signal[1] \/ (s = "error" /\ signal[1] = "value")
  /\ kind # "stop_when" =>
       /\ s = "value" => AllValues
       /\ s = "error" => AllValues \/ (error # 0 /\ signal[error] = "error")
       /\ s = "done"  => outerStop \/ \E c \in Children : signal[c] = "done"

\* When no child is pending, deliver_result() picks a signal that the children
\* explain.
LEMMA ResultExplained ==
  ASSUME Inv, Pending = {}, NEW s \in Results
  PROVE  s \in Signals /\ Explains(s)
<1>1. \A c \in Children : cpc[c] = "absent" \/ (signal[c] # None /\ cpc[c] # "exchange")
  BY DEF Inv, TypeOK, ResultInv, Pending
<1>2. CASE kind = "stop_when"
  <2>1. signal[1] \in Signals
    BY <1>1, <1>2 DEF Inv, TypeOK, StartInv, Signals, None
  <2> QED BY <2>1, <1>2 DEF Results, Result, Explains, Signals
<1>3. CASE kind # "stop_when"
  <2>1. ~doneOrError => AllValues
    BY <1>1, <1>3 DEF Inv, ResultInv, AllValues
  <2>2. error # 0 => signal[error] = "error"
    BY DEF Inv, ResultInv
  <2>3. doneOrError /\ error = 0 => \E c \in Children : signal[c] = "done"
    BY <1>3 DEF Inv, ResultInv
  <2> QED BY <2>1, <2>2, <2>3, <1>3 DEF Results, Result, Explains, Signals
<1> QED BY <1>2, <1>3

(* One lemma per action: the action preserves each part of the invariant. *)

\* start() of the operation preserves the invariant.
LEMMA StartOpInv ==
  ASSUME Inv, Start
  PROVE  Inv'
<1>1. Pending' = Pending
  BY DEF Inv, TypeOK, Start, Deliver, Pending, Signals, dataVars, cbVars, sVars, cVars,
     outVars
<1>a. completions = 0 /\ op = "alive" /\ callback = "none" /\ bpc = "idle" /\ next = 1
  BY DEF Inv, TypeOK, Start, StartInv, CallbackInv, DeliveryInv
<1>b. \A c \in Children : cpc[c] \in {"absent", "unstarted"}
  BY <1>a, WhenAllAssumption DEF Inv, StartInv, Children
<1>c. (\E c \in Children : cpc[c] # "absent") => 1 \in Children /\ cpc[1] = "unstarted"
  BY <1>b, WhenAllAssumption DEF Inv, StartInv, Children
<1>2. TypeOK'
  BY <1>a, <1>b DEF Inv, Start, Deliver, TypeOK, Children, AllKinds, Signals, dataVars,
     cbVars, sVars, cVars, outVars
<1>3. CountInv'
  BY <1>1, <1>a, <1>b DEF Inv, Start, Deliver, CountInv, Holding, dataVars, cbVars, sVars,
     cVars, outVars, TypeOK
<1>4. DeliveryInv'
  <2>1. Deliverers = {} /\ Deliverers' = {} /\ bpc' # "deliver" /\ bpc' \notin {"inner", "sub"}
    BY <1>a, <1>b DEF Start, Deliverers, cVars, cbVars
  <2>2. CASE UNCHANGED outVars
    BY <2>1, <2>2, <1>a DEF DeliveryInv, DeliversOnce, CompletesLast, outVars
  <2>3. CASE (\A c \in Children : cpc[c] = "absent") /\ Deliver("value") /\ spc' = "returned" /\ UNCHANGED cbVars
    BY <2>1, <2>3, <1>a DEF Start, DeliveryInv, DeliversOnce, CompletesLast, Deliver, cbVars, cVars
  <2> QED BY <2>2, <2>3 DEF Start
<1>5. CallbackInv'
  BY <1>a, <1>b DEF Start, CallbackInv, Deliver, cbVars, cVars, outVars
<1>6. StartInv'
  BY <1>a, <1>b, <1>c DEF Inv, TypeOK, Start, StartInv, Deliver, cbVars, cVars, outVars
<1>7. ResultInv'
  <2>1. CASE UNCHANGED outVars
    BY <2>1, <1>a DEF Inv, Start, ResultInv, ResultIsRight, AllValues, dataVars, cVars, outVars
  <2>2. CASE kind = "when_all_range" /\ (\A c \in Children : cpc[c] = "absent") /\ Deliver("value")
    <3>1. ResultIsRight'
      BY <2>2 DEF Start, ResultIsRight, AllValues, Deliver, Signals, dataVars, cVars
    <3> QED BY <3>1 DEF Inv, Start, ResultInv, dataVars, cVars
  <2> QED BY <2>1, <2>2 DEF Start
<1> QED BY <1>2, <1>3, <1>4, <1>5, <1>6, <1>7 DEF Inv

\* The return of a callback that start() runs preserves the invariant.
LEMMA InlineReturnsInv ==
  ASSUME Inv, InlineReturns
  PROVE  Inv'
<1>1. Pending' = Pending
  BY DEF Inv, TypeOK, InlineReturns, Pending, Signals, dataVars, cbVars, sVars, cVars,
     outVars
<1>2. TypeOK'
  BY DEF Inv, InlineReturns, TypeOK, Children, AllKinds, Signals, dataVars, cbVars, sVars,
     cVars, outVars
<1>3. CountInv'
  BY <1>1 DEF Inv, InlineReturns, CountInv, Holding, dataVars, cbVars, sVars, cVars,
     outVars, TypeOK
<1>4. DeliveryInv'
  BY DEF Inv, InlineReturns, DeliveryInv, DeliversOnce, CompletesLast, Holding, Pending,
     Deliverers, dataVars, cbVars, sVars, cVars, outVars, TypeOK
<1>5. CallbackInv'
  BY DEF Inv, InlineReturns, CallbackInv, dataVars, cbVars, sVars, cVars, outVars, TypeOK
<1>6. StartInv'
  BY DEF Inv, InlineReturns, StartInv, dataVars, cbVars, sVars, cVars, outVars, TypeOK
<1>7. ResultInv'
  BY DEF Inv, InlineReturns, ResultInv, ResultIsRight, AllValues, dataVars, cbVars, sVars,
     cVars, outVars, TypeOK
<1> QED BY <1>2, <1>3, <1>4, <1>5, <1>6, <1>7 DEF Inv

\* The start of a child preserves the invariant.
LEMMA StartChildInv ==
  ASSUME Inv, StartChild
  PROVE  Inv'
<1>a. next \in Children /\ cpc[next] = "unstarted"
  BY DEF Inv, StartInv, StartChild
<1>1. Pending' = Pending
  BY <1>a DEF Inv, TypeOK, StartChild, Pending
<1>2. TypeOK'
  BY WhenAllAssumption, <1>a DEF Inv, StartChild, TypeOK, Children, AllKinds, Signals,
     dataVars, cbVars, sVars, cVars, outVars
<1>3. CountInv'
  BY <1>1, <1>a DEF Inv, StartChild, CountInv, Holding, dataVars, cbVars, sVars, cVars,
     outVars, TypeOK
<1>4. DeliveryInv'
  BY <1>a DEF Inv, StartChild, DeliveryInv, DeliversOnce, CompletesLast, Holding, Pending,
     Deliverers, dataVars, cbVars, sVars, cVars, outVars, TypeOK
<1>5. CallbackInv'
  BY <1>a DEF Inv, StartChild, CallbackInv, dataVars, cbVars, sVars, cVars, outVars,
     TypeOK
<1>6. StartInv'
  BY WhenAllAssumption, <1>a DEF Inv, StartChild, StartInv, dataVars, cbVars, sVars,
     cVars, outVars, TypeOK, Children
<1>7. ResultInv'
  BY <1>a DEF Inv, StartChild, ResultInv, ResultIsRight, AllValues, dataVars, cbVars,
     sVars, cVars, outVars, TypeOK
<1> QED BY <1>2, <1>3, <1>4, <1>5, <1>6, <1>7 DEF Inv

\* The completion of a child preserves the invariant.
LEMMA ChildCompletesInv ==
  ASSUME Inv, NEW c \in Children, NEW s \in Signals, ChildCompletes(c, s)
  PROVE  Inv'
<1>1. Pending' = Pending
  BY DEF Inv, TypeOK, ChildCompletes, AfterSignal, Pending, Signals, dataVars, cbVars,
     sVars, cVars, outVars
<1>a. completions = 0
  BY DEF Inv, TypeOK, DeliveryInv, CompletesLast, ChildCompletes
<1>b. signal[c] = None /\ signal' = [signal EXCEPT ![c] = s] /\ cpc' = [cpc EXCEPT ![c] = AfterSignal(s)]
  BY DEF Inv, ResultInv, ChildCompletes
<1>2. TypeOK'
  BY DEF Inv, ChildCompletes, AfterSignal, TypeOK, Children, AllKinds, Signals, dataVars,
     cbVars, sVars, cVars, outVars
<1>3. CountInv'
  BY <1>1 DEF Inv, ChildCompletes, AfterSignal, CountInv, Holding, dataVars, cbVars,
     sVars, cVars, outVars, TypeOK
<1>4. DeliveryInv'
  BY DEF Inv, ChildCompletes, AfterSignal, DeliveryInv, DeliversOnce, CompletesLast,
     Holding, Pending, Deliverers, dataVars, cbVars, sVars, cVars, outVars, TypeOK
<1>5. CallbackInv'
  BY DEF Inv, ChildCompletes, AfterSignal, CallbackInv, dataVars, cbVars, sVars, cVars,
     outVars, TypeOK
<1>6. StartInv'
  BY DEF Inv, ChildCompletes, AfterSignal, StartInv, dataVars, cbVars, sVars, cVars,
     outVars, TypeOK
<1>7. ResultInv'
  <2>1. error' # 0 => error' \in Children /\ signal'[error'] = "error"
    BY <1>b DEF Inv, TypeOK, ResultInv, ChildCompletes, None, dataVars
  <2>2. \A d \in Children : signal'[d] = None <=> cpc'[d] \in {"absent", "unstarted", "running"}
    BY <1>b DEF Inv, TypeOK, ResultInv, ChildCompletes, AfterSignal, Signals, None
  <2>3. kind # "stop_when" =>
          \A d \in Children : cpc'[d] \in {"exchange", "inner"} => signal'[d] \in {"error", "done"}
    BY <1>b DEF Inv, TypeOK, ResultInv, AfterSignal, Signals
  <2>4. kind # "stop_when" /\ ~doneOrError =>
          \A d \in Children : signal'[d] = "value" \/ signal'[d] = None \/ cpc'[d] = "exchange"
    BY <1>b DEF Inv, TypeOK, ResultInv, AfterSignal, Signals
  <2>5. (\E d \in Children : signal[d] = "done") => \E d \in Children : signal'[d] = "done"
    BY <1>b DEF Inv, TypeOK, None
  <2> QED BY <2>1, <2>2, <2>3, <2>4, <2>5, <1>a
          DEF Inv, ResultInv, ResultIsRight, ChildCompletes, dataVars, outVars
<1> QED BY <1>2, <1>3, <1>4, <1>5, <1>6, <1>7 DEF Inv

\* The exchange of doneOrError_ preserves the invariant.
LEMMA ExchangeInv ==
  ASSUME Inv, NEW c \in Children, Exchange(c)
  PROVE  Inv'
<1>1. Pending' = Pending
  BY DEF Inv, TypeOK, Exchange, Pending, Signals, dataVars, cbVars, sVars, cVars, outVars
<1>a. completions = 0
  BY DEF Inv, TypeOK, DeliveryInv, CompletesLast, Exchange
<1>2. TypeOK'
  BY DEF Inv, Exchange, TypeOK, Children, AllKinds, Signals, dataVars, cbVars, sVars,
     cVars, outVars
<1>3. CountInv'
  BY <1>1 DEF Inv, Exchange, CountInv, Holding, dataVars, cbVars, sVars, cVars, outVars,
     TypeOK
<1>4. DeliveryInv'
  BY DEF Inv, Exchange, DeliveryInv, DeliversOnce, CompletesLast, Holding, Pending,
     Deliverers, dataVars, cbVars, sVars, cVars, outVars, TypeOK
<1>5. CallbackInv'
  BY DEF Inv, Exchange, CallbackInv, dataVars, cbVars, sVars, cVars, outVars, TypeOK
<1>6. StartInv'
  BY DEF Inv, Exchange, StartInv, dataVars, cbVars, sVars, cVars, outVars, TypeOK
<1>7. ResultInv'
  <2>1. error' # 0 => error' \in Children /\ signal'[error'] = "error"
    BY DEF Inv, ResultInv, Exchange
  <2>2. \A d \in Children : signal'[d] = None <=> cpc'[d] \in {"absent", "unstarted", "running"}
    BY DEF Inv, TypeOK, ResultInv, Exchange
  <2>3. kind # "stop_when" =>
          \A d \in Children : cpc'[d] \in {"exchange", "inner"} => signal'[d] \in {"error", "done"}
    BY DEF Inv, TypeOK, ResultInv, Exchange
  <2>4. kind # "stop_when" /\ error' = 0 => \E d \in Children : signal'[d] = "done"
    BY DEF Inv, TypeOK, ResultInv, Exchange, Children
  <2> QED BY <2>1, <2>2, <2>3, <2>4, <1>a
          DEF Inv, ResultInv, ResultIsRight, Exchange, outVars
<1> QED BY <1>2, <1>3, <1>4, <1>5, <1>6, <1>7 DEF Inv

\* The request_stop() of a child preserves the invariant.
LEMMA ChildStopsOthersInv ==
  ASSUME Inv, NEW c \in Children, ChildStopsOthers(c)
  PROVE  Inv'
<1>1. Pending' = Pending
  BY DEF Inv, TypeOK, ChildStopsOthers, Pending, Signals, dataVars, cbVars, sVars, cVars,
     outVars
<1>2. TypeOK'
  BY DEF Inv, ChildStopsOthers, TypeOK, Children, AllKinds, Signals, dataVars, cbVars,
     sVars, cVars, outVars
<1>3. CountInv'
  BY <1>1 DEF Inv, ChildStopsOthers, CountInv, Holding, dataVars, cbVars, sVars, cVars,
     outVars, TypeOK
<1>4. DeliveryInv'
  BY DEF Inv, ChildStopsOthers, DeliveryInv, DeliversOnce, CompletesLast, Holding,
     Pending, Deliverers, dataVars, cbVars, sVars, cVars, outVars, TypeOK
<1>5. CallbackInv'
  BY DEF Inv, ChildStopsOthers, CallbackInv, dataVars, cbVars, sVars, cVars, outVars,
     TypeOK
<1>6. StartInv'
  BY DEF Inv, ChildStopsOthers, StartInv, dataVars, cbVars, sVars, cVars, outVars, TypeOK
<1>7. ResultInv'
  BY DEF Inv, ChildStopsOthers, ResultInv, ResultIsRight, AllValues, dataVars, cbVars,
     sVars, cVars, outVars, TypeOK
<1> QED BY <1>2, <1>3, <1>4, <1>5, <1>6, <1>7 DEF Inv

\* element_complete() preserves the invariant.
LEMMA ElementCompleteInv ==
  ASSUME Inv, NEW c \in Children, ElementComplete(c)
  PROVE  Inv'
<1>1. c \in Pending /\ Pending' = Pending \ {c}
  BY DEF Inv, TypeOK, ElementComplete, Pending
<1>a. refCount = Cardinality(Pending) + (IF Holding THEN 1 ELSE 0)
  BY <1>1 DEF Inv, CountInv
<1>b. IsFiniteSet(Pending') /\ Cardinality(Pending') = Cardinality(Pending) - 1 /\ Cardinality(Pending') \in Nat
  BY <1>1, PendingFinite, FS_RemoveElement, FS_CardinalityType
<1>c. refCount = 1 => Pending' = {} /\ ~Holding
  <2>1. Cardinality(Pending') = 0 => Pending' = {}
    BY <1>b, FS_EmptySet
  <2>2. Cardinality(Pending) \in Nat
    BY PendingFinite
  <2>3. CASE Holding
    BY <2>2, <2>3, <1>a, <1>b
  <2>4. CASE ~Holding
    BY <2>1, <2>2, <2>4, <1>a, <1>b
  <2> QED BY <2>3, <2>4
<1>d. Deliverers = {} /\ bpc # "deliver" /\ completions = 0 /\ op = "alive"
  BY <1>1 DEF Inv, TypeOK, DeliveryInv, CompletesLast, ElementComplete
<1>2. TypeOK'
  BY <1>a, <1>b, PendingFinite DEF Inv, ElementComplete, TypeOK, Children, AllKinds,
     Signals, dataVars, cbVars, sVars, cVars, outVars
<1>3. CountInv'
  BY <1>1, <1>a, <1>b, PendingFinite DEF ElementComplete, CountInv, Holding, cbVars
<1>4. DeliveryInv'
  <2>1. \A d \in Children : d # c => cpc'[d] = cpc[d]
    BY DEF Inv, TypeOK, ElementComplete
  <2>2. \A d \in Deliverers' : d = c
    BY <2>1, <1>d DEF Deliverers
  <2>3. Deliverers' # {} => refCount = 1
    BY <2>2 DEF Inv, TypeOK, ElementComplete, Deliverers
  <2> QED BY <2>2, <2>3, <1>c, <1>d
          DEF Inv, DeliveryInv, DeliversOnce, CompletesLast, ElementComplete, Holding, cbVars, outVars
<1>5. CallbackInv'
  BY DEF Inv, ElementComplete, CallbackInv, dataVars, cbVars, sVars, cVars, outVars,
     TypeOK
<1>6. StartInv'
  BY DEF Inv, ElementComplete, StartInv, dataVars, cbVars, sVars, cVars, outVars, TypeOK
<1>7. ResultInv'
  BY DEF Inv, ElementComplete, ResultInv, ResultIsRight, AllValues, dataVars, cbVars,
     sVars, cVars, outVars, TypeOK
<1> QED BY <1>2, <1>3, <1>4, <1>5, <1>6, <1>7 DEF Inv

\* The destruction of stopCallback_ by the last child preserves the invariant.
LEMMA DestructInv ==
  ASSUME Inv, NEW c \in Children, Destruct(c)
  PROVE  Inv'
<1>1. Pending' = Pending
  BY DEF Inv, TypeOK, Destruct, Pending, Signals, dataVars, cbVars, sVars, cVars, outVars
<1>2. TypeOK'
  BY DEF Inv, Destruct, TypeOK, Children, AllKinds, Signals, dataVars, cbVars, sVars,
     cVars, outVars
<1>3. CountInv'
  BY <1>1 DEF Inv, Destruct, CountInv, Holding, dataVars, cbVars, sVars, cVars, outVars,
     TypeOK
<1>4. DeliveryInv'
  BY DEF Inv, Destruct, DeliveryInv, DeliversOnce, CompletesLast, Holding, Pending,
     Deliverers, dataVars, cbVars, sVars, cVars, outVars, TypeOK
<1>5. CallbackInv'
  BY DEF Inv, Destruct, CallbackInv, dataVars, cbVars, sVars, cVars, outVars, TypeOK
<1>6. StartInv'
  <2>1. spc # "idle"
    BY WhenAllAssumption DEF Inv, StartInv, Destruct, Children
  <2>2. \A d \in Children : d # c => cpc'[d] = cpc[d]
    BY DEF Inv, TypeOK, Destruct
  <2>3. cpc[c] \notin {"absent", "unstarted"} /\ cpc'[c] \notin {"absent", "unstarted"}
    BY DEF Inv, TypeOK, Destruct
  <2> QED BY <2>1, <2>2, <2>3 DEF Inv, TypeOK, StartInv, Destruct, sVars
<1>7. ResultInv'
  BY DEF Inv, Destruct, ResultInv, ResultIsRight, AllValues, dataVars, cbVars, sVars,
     cVars, outVars, TypeOK
<1> QED BY <1>2, <1>3, <1>4, <1>5, <1>6, <1>7 DEF Inv

\* deliver_result() by the last child preserves the invariant.
LEMMA ChildDeliversInv ==
  ASSUME Inv, NEW c \in Children, ChildDelivers(c)
  PROVE  Inv'
<1>1. Pending' = Pending
  BY DEF Inv, TypeOK, ChildDelivers, Deliver, Pending, Signals, dataVars, cbVars, sVars,
     cVars, outVars
<1>a. PICK s \in Results : Deliver(s)
  BY DEF ChildDelivers
<1>b. Pending = {}
  BY DEF Inv, DeliveryInv, Deliverers, ChildDelivers
<1>c. completions = 0
  BY DEF Inv, DeliveryInv, DeliversOnce, Deliverers, ChildDelivers
<1>d. s \in Signals /\ Explains(s)
  BY <1>b, ResultExplained
<1>2. TypeOK'
  BY <1>a, <1>d DEF Inv, ChildDelivers, Deliver, TypeOK, Children, AllKinds, Signals,
     dataVars, cbVars, sVars, cVars, outVars
<1>3. CountInv'
  BY <1>1 DEF Inv, ChildDelivers, Deliver, CountInv, Holding, dataVars, cbVars, sVars,
     cVars, outVars, TypeOK
<1>4. DeliveryInv'
  <2>1. Deliverers' = {}
    BY DEF Inv, TypeOK, DeliveryInv, DeliversOnce, Deliverers, ChildDelivers, cVars
  <2>2. spc = "returned"
    BY <1>b DEF Inv, TypeOK, StartInv, CallbackInv, Pending, ChildDelivers
  <2>3. \A d \in Children : cpc'[d] \in {"absent", "gone"}
    BY <2>1, <1>1, <1>b DEF Inv, TypeOK, Pending, Deliverers, ChildDelivers, cVars
  <2>4. bpc' \in {"idle", "done"} /\ callback' = "gone"
    BY DEF Inv, TypeOK, CallbackInv, DeliveryInv, DeliversOnce, Deliverers, ChildDelivers, cbVars
  <2> QED BY <2>1, <2>2, <2>3, <2>4, <1>a, <1>c
          DEF DeliveryInv, DeliversOnce, CompletesLast, Deliver, ChildDelivers, sVars
<1>5. CallbackInv'
  BY DEF Inv, ChildDelivers, Deliver, CallbackInv, dataVars, cbVars, sVars, cVars,
     outVars, TypeOK
<1>6. StartInv'
  <2>1. spc # "idle"
    BY WhenAllAssumption DEF Inv, StartInv, ChildDelivers, Children
  <2>2. \A d \in Children : d # c => cpc'[d] = cpc[d]
    BY DEF Inv, TypeOK, ChildDelivers
  <2>3. cpc[c] \notin {"absent", "unstarted"} /\ cpc'[c] \notin {"absent", "unstarted"}
    BY DEF Inv, TypeOK, ChildDelivers
  <2> QED BY <2>1, <2>2, <2>3 DEF Inv, TypeOK, StartInv, ChildDelivers, sVars
<1>7. ResultInv'
  <2>1. outcome' = s /\ completions' = 1 /\ error' = error /\ outerStop' = outerStop /\ kind' = kind
    BY <1>a, <1>c DEF Deliver, ChildDelivers, dataVars
  <2>2. (\A d \in Children : cpc'[d] = "absent" <=> cpc[d] = "absent") /\ signal' = signal
    BY DEF Inv, TypeOK, ChildDelivers, cVars
  <2>3. ResultIsRight'
    BY <2>1, <2>2, <1>d DEF ResultIsRight, Explains, AllValues
  <2> QED BY <2>2, <2>3 DEF Inv, TypeOK, ResultInv, ChildDelivers, dataVars
<1> QED BY <1>2, <1>3, <1>4, <1>5, <1>6, <1>7 DEF Inv

\* A stop request preserves the invariant.
LEMMA RequestStopInv ==
  ASSUME Inv, RequestStop
  PROVE  Inv'
<1>1. Pending' = Pending
  BY DEF Inv, TypeOK, RequestStop, Pending, Signals, dataVars, cbVars, sVars, cVars,
     outVars
<1>2. TypeOK'
  BY DEF Inv, RequestStop, TypeOK, Children, AllKinds, Signals, dataVars, cbVars, sVars,
     cVars, outVars
<1>3. CountInv'
  BY <1>1 DEF Inv, RequestStop, CountInv, Holding, dataVars, cbVars, sVars, cVars,
     outVars, TypeOK
<1>4. DeliveryInv'
  BY DEF Inv, RequestStop, DeliveryInv, DeliversOnce, CompletesLast, Holding, Pending,
     Deliverers, dataVars, cbVars, sVars, cVars, outVars, TypeOK
<1>5. CallbackInv'
  BY DEF Inv, RequestStop, CallbackInv, dataVars, cbVars, sVars, cVars, outVars, TypeOK
<1>6. StartInv'
  BY DEF Inv, RequestStop, StartInv, dataVars, cbVars, sVars, cVars, outVars, TypeOK
<1>7. ResultInv'
  BY DEF Inv, RequestStop, ResultInv, ResultIsRight, AllValues, dataVars, cbVars, sVars,
     cVars, outVars, TypeOK
<1> QED BY <1>2, <1>3, <1>4, <1>5, <1>6, <1>7 DEF Inv

\* The call of the stop callback preserves the invariant.
LEMMA RunCallbackInv ==
  ASSUME Inv, RunCallback
  PROVE  Inv'
<1>1. Pending' = Pending
  BY DEF Inv, TypeOK, RunCallback, Pending, Signals, dataVars, cbVars, sVars, cVars,
     outVars
<1>2. TypeOK'
  BY DEF Inv, RunCallback, TypeOK, Children, AllKinds, Signals, dataVars, cbVars, sVars,
     cVars, outVars
<1>3. CountInv'
  BY <1>1 DEF Inv, CallbackInv, CountInv, Holding, RunCallback
<1>4. DeliveryInv'
  BY DEF Inv, RunCallback, DeliveryInv, DeliversOnce, CompletesLast, Holding, Pending,
     Deliverers, dataVars, cbVars, sVars, cVars, outVars, TypeOK
<1>5. CallbackInv'
  BY DEF Inv, RunCallback, CallbackInv, dataVars, cbVars, sVars, cVars, outVars, TypeOK
<1>6. StartInv'
  BY DEF Inv, RunCallback, StartInv, dataVars, cbVars, sVars, cVars, outVars, TypeOK
<1>7. ResultInv'
  BY DEF Inv, RunCallback, ResultInv, ResultIsRight, AllValues, dataVars, cbVars, sVars,
     cVars, outVars, TypeOK
<1> QED BY <1>2, <1>3, <1>4, <1>5, <1>6, <1>7 DEF Inv

\* The fetch_add of the callback preserves the invariant.
LEMMA CallbackAddInv ==
  ASSUME Inv, CallbackAdd
  PROVE  Inv'
<1>1. Pending' = Pending
  BY DEF Inv, TypeOK, CallbackAdd, Returned, Pending, Signals, dataVars, cbVars, sVars,
     cVars, outVars
<1>a. refCount = Cardinality(Pending)
  BY PendingFinite DEF Inv, CountInv, CallbackAdd, Holding
<1>b. refCount = 0 <=> Pending = {}
  BY <1>a, PendingFinite
<1>2. TypeOK'
  BY DEF Inv, CallbackAdd, Returned, TypeOK, Children, AllKinds, Signals, dataVars,
     cbVars, sVars, cVars, outVars
<1>3. CountInv'
  <2>1. CASE refCount = 0
    BY <2>1, <1>1, <1>b DEF CallbackAdd, CountInv, Returned
  <2>2. CASE refCount # 0
    BY <2>2, <1>1, <1>a DEF CallbackAdd, CountInv, Holding
  <2> QED BY <2>1, <2>2
<1>4. DeliveryInv'
  BY <1>1, <1>b DEF Inv, CallbackAdd, Returned, DeliveryInv, DeliversOnce, CompletesLast,
     Holding, Pending, Deliverers, dataVars, cbVars, sVars, cVars, outVars, TypeOK
<1>5. CallbackInv'
  BY DEF Inv, CallbackAdd, Returned, CallbackInv, dataVars, cbVars, sVars, cVars, outVars,
     TypeOK
<1>6. StartInv'
  BY DEF Inv, CallbackAdd, Returned, StartInv, dataVars, cbVars, sVars, cVars, outVars,
     TypeOK
<1>7. ResultInv'
  BY DEF Inv, CallbackAdd, Returned, ResultInv, ResultIsRight, AllValues, dataVars,
     cbVars, sVars, cVars, outVars, TypeOK
<1> QED BY <1>2, <1>3, <1>4, <1>5, <1>6, <1>7 DEF Inv

\* The request_stop() of the callback preserves the invariant.
LEMMA CallbackStopsInv ==
  ASSUME Inv, CallbackStops
  PROVE  Inv'
<1>1. Pending' = Pending
  BY DEF Inv, TypeOK, CallbackStops, Pending, Signals, dataVars, cbVars, sVars, cVars,
     outVars
<1>2. TypeOK'
  BY DEF Inv, CallbackStops, TypeOK, Children, AllKinds, Signals, dataVars, cbVars, sVars,
     cVars, outVars
<1>3. CountInv'
  BY <1>1 DEF Inv, CallbackStops, CountInv, Holding, dataVars, cbVars, sVars, cVars,
     outVars, TypeOK
<1>4. DeliveryInv'
  BY DEF Inv, CallbackStops, DeliveryInv, DeliversOnce, CompletesLast, Holding, Pending,
     Deliverers, dataVars, cbVars, sVars, cVars, outVars, TypeOK
<1>5. CallbackInv'
  BY DEF Inv, CallbackStops, CallbackInv, dataVars, cbVars, sVars, cVars, outVars, TypeOK
<1>6. StartInv'
  BY DEF Inv, CallbackStops, StartInv, dataVars, cbVars, sVars, cVars, outVars, TypeOK
<1>7. ResultInv'
  BY DEF Inv, CallbackStops, ResultInv, ResultIsRight, AllValues, dataVars, cbVars, sVars,
     cVars, outVars, TypeOK
<1> QED BY <1>2, <1>3, <1>4, <1>5, <1>6, <1>7 DEF Inv

\* The fetch_sub of the callback preserves the invariant.
LEMMA CallbackCompleteInv ==
  ASSUME Inv, CallbackComplete
  PROVE  Inv'
<1>1. Pending' = Pending
  BY DEF Inv, TypeOK, CallbackComplete, Returned, Pending, Signals, dataVars, cbVars,
     sVars, cVars, outVars
<1>a. refCount = Cardinality(Pending) + 1
  BY DEF Inv, CountInv, CallbackComplete, Holding
<1>b. refCount = 1 <=> Pending = {}
  BY <1>a, PendingFinite
<1>c. Deliverers = {} /\ completions = 0 /\ op = "alive"
  BY DEF Inv, TypeOK, DeliveryInv, CompletesLast, CallbackComplete, Holding
<1>2. TypeOK'
  BY <1>a, PendingFinite DEF Inv, CallbackComplete, Returned, TypeOK, Children, AllKinds,
     Signals, dataVars, cbVars, sVars, cVars, outVars
<1>3. CountInv'
  BY <1>1, <1>a, PendingFinite DEF CallbackComplete, CountInv, Holding, Returned
<1>4. DeliveryInv'
  <2>1. Deliverers' = {} /\ bpc' \notin {"inner", "sub"}
    BY <1>c DEF Deliverers, CallbackComplete, Returned, cVars
  <2> QED BY <2>1, <1>1, <1>b, <1>c
          DEF DeliveryInv, DeliversOnce, CompletesLast, Holding, CallbackComplete, Returned, outVars
<1>5. CallbackInv'
  BY DEF Inv, CallbackComplete, Returned, CallbackInv, dataVars, cbVars, sVars, cVars,
     outVars, TypeOK
<1>6. StartInv'
  <2>1. spc # "idle"
    BY DEF Inv, StartInv, CallbackInv, CallbackComplete
  <2> QED BY <2>1 DEF Inv, StartInv, CallbackComplete, sVars, cVars
<1>7. ResultInv'
  BY DEF Inv, CallbackComplete, Returned, ResultInv, ResultIsRight, AllValues, dataVars,
     cbVars, sVars, cVars, outVars, TypeOK
<1> QED BY <1>2, <1>3, <1>4, <1>5, <1>6, <1>7 DEF Inv

\* deliver_result() by the callback preserves the invariant.
LEMMA CallbackDeliversInv ==
  ASSUME Inv, CallbackDelivers
  PROVE  Inv'
<1>1. Pending' = Pending
  BY DEF Inv, TypeOK, CallbackDelivers, Deliver, Pending, Signals, dataVars, cbVars,
     sVars, cVars, outVars
<1>a. PICK s \in Results : Deliver(s)
  BY DEF CallbackDelivers
<1>b. Pending = {}
  BY DEF Inv, DeliveryInv, Deliverers, CallbackDelivers
<1>c. completions = 0
  BY DEF Inv, DeliveryInv, DeliversOnce, Deliverers, CallbackDelivers
<1>d. s \in Signals /\ Explains(s)
  BY <1>b, ResultExplained
<1>2. TypeOK'
  BY <1>a, <1>d DEF Inv, CallbackDelivers, Deliver, TypeOK, Children, AllKinds, Signals,
     dataVars, cbVars, sVars, cVars, outVars
<1>3. CountInv'
  BY <1>1 DEF Inv, CallbackDelivers, Deliver, CountInv, Holding, dataVars, cbVars, sVars,
     cVars, outVars, TypeOK
<1>4. DeliveryInv'
  <2>1. Deliverers' = {}
    BY DEF Inv, TypeOK, DeliveryInv, DeliversOnce, Deliverers, CallbackDelivers, cVars
  <2>2. spc = "returned"
    BY <1>b DEF Inv, TypeOK, StartInv, CallbackInv, Pending, CallbackDelivers
  <2>3. \A d \in Children : cpc'[d] \in {"absent", "gone"}
    BY <2>1, <1>1, <1>b DEF Inv, TypeOK, Pending, Deliverers, CallbackDelivers, cVars
  <2>4. bpc' \in {"idle", "done"} /\ callback' = "gone"
    BY DEF Inv, TypeOK, CallbackInv, DeliveryInv, DeliversOnce, Deliverers, CallbackDelivers, cbVars
  <2> QED BY <2>1, <2>2, <2>3, <2>4, <1>a, <1>c
          DEF DeliveryInv, DeliversOnce, CompletesLast, Deliver, CallbackDelivers, sVars
<1>5. CallbackInv'
  BY DEF Inv, CallbackDelivers, Deliver, CallbackInv, dataVars, cbVars, sVars, cVars,
     outVars, TypeOK
<1>6. StartInv'
  <2>1. spc # "idle"
    BY DEF Inv, StartInv, CallbackInv, CallbackDelivers
  <2> QED BY <2>1 DEF Inv, StartInv, CallbackDelivers, sVars, cVars
<1>7. ResultInv'
  <2>1. outcome' = s /\ completions' = 1 /\ error' = error /\ outerStop' = outerStop /\ kind' = kind
    BY <1>a, <1>c DEF Deliver, CallbackDelivers, dataVars
  <2>2. (\A d \in Children : cpc'[d] = "absent" <=> cpc[d] = "absent") /\ signal' = signal
    BY DEF Inv, TypeOK, CallbackDelivers, cVars
  <2>3. ResultIsRight'
    BY <2>1, <2>2, <1>d DEF ResultIsRight, Explains, AllValues
  <2> QED BY <2>2, <2>3 DEF Inv, ResultInv, CallbackDelivers, dataVars, cVars
<1> QED BY <1>2, <1>3, <1>4, <1>5, <1>6, <1>7 DEF Inv

\* Every step of the specification preserves the invariant.
LEMMA NextInv == Inv /\ [Next]_vars => Inv'
<1> SUFFICES ASSUME Inv, [Next]_vars PROVE Inv'
  OBVIOUS
<1>1. CASE UNCHANGED vars
  BY <1>1 DEF vars, dataVars, cbVars, sVars, cVars, outVars, Inv, TypeOK, CountInv, Holding,
     Pending, Deliverers, DeliveryInv, DeliversOnce, CompletesLast, CallbackInv, StartInv,
     ResultInv, ResultIsRight, AllValues
<1>2. CASE Start \/ StartStep \/ CallbackStep \/ RequestStop
  BY <1>2, StartOpInv, InlineReturnsInv, StartChildInv, RequestStopInv, RunCallbackInv,
     CallbackAddInv, CallbackStopsInv, CallbackCompleteInv, CallbackDeliversInv
     DEF StartStep, CallbackStep
<1>3. CASE \E c \in Children : Completes(c) \/ ChildStep(c)
  <2>1. PICK c \in Children : Completes(c) \/ ChildStep(c)
    BY <1>3
  <2> QED BY <2>1, ChildCompletesInv, ExchangeInv, ChildStopsOthersInv, ElementCompleteInv,
             DestructInv, ChildDeliversInv DEF Completes, ChildStep
<1> QED BY <1>1, <1>2, <1>3 DEF Next, Done

\* The invariant holds in every reachable state of the operation.
THEOREM WhenAllInvariance == Spec => []Inv
BY InitInv, NextInv, PTL DEF Spec

\* Every variable keeps its type; the count never goes below zero.
THEOREM WhenAllTypeCorrect == Spec => []TypeOK
<1>1. Inv => TypeOK BY DEF Inv
<1> QED BY <1>1, WhenAllInvariance, PTL

\* The result is delivered by one party and once, for any number of children.
THEOREM DeliveredOnce == Spec => []DeliversOnce
<1>1. Inv => DeliversOnce BY DEF Inv, DeliveryInv
<1> QED BY <1>1, WhenAllInvariance, PTL

\* The receiver is completed after every child, the callback and start() have
\* finished with the operation.
THEOREM CompletedLast == Spec => []CompletesLast
<1>1. Inv => CompletesLast BY DEF Inv, DeliveryInv
<1> QED BY <1>1, WhenAllInvariance, PTL

\* The receiver gets the result that the children's signals call for.
THEOREM RightResult == Spec => []ResultIsRight
<1>1. Inv => ResultIsRight BY DEF Inv, ResultInv
<1> QED BY <1>1, WhenAllInvariance, PTL
=============================================================================
