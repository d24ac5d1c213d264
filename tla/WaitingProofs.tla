---------------------------- MODULE WaitingProofs ----------------------------
(***************************************************************************)
(* Proofs about Waiters, for any set of operations, any of which may be    *)
(* asked to stop: what the primitives share, and v2::async_mutex.  The     *)
(* others are in WaitersProofs.                                            *)
(*                                                                         *)
(* A primitive is right because every waiter is in one place: whoever      *)
(* takes it out of its list or word is the only one to complete it, so its *)
(* try_complete() never loses.  What the primitives share is in HandsInv   *)
(* and LifeInv; where a waiter is, besides the hands of a thread, and what *)
(* a thread can be doing, is in an invariant of each primitive.            *)
(***************************************************************************)
EXTENDS Waiters, FiniteSetTheorems, SequenceTheorems, TLAPS

(* The agents of an operation.                                             *)
Starter(o) == <<o, "start">>
Stopper(o) == <<o, "stop">>
Caller(o) == <<o, "then">>

Whom == {<<>>} \cup {<<o>> : o \in Ops}
AMutex == which = "async_mutex_v2"
APass == which = "async_pass"
V1 == which = "async_manual_reset_event_v1"
V2 == which = "async_manual_reset_event_v2"
AutoReset == which = "async_auto_reset_event"

(* Lists that hold an operation at most once.                              *)
InList(seq, o) == \E i \in DOMAIN seq : seq[i] = o
Once(seq) == \A i, j \in DOMAIN seq : seq[i] = seq[j] => i = j

-----------------------------------------------------------------------------
(* What the primitives share.                                              *)
Pcs == {"none", "nested", "push", "exchange", "try", "cleanup", "mark", "stop", "pop", "release",
        "empty", "reacquire", "callback", "return", "returned", "load", "wake", "set_done", "resume"}
Kinds == {"wait", "async_lock", "try_lock", "async_call", "async_throw", "async_accept",
          "try_call", "try_throw", "try_accept"}
Operation ==
  [kind : Kinds, life : {"idle", "started", "hopping", "completed"},
   bits : SUBSET {"stopped", "started", "completed"}, cb : {"none", "set", "running", "ran"},
   stopped : BOOLEAN, cancelled : BOOLEAN,
   signals : {<<>>, <<"value">>, <<"done">>, <<"error">>}, partner : Whom, result : {"value", "error"}]

SharedType ==
  /\ at \in [Agents -> Pcs] /\ whom \in [Agents -> Whom]
  /\ won \in [Agents -> Pcs] /\ lost \in [Agents -> Pcs]
  /\ op \in [Ops -> Operation]

(* An operation is in the hands of one thread, which completes it.         *)
HeldBy(a, o) == whom[a] = <<o>>
Held(o) == \E a \in Agents : HeldBy(a, o)
HandsInv ==
  /\ \A a \in Agents : at[a] \in {"try", "cleanup"} <=> whom[a] # <<>>
  /\ \A o \in Ops : \A a, b \in Agents : HeldBy(a, o) /\ HeldBy(b, o) => a = b
  /\ \A o \in Ops : Held(o) => op[o].life = "started"

(* What an operation in each stage of its life has behind it.              *)
LifeInv ==
  \A o \in Ops :
    /\ op[o].life = "idle" => /\ at[Starter(o)] = "none" /\ at[Stopper(o)] = "none"
                              /\ op[o].cb = "none" /\ op[o].bits = {}
    /\ "completed" \in op[o].bits => \/ op[o].life \in {"hopping", "completed"}
                                     \/ \E a \in Agents : HeldBy(a, o) /\ at[a] = "cleanup"
    /\ op[o].life = "completed" <=> op[o].signals # <<>>
    /\ op[o].life = "completed" => op[o].cb = "none"
    /\ op[o].life = "hopping" /\ ~AutoReset => op[o].cb = "none"
    /\ op[o].cb = "set" => at[Stopper(o)] = "none"

SharedInv == SharedType /\ HandsInv /\ LifeInv

-----------------------------------------------------------------------------
(* v2::async_mutex.  An operation that start() has not reached can only be *)
(* stopped early.                                                          *)
MutexType == ctx \in [queue_ : Seq(Ops), locked_ : BOOLEAN, started_ : SUBSET Ops]
MutexThreads ==
  \A o \in Ops :
    /\ at[Stopper(o)] \in {"none", "callback", "stop", "try", "cleanup", "return", "returned"}
    /\ at[Caller(o)] \in {"none", "pop", "release", "empty", "reacquire", "try", "cleanup", "returned"}
    /\ at[Starter(o)] \in {"none", "nested", "push", "exchange", "pop", "release", "empty", "reacquire",
                           "try", "cleanup", "mark", "stop", "returned"}
    /\ at[Stopper(o)] \in {"try", "cleanup"} => won[Stopper(o)] = "return"
    /\ at[Caller(o)] \in {"try", "cleanup"} => won[Caller(o)] = "returned"
    /\ at[Starter(o)] \in {"try", "cleanup"} => won[Starter(o)] \in {"mark", "returned"}
MutexStarted ==
  \A o \in Ops : o \notin ctx.started_ =>
    /\ at[Starter(o)] \in {"none", "nested", "stop", "try", "cleanup", "returned"}
    /\ at[Starter(o)] \in {"try", "cleanup"} => won[Starter(o)] = "returned"
    /\ "started" \notin op[o].bits /\ at[Stopper(o)] # "stop"

MutexStarting(o) ==
  \/ at[Starter(o)] \in {"nested", "push"}
  \/ at[Starter(o)] = "stop" /\ o \notin ctx.started_
MutexOnePlace ==
  /\ Once(ctx.queue_)
  /\ \A o \in Ops :
       /\ op[o].life = "started" <=> InList(ctx.queue_, o) \/ Held(o) \/ MutexStarting(o)
       /\ ~(InList(ctx.queue_, o) /\ Held(o)) /\ ~(InList(ctx.queue_, o) /\ MutexStarting(o))
       /\ ~(Held(o) /\ MutexStarting(o))
       /\ op[o].life = "idle" => o \notin ctx.started_
       /\ op[o].kind \in {"async_lock", "try_lock"} /\ op[o].result = "value"

(* The lock has one holder, and is locked while it has one.                *)
MutexLock ==
  /\ \A x, y \in Mutex!Holders : x = y
  /\ Mutex!Holders # {} => ctx.locked_

MutexInv == MutexType /\ MutexThreads /\ MutexStarted /\ MutexOnePlace /\ MutexLock

-----------------------------------------------------------------------------
(* What a list is after a push at either end.                              *)
LEMMA AppendFacts ==
  ASSUME NEW q \in Seq(Ops), NEW o \in Ops
  PROVE  /\ Append(q, o) \in Seq(Ops)
         /\ \A p \in Ops : InList(Append(q, o), p) <=> p = o \/ InList(q, p)
         /\ Once(q) /\ ~InList(q, o) => Once(Append(q, o))
<1> DEFINE r == Append(q, o)
<1>1. r \in Seq(Ops) /\ Len(r) = Len(q) + 1 /\ r[Len(q) + 1] = o /\ \A i \in 1 .. Len(q) : r[i] = q[i]
  OBVIOUS
<1>2. DOMAIN q = 1 .. Len(q) /\ DOMAIN r = 1 .. Len(q) + 1 /\ Len(q) \in Nat
  BY <1>1
<1> QED BY <1>1, <1>2 DEF InList, Once

LEMMA PrependFacts ==
  ASSUME NEW q \in Seq(Ops), NEW o \in Ops
  PROVE  /\ <<o>> \o q \in Seq(Ops) /\ <<o>> \o q # <<>>
         /\ \A p \in Ops : InList(<<o>> \o q, p) <=> p = o \/ InList(q, p)
         /\ Once(q) /\ ~InList(q, o) => Once(<<o>> \o q)
<1> DEFINE r == <<o>> \o q
<1>1. /\ r \in Seq(Ops) /\ Len(r) = Len(q) + 1 /\ r[1] = o
      /\ \A i \in 2 .. Len(q) + 1 : r[i] = q[i - 1]
  OBVIOUS
<1>2. DOMAIN q = 1 .. Len(q) /\ DOMAIN r = 1 .. Len(q) + 1 /\ Len(q) \in Nat
  BY <1>1
<1> HIDE DEF r
<1>3. ASSUME NEW i \in DOMAIN q PROVE i + 1 \in DOMAIN r /\ r[i + 1] = q[i]
  BY <1>1, <1>2
<1>4. ASSUME NEW i \in DOMAIN r, i # 1 PROVE i - 1 \in DOMAIN q /\ r[i] = q[i - 1]
  BY <1>1, <1>2, <1>4
<1>5. \A p \in Ops : InList(r, p) <=> p = o \/ InList(q, p)
  BY <1>1, <1>2, <1>3, <1>4 DEF InList
<1>6. ASSUME Once(q), ~InList(q, o), NEW i \in DOMAIN r, NEW j \in DOMAIN r, r[i] = r[j] PROVE i = j
  <2>1. CASE i # 1 /\ j # 1
    <3>1. i - 1 = j - 1
      BY <1>4, <1>6, <2>1 DEF Once
    <3> QED BY <3>1, <1>2
  <2> QED BY <2>1, <1>1, <1>4, <1>6 DEF InList
<1>7. r # <<>>
  BY <1>1, <1>2
<1> QED BY <1>1, <1>5, <1>6, <1>7 DEF r, Once

(* What it is after a pop.                                                 *)
LEMMA TailFacts ==
  ASSUME NEW q \in Seq(Ops), q # <<>>
  PROVE  /\ Head(q) \in Ops /\ Tail(q) \in Seq(Ops) /\ InList(q, Head(q))
         /\ \A p \in Ops : InList(q, p) <=> p = Head(q) \/ InList(Tail(q), p)
         /\ Once(q) => Once(Tail(q)) /\ ~InList(Tail(q), Head(q))
<1> DEFINE r == Tail(q)
<1>1. /\ Head(q) = q[1] /\ Len(q) \in Nat /\ Len(q) > 0
      /\ r \in Seq(Ops) /\ Len(r) = Len(q) - 1 /\ \A i \in 1 .. Len(q) - 1 : r[i] = q[i + 1]
  OBVIOUS
<1>2. DOMAIN q = 1 .. Len(q) /\ DOMAIN r = 1 .. Len(q) - 1 /\ Head(q) \in Ops
  BY <1>1
<1> HIDE DEF r
<1>3. ASSUME NEW i \in DOMAIN r PROVE i + 1 \in DOMAIN q /\ i + 1 # 1 /\ r[i] = q[i + 1]
  BY <1>1, <1>2
<1>4. ASSUME NEW i \in DOMAIN q, i # 1 PROVE i - 1 \in DOMAIN r /\ r[i - 1] = q[i]
  BY <1>1, <1>2, <1>4
<1>5. 1 \in DOMAIN q /\ q[1] = Head(q)
  BY <1>1, <1>2
<1>6. \A p \in Ops : InList(q, p) <=> p = Head(q) \/ InList(r, p)
  BY <1>3, <1>4, <1>5 DEF InList
<1>7. ASSUME Once(q), NEW i \in DOMAIN r, NEW j \in DOMAIN r, r[i] = r[j] PROVE i = j
  <2>1. i + 1 = j + 1
    BY <1>3, <1>7 DEF Once
  <2> QED BY <2>1, <1>2, <1>1
<1>8. Once(q) => ~InList(r, Head(q))
  BY <1>3, <1>5 DEF Once, InList
<1>9. Head(q) \in Ops /\ r \in Seq(Ops) /\ InList(q, Head(q))
  BY <1>1, <1>2, <1>5 DEF InList
<1> QED BY <1>6, <1>7, <1>8, <1>9 DEF r, Once

(* What it is after a removal.                                             *)
LEMMA WithoutFacts ==
  ASSUME NEW q \in Seq(Ops), NEW o \in Ops, Once(q)
  PROVE  /\ Without(q, o) \in Seq(Ops)
         /\ \A p \in Ops : InList(Without(q, o), p) <=> p # o /\ InList(q, p)
         /\ Once(Without(q, o))
<1>1. CASE ~InList(q, o)
  BY <1>1 DEF Without, InList
<1>2. CASE InList(q, o)
  <2> DEFINE k == CHOOSE i \in DOMAIN q : q[i] = o
             r == RemoveAt(q, k)
  <2>1. Without(q, o) = r
    BY <1>2 DEF Without, InList
  <2>2. k \in 1 .. Len(q) /\ q[k] = o /\ Len(q) \in Nat /\ DOMAIN q = 1 .. Len(q)
    BY <1>2 DEF InList
  <2> HIDE DEF k
  <2>3. /\ r \in Seq(Ops) /\ Len(r) = Len(q) - 1
        /\ \A i \in 1 .. Len(q) - 1 : r[i] = IF i < k THEN q[i] ELSE q[i + 1]
    <3> DEFINE b == SubSeq(q, 1, k - 1)
               c == SubSeq(q, k + 1, Len(q))
    <3>1. b \in Seq(Ops) /\ Len(b) = k - 1 /\ \A i \in 1 .. k - 1 : b[i] = q[i]
      BY <2>2
    <3>2. c \in Seq(Ops) /\ Len(c) = Len(q) - k /\ \A i \in 1 .. Len(q) - k : c[i] = q[k + i]
      <4>1. \A i \in k + 1 .. Len(q) : q[i] \in Ops
        BY <2>2
      <4>2. /\ c \in Seq(Ops) /\ Len(c) = IF k + 1 <= Len(q) THEN Len(q) - (k + 1) + 1 ELSE 0
            /\ \A i \in 1 .. Len(q) - (k + 1) + 1 : c[i] = q[k + 1 + i - 1]
        <5>1. k + 1 \in Int /\ Len(q) \in Int
          BY <2>2
        <5> QED BY <4>1, <5>1, SubSeqProperties
      <4> HIDE DEF c
      <4>3. Len(q) - (k + 1) + 1 = Len(q) - k /\ \A i \in 1 .. Len(q) - k : k + 1 + i - 1 = k + i
        BY <2>2
      <4>4. Len(c) = Len(q) - k
        <5>1. k \in Int /\ Len(q) \in Int /\ k <= Len(q)
          BY <2>2
        <5>2. CASE k + 1 <= Len(q)
          BY <4>2, <4>3, <5>2
        <5>3. CASE ~(k + 1 <= Len(q))
          <6>1. Len(q) - k = 0
            BY <5>1, <5>3
          <6> QED BY <4>2, <5>3, <6>1
        <5> QED BY <5>2, <5>3
      <4>5. ASSUME NEW i \in 1 .. Len(q) - k PROVE c[i] = q[k + i]
        <5>1. c[i] = q[k + 1 + i - 1]
          BY <4>2, <4>3
        <5> QED BY <5>1, <4>3
      <4> QED BY <4>2, <4>4, <4>5
    <3>3. r = b \o c
      BY DEF RemoveAt
    <3> HIDE DEF b, c
    <3>4. r \in Seq(Ops) /\ Len(r) = Len(q) - 1
      <4>3. b \in Seq(Ops) /\ c \in Seq(Ops)
        BY <3>1, <3>2
      <4>1. b \o c \in Seq(Ops) /\ Len(b \o c) = Len(b) + Len(c)
        BY <4>3, ConcatProperties
      <4>2. Len(b) + Len(c) = Len(q) - 1
        BY <3>1, <3>2, <2>2
      <4> QED BY <4>1, <4>2, <3>3
    <3>5. ASSUME NEW i \in 1 .. Len(q) - 1 PROVE r[i] = IF i < k THEN q[i] ELSE q[i + 1]
      <4>1. CASE i < k
        BY <3>1, <3>2, <3>3, <2>2, <4>1
      <4>2. CASE ~(i < k)
        <5>1. r[i] = c[i - (k - 1)] /\ i - (k - 1) \in 1 .. Len(q) - k
          BY <3>1, <3>2, <3>3, <2>2, <4>2
        <5>2. k + (i - (k - 1)) = i + 1
          BY <2>2
        <5> QED BY <5>1, <5>2, <3>2, <4>2
      <4> QED BY <4>1, <4>2
    <3> QED BY <3>4, <3>5
  <2> HIDE DEF r
  <2>4. DOMAIN r = 1 .. Len(q) - 1
    BY <2>3, <2>2
  <2>5. \A i \in DOMAIN q : i # k => q[i] # o
    BY <2>2 DEF Once
  <2>6. ASSUME NEW i \in DOMAIN r
        PROVE  LET j == IF i < k THEN i ELSE i + 1 IN j \in DOMAIN q /\ j # k /\ r[i] = q[j]
    BY <2>2, <2>3, <2>4
  <2>7. ASSUME NEW j \in DOMAIN q, j # k
        PROVE  LET i == IF j < k THEN j ELSE j - 1 IN i \in DOMAIN r /\ r[i] = q[j]
    BY <2>2, <2>3, <2>4, <2>7
  <2>8. ASSUME NEW p \in Ops PROVE InList(r, p) <=> p # o /\ InList(q, p)
    <3>1. InList(r, p) => p # o /\ InList(q, p)
      BY <2>5, <2>6 DEF InList
    <3>2. p # o /\ InList(q, p) => InList(r, p)
      BY <2>2, <2>7 DEF InList
    <3> QED BY <3>1, <3>2
  <2>9. ASSUME NEW i \in DOMAIN r, NEW j \in DOMAIN r, r[i] = r[j] PROVE i = j
    <3>1. (IF i < k THEN i ELSE i + 1) = (IF j < k THEN j ELSE j + 1)
      BY <2>6, <2>9 DEF Once
    <3> QED BY <3>1, <2>2, <2>4
  <2> QED BY <2>1, <2>3, <2>8, <2>9 DEF Once
<1> QED BY <1>1, <1>2

LEMMA WhomFacts ==
  /\ <<>> \in Whom
  /\ \A o \in Ops : <<o>> \in Whom /\ <<o>> # <<>> /\ <<o>>[1] = o
  /\ \A w \in Whom : w # <<>> => w[1] \in Ops /\ w = <<w[1]>>
  /\ \A o, p \in Ops : <<o>> = <<p>> => o = p
BY DEF Whom

LEMMA AgentFacts ==
  /\ \A o \in Ops : Starter(o) \in Agents /\ Stopper(o) \in Agents /\ Caller(o) \in Agents
  /\ \A a \in Agents : a[1] \in Ops /\ (a = Starter(a[1]) \/ a = Stopper(a[1]) \/ a = Caller(a[1]))
BY DEF Agents, Starter, Stopper, Caller

LEMMA AgentOf ==
  \A o \in Ops :
    /\ Starter(o)[1] = o /\ Stopper(o)[1] = o /\ Caller(o)[1] = o
    /\ Starter(o)[2] = "start" /\ Stopper(o)[2] = "stop" /\ Caller(o)[2] = "then"
BY DEF Starter, Stopper, Caller

-----------------------------------------------------------------------------
(* A thread moves on.                                                      *)
SameStage ==
  \A p \in Ops : /\ op'[p].life = op[p].life /\ op'[p].signals = op[p].signals
                 /\ op[p].cb = "none" => op'[p].cb = "none"
                 /\ op'[p].cb = "set" => op[p].cb = "set"
                 /\ "completed" \in op'[p].bits => "completed" \in op[p].bits
                 /\ op[p].life = "idle" => op'[p].bits = op[p].bits
Moves(a, pc) == \A b \in Agents : at'[b] = IF b = a THEN pc ELSE at[b]

LEMMA GotoMoves ==
  ASSUME SharedType, NEW a \in Agents, NEW pc, Goto(a, pc)
  PROVE  /\ Moves(a, pc) /\ won' = won
         /\ \A b \in Agents, p \in Ops : HeldBy(b, p)' <=> HeldBy(b, p)
         /\ \A p \in Ops : Held(p)' <=> Held(p)
<1>1. Moves(a, pc) /\ whom' = whom /\ won' = won
  BY DEF SharedType, Goto, Moves
<1>2. \A b \in Agents, p \in Ops : HeldBy(b, p)' <=> HeldBy(b, p)
  BY <1>1 DEF HeldBy
<1>3. \A p \in Ops : Held(p)' <=> Held(p)
  BY <1>2 DEF Held
<1> QED BY <1>1, <1>2, <1>3

LEMMA GotoShared ==
  ASSUME SharedInv, NEW a \in Agents, NEW pc \in Pcs, Goto(a, pc),
         at[a] \notin {"try", "cleanup"}, pc \notin {"try", "cleanup"},
         a = Caller(a[1]) \/ op[a[1]].life # "idle",
         a = Caller(a[1]) \/ at[a] # "none" \/ op'[a[1]].cb # "set",
         op' \in [Ops -> Operation], SameStage, which' = which
  PROVE  SharedInv'
<1>1. SharedType /\ HandsInv /\ LifeInv
  BY DEF SharedInv
<1>2. /\ Moves(a, pc) /\ \A b \in Agents, p \in Ops : HeldBy(b, p)' <=> HeldBy(b, p)
      /\ \A p \in Ops : Held(p)' <=> Held(p)
  BY <1>1, GotoMoves
<1>3. whom' = whom
  BY DEF Goto
<1>4. SharedType'
  BY <1>1 DEF SharedType, Goto
<1>5. HandsInv'
  <2>1. \A b \in Agents : (at[b] \in {"try", "cleanup"} <=> whom[b] # <<>>)'
    BY <1>1, <1>2, <1>3 DEF HandsInv, Moves
  <2>2. \A o \in Ops : (Held(o) => op[o].life = "started")'
    BY <1>1, <1>2 DEF HandsInv, SameStage
  <2>3. \A o \in Ops : \A b, c \in Agents : HeldBy(b, o)' /\ HeldBy(c, o)' => b = c
    BY <1>1, <1>2 DEF HandsInv
  <2> QED BY <2>1, <2>2, <2>3 DEF HandsInv
<1>6. LifeInv'
  <2> SUFFICES ASSUME NEW o \in Ops
               PROVE /\ op'[o].life = "idle" => /\ at'[Starter(o)] = "none" /\ at'[Stopper(o)] = "none"
                              /\ op'[o].cb = "none" /\ op'[o].bits = {}
                     /\ "completed" \in op'[o].bits => \/ op'[o].life \in {"hopping", "completed"}
                                     \/ \E b \in Agents : HeldBy(b, o)' /\ at'[b] = "cleanup"
                     /\ op'[o].life = "completed" <=> op'[o].signals # <<>>
                     /\ op'[o].life = "completed" => op'[o].cb = "none"
                     /\ op'[o].life = "hopping" /\ ~AutoReset' => op'[o].cb = "none"
                     /\ op'[o].cb = "set" => at'[Stopper(o)] = "none"
    BY DEF LifeInv
  <2>1. op[o].life = "idle" => Starter(o) # a /\ Stopper(o) # a
    BY AgentOf, AgentFacts
  <2>2. "completed" \in op[o].bits => \/ op[o].life \in {"hopping", "completed"}
                                     \/ \E b \in Agents : HeldBy(b, o) /\ at[b] = "cleanup"
    BY <1>1 DEF LifeInv
  <2>3. \A b \in Agents : at[b] = "cleanup" => at'[b] = "cleanup"
    BY <1>2 DEF Moves
  <2>4. AutoReset' = AutoReset
    BY DEF AutoReset
  <2>5. op'[o].life = "idle" => at'[Starter(o)] = "none" /\ at'[Stopper(o)] = "none"
    BY <1>1, <1>2, <2>1, AgentFacts DEF LifeInv, SameStage, Moves
  <2>6. op'[o].cb = "set" => at'[Stopper(o)] = "none"
    <3>1. op'[o].cb = "set" => at[Stopper(o)] = "none"
      BY <1>1 DEF LifeInv, SameStage
    <3>2. op'[o].cb = "set" => Stopper(o) # a
      BY <3>1, AgentFacts, AgentOf
    <3> QED BY <1>2, <3>1, <3>2, AgentFacts DEF Moves
  <2> QED BY <1>1, <1>2, <2>2, <2>3, <2>4, <2>5, <2>6 DEF LifeInv, SameStage
<1> QED BY <1>4, <1>5, <1>6 DEF SharedInv

LEMMA StayShared ==
  ASSUME SharedInv, UNCHANGED threads, op' \in [Ops -> Operation], SameStage, which' = which
  PROVE  SharedInv' /\ \A p \in Ops : Held(p)' <=> Held(p)
<1>1. SharedType /\ HandsInv /\ LifeInv
  BY DEF SharedInv
<1>2. at' = at /\ whom' = whom /\ won' = won /\ lost' = lost
  BY DEF threads
<1>3. \A b \in Agents, p \in Ops : HeldBy(b, p)' <=> HeldBy(b, p)
  BY <1>2 DEF HeldBy
<1>4. \A p \in Ops : Held(p)' <=> Held(p)
  BY <1>3 DEF Held
<1>5. SharedType'
  BY <1>1, <1>2 DEF SharedType
<1>6. HandsInv'
  BY <1>1, <1>2, <1>3, <1>4 DEF HandsInv, SameStage
<1>7. LifeInv'
  <2>1. AutoReset' = AutoReset
    BY DEF AutoReset
  <2> QED BY <1>1, <1>2, <1>3, <2>1 DEF LifeInv, SameStage
<1> QED BY <1>4, <1>5, <1>6, <1>7 DEF SharedInv

(* An operation that never waits completes in its start().                 *)
LEMMA AtOnceShared ==
  ASSUME SharedInv, UNCHANGED threads, op' \in [Ops -> Operation], which' = which,
         \A p \in Ops : /\ op'[p].bits = op[p].bits /\ op'[p].cb = op[p].cb
                        /\ \/ op'[p].life = op[p].life /\ op'[p].signals = op[p].signals
                           \/ op[p].life = "idle" /\ op'[p].life = "completed" /\ op'[p].signals # <<>>
  PROVE  SharedInv' /\ \A p \in Ops : Held(p)' <=> Held(p)
<1>1. SharedType /\ HandsInv /\ LifeInv
  BY DEF SharedInv
<1>2. at' = at /\ whom' = whom /\ won' = won /\ lost' = lost
  BY DEF threads
<1>3. \A b \in Agents, p \in Ops : HeldBy(b, p)' <=> HeldBy(b, p)
  BY <1>2 DEF HeldBy
<1>4. \A p \in Ops : Held(p)' <=> Held(p)
  BY <1>3 DEF Held
<1>5. SharedType'
  BY <1>1, <1>2 DEF SharedType
<1>6. HandsInv'
  BY <1>1, <1>2, <1>3, <1>4 DEF HandsInv
<1>7. LifeInv'
  <2>1. AutoReset' = AutoReset
    BY DEF AutoReset
  <2> QED BY <1>1, <1>2, <1>3, <2>1 DEF LifeInv
<1> QED BY <1>4, <1>5, <1>6, <1>7 DEF SharedInv

(* It takes w into its hands to complete it.                               *)
LEMMA CompleteMoves ==
  ASSUME SharedType, NEW a \in Agents, NEW w \in Ops, NEW x, NEW y, CompleteThen(a, w, x, y), whom[a] = <<>>
  PROVE  /\ Moves(a, "try") /\ \A b \in Agents : won'[b] = IF b = a THEN x ELSE won[b]
         /\ \A b \in Agents, p \in Ops : HeldBy(b, p)' <=> IF b = a THEN p = w ELSE HeldBy(b, p)
         /\ \A p \in Ops : Held(p)' <=> p = w \/ Held(p)
<1>1. Moves(a, "try") /\ \A b \in Agents : won'[b] = IF b = a THEN x ELSE won[b]
  BY DEF SharedType, CompleteThen, Moves
<1>2. \A b \in Agents : whom'[b] = IF b = a THEN <<w>> ELSE whom[b]
  BY DEF SharedType, CompleteThen
<1>3. \A b \in Agents, p \in Ops : HeldBy(b, p)' <=> IF b = a THEN p = w ELSE HeldBy(b, p)
  BY <1>2, WhomFacts DEF HeldBy
<1>4. \A p \in Ops : ~HeldBy(a, p)
  BY WhomFacts DEF HeldBy
<1>5. \A p \in Ops : Held(p)' <=> p = w \/ Held(p)
  BY <1>3, <1>4 DEF Held
<1> QED BY <1>1, <1>3, <1>5

LEMMA CompleteShared ==
  ASSUME SharedInv, NEW a \in Agents, NEW w \in Ops, NEW x \in Pcs, NEW y \in Pcs, CompleteThen(a, w, x, y),
         at[a] \notin {"try", "cleanup"}, a = Caller(a[1]) \/ op'[a[1]].life # "idle",
         at[a] # "none" \/ op'[a[1]].cb # "set",
         ~Held(w), op[w].life = "started",
         op' \in [Ops -> Operation], which' = which,
         \A p \in Ops : /\ op'[p].bits = op[p].bits /\ op'[p].cb = op[p].cb
                        /\ \/ op'[p].life = op[p].life /\ op'[p].signals = op[p].signals
                           \/ op[p].life = "idle" /\ op'[p].life = "completed" /\ op'[p].signals # <<>>
  PROVE  SharedInv'
<1>1. SharedType /\ HandsInv /\ LifeInv
  BY DEF SharedInv
<1>2. whom[a] = <<>>
  BY <1>1 DEF HandsInv
<1>3. /\ Moves(a, "try") /\ \A b \in Agents, p \in Ops : HeldBy(b, p)' <=> IF b = a THEN p = w ELSE HeldBy(b, p)
      /\ \A p \in Ops : Held(p)' <=> p = w \/ Held(p)
  BY <1>1, <1>2, CompleteMoves
<1>4. \A b \in Agents : whom'[b] = IF b = a THEN <<w>> ELSE whom[b]
  BY <1>1 DEF SharedType, CompleteThen
<1>5. SharedType'
  <2>1. at' \in [Agents -> Pcs] /\ won' \in [Agents -> Pcs] /\ lost' \in [Agents -> Pcs]
    BY <1>1 DEF SharedType, CompleteThen, Pcs
  <2>2. whom' \in [Agents -> Whom]
    BY <1>1, WhomFacts DEF SharedType, CompleteThen
  <2> QED BY <2>1, <2>2 DEF SharedType
<1>6. HandsInv'
  <2>1. \A b \in Agents : (at[b] \in {"try", "cleanup"} <=> whom[b] # <<>>)'
    BY <1>1, <1>3, <1>4, WhomFacts DEF HandsInv, Moves
  <2>2. \A o \in Ops : (Held(o) => op[o].life = "started")'
    BY <1>1, <1>3 DEF HandsInv
  <2>3. \A o \in Ops : \A b, c \in Agents : HeldBy(b, o)' /\ HeldBy(c, o)' => b = c
    BY <1>1, <1>3 DEF HandsInv, Held
  <2> QED BY <2>1, <2>2, <2>3 DEF HandsInv
<1>7. LifeInv'
  <2> SUFFICES ASSUME NEW o \in Ops
               PROVE /\ op'[o].life = "idle" => /\ at'[Starter(o)] = "none" /\ at'[Stopper(o)] = "none"
                              /\ op'[o].cb = "none" /\ op'[o].bits = {}
                     /\ "completed" \in op'[o].bits => \/ op'[o].life \in {"hopping", "completed"}
                                     \/ \E b \in Agents : HeldBy(b, o)' /\ at'[b] = "cleanup"
                     /\ op'[o].life = "completed" <=> op'[o].signals # <<>>
                     /\ op'[o].life = "completed" => op'[o].cb = "none"
                     /\ op'[o].life = "hopping" /\ ~AutoReset' => op'[o].cb = "none"
                     /\ op'[o].cb = "set" => at'[Stopper(o)] = "none"
    BY DEF LifeInv
  <2>1. op'[o].life = "idle" => Starter(o) # a /\ Stopper(o) # a
    BY AgentOf, AgentFacts
  <2>2. "completed" \in op[o].bits => \/ op[o].life \in {"hopping", "completed"}
                                     \/ \E b \in Agents : HeldBy(b, o)' /\ at'[b] = "cleanup"
    BY <1>1, <1>3 DEF LifeInv, Moves
  <2>4. AutoReset' = AutoReset
    BY DEF AutoReset
  <2>5. op'[o].life = "idle" => at'[Starter(o)] = "none" /\ at'[Stopper(o)] = "none"
    BY <1>1, <1>3, <2>1, AgentFacts DEF LifeInv, Moves
  <2>6. op'[o].cb = "set" => at'[Stopper(o)] = "none"
    <3>1. op'[o].cb = "set" => at[Stopper(o)] = "none"
      BY <1>1 DEF LifeInv
    <3>2. op'[o].cb = "set" => Stopper(o) # a
      BY <3>1, AgentOf
    <3> QED BY <1>3, <3>1, <3>2, AgentFacts DEF Moves
  <2> QED BY <1>1, <1>3, <2>2, <2>4, <2>5, <2>6 DEF LifeInv
<1> QED BY <1>5, <1>6, <1>7 DEF SharedInv

-----------------------------------------------------------------------------
(* The steps of cancellable and of the completion.                         *)
SameFields(o) ==
  /\ op'[o].kind = op[o].kind /\ op'[o].cancelled = op[o].cancelled
  /\ op'[o].partner = op[o].partner /\ op'[o].result = op[o].result

TryCompleted(a, w) ==
  /\ HeldBy(a, w) /\ at[a] = "try" /\ Goto(a, "cleanup") /\ UNCHANGED <<which, ctx, local>>
  /\ op' \in [Ops -> Operation]
  /\ \A p \in Ops : /\ op'[p].life = op[p].life /\ op'[p].signals = op[p].signals
                    /\ op'[p].cb = op[p].cb /\ SameFields(p)
                    /\ op'[p].bits = IF p = w THEN op[p].bits \cup {"completed"} ELSE op[p].bits

(* try_complete() never loses.                                             *)
LEMMA TryCompleteStep ==
  ASSUME SharedInv, NEW a \in Agents, try_complete(a)
  PROVE  \E w \in Ops : TryCompleted(a, w)
<1>1. SharedType /\ HandsInv /\ LifeInv
  BY DEF SharedInv
<1>2. PICK w \in Ops : HeldBy(a, w) /\ at[a] = "try" /\ w = whom[a][1]
  BY <1>1, WhomFacts DEF SharedType, HandsInv, try_complete, HeldBy
<1>3. "completed" \notin op[w].bits
  <2>1. op[w].life = "started" /\ \A b \in Agents : HeldBy(b, w) => b = a
    BY <1>1, <1>2 DEF HandsInv, Held
  <2> QED BY <1>1, <1>2, <2>1 DEF LifeInv
<1>4. Goto(a, "cleanup") /\ UNCHANGED <<which, ctx, local>> /\ op' = [op EXCEPT ![w].bits = @ \cup {"completed"}]
  BY <1>2, <1>3 DEF try_complete
<1>5. op[w] \in Operation
  BY <1>1 DEF SharedType
<1>6. [op[w] EXCEPT !.bits = @ \cup {"completed"}] \in Operation
  BY <1>5 DEF Operation
<1>7. op' \in [Ops -> Operation]
  BY <1>1, <1>4, <1>6 DEF SharedType
<1>8. \A p \in Ops : /\ op'[p].life = op[p].life /\ op'[p].signals = op[p].signals
                     /\ op'[p].cb = op[p].cb /\ SameFields(p)
                     /\ op'[p].bits = IF p = w THEN op[p].bits \cup {"completed"} ELSE op[p].bits
  <2> SUFFICES ASSUME NEW p \in Ops
               PROVE  /\ op'[p].life = op[p].life /\ op'[p].signals = op[p].signals
                      /\ op'[p].cb = op[p].cb /\ SameFields(p)
                      /\ op'[p].bits = IF p = w THEN op[p].bits \cup {"completed"} ELSE op[p].bits
    OBVIOUS
  <2> DEFINE x == op[w].bits \cup {"completed"}
  <2>1. op'[p] = IF p = w THEN [op[w] EXCEPT !.bits = x] ELSE op[p]
    BY <1>1, <1>4 DEF SharedType
  <2> HIDE DEF x
  <2>2. op'[p].bits = IF p = w THEN x ELSE op[p].bits
    BY <1>5, <2>1 DEF Operation
  <2>3. /\ op'[p].life = op[p].life /\ op'[p].signals = op[p].signals
        /\ op'[p].cb = op[p].cb /\ SameFields(p)
    BY <1>5, <2>1 DEF SameFields, Operation
  <2> QED BY <2>2, <2>3 DEF x
<1> QED BY <1>2, <1>4, <1>7, <1>8 DEF TryCompleted

LEMMA TryCompleteShared ==
  ASSUME SharedInv, NEW a \in Agents, try_complete(a)
  PROVE  SharedInv'
<1>1. SharedType /\ HandsInv /\ LifeInv
  BY DEF SharedInv
<1>2. PICK w \in Ops : TryCompleted(a, w)
  BY TryCompleteStep
<1> USE DEF TryCompleted
<1>3. /\ Moves(a, "cleanup") /\ \A b \in Agents, p \in Ops : HeldBy(b, p)' <=> HeldBy(b, p)
      /\ \A p \in Ops : Held(p)' <=> Held(p)
  BY <1>1, <1>2, GotoMoves
<1>4. whom' = whom /\ won' = won /\ lost' = lost
  BY <1>2 DEF Goto
<1>5. SharedType'
  BY <1>1, <1>2, <1>4 DEF SharedType, Goto, Pcs
<1>6. HandsInv'
  <2>1. \A b \in Agents : (at[b] \in {"try", "cleanup"} <=> whom[b] # <<>>)'
    BY <1>1, <1>2, <1>3, <1>4 DEF HandsInv, Moves
  <2>2. \A o \in Ops : (Held(o) => op[o].life = "started")'
    BY <1>1, <1>2, <1>3 DEF HandsInv
  <2>3. \A o \in Ops : \A b, c \in Agents : HeldBy(b, o)' /\ HeldBy(c, o)' => b = c
    BY <1>1, <1>3 DEF HandsInv
  <2> QED BY <2>1, <2>2, <2>3 DEF HandsInv
<1>7. LifeInv'
  <2> SUFFICES ASSUME NEW o \in Ops
               PROVE /\ op'[o].life = "idle" => /\ at'[Starter(o)] = "none" /\ at'[Stopper(o)] = "none"
                              /\ op'[o].cb = "none" /\ op'[o].bits = {}
                     /\ "completed" \in op'[o].bits => \/ op'[o].life \in {"hopping", "completed"}
                                     \/ \E b \in Agents : HeldBy(b, o)' /\ at'[b] = "cleanup"
                     /\ op'[o].life = "completed" <=> op'[o].signals # <<>>
                     /\ op'[o].life = "completed" => op'[o].cb = "none"
                     /\ op'[o].life = "hopping" /\ ~AutoReset' => op'[o].cb = "none"
                     /\ op'[o].cb = "set" => at'[Stopper(o)] = "none"
    BY DEF LifeInv
  <2>1. op[o].life = "idle" => o # w
    BY <1>1, <1>2 DEF HandsInv, Held
  <2>2. op[o].life = "idle" => at'[Starter(o)] = "none" /\ at'[Stopper(o)] = "none"
    BY <1>1, <1>2, <1>3, AgentFacts DEF LifeInv, Moves
  <2>3. "completed" \in op'[o].bits => \/ op[o].life \in {"hopping", "completed"}
                                     \/ \E b \in Agents : HeldBy(b, o)' /\ at'[b] = "cleanup"
    <3>1. CASE o = w
      BY <1>2, <1>3, <3>1 DEF Moves
    <3>2. CASE o # w
      <4>1. op'[o].bits = op[o].bits
        BY <1>2, <3>2
      <4>2. \A b \in Agents : at[b] = "cleanup" => at'[b] = "cleanup"
        BY <1>3 DEF Moves
      <4> QED BY <1>1, <1>3, <4>1, <4>2 DEF LifeInv
    <3> QED BY <3>1, <3>2
  <2>4. AutoReset' = AutoReset
    BY <1>2 DEF AutoReset
  <2>6. op'[o].cb = "set" => at'[Stopper(o)] = "none"
    BY <1>1, <1>2, <1>3, AgentFacts DEF LifeInv, Moves
  <2> QED BY <1>1, <1>2, <2>1, <2>2, <2>3, <2>4, <2>6 DEF LifeInv
<1> QED BY <1>5, <1>6, <1>7 DEF SharedInv

CleanedUp(a, w) ==
  /\ HeldBy(a, w) /\ at[a] = "cleanup" /\ Moves(a, won[a]) /\ UNCHANGED <<which, ctx, local>>
  /\ \A b \in Agents : won'[b] = IF b = a THEN "none" ELSE won[b]
  /\ \A b \in Agents, p \in Ops : HeldBy(b, p)' <=> b # a /\ HeldBy(b, p)
  /\ \A p \in Ops : Held(p)' <=> p # w /\ Held(p)
  /\ op' \in [Ops -> Operation]
  /\ \A p \in Ops : /\ op'[p].life = IF p = w THEN "hopping" ELSE op[p].life
                    /\ op'[p].signals = op[p].signals /\ op'[p].bits = op[p].bits
                    /\ op'[p].cb = IF p = w THEN "none" ELSE op[p].cb
                    /\ SameFields(p)

(* The winner destroys the callback and lets the operation go.             *)
LEMMA CleanupStep ==
  ASSUME SharedInv, NEW a \in Agents, cleanup_(a)
  PROVE  \E w \in Ops : CleanedUp(a, w)
<1>1. SharedType /\ HandsInv /\ LifeInv
  BY DEF SharedInv
<1>2. PICK w \in Ops : HeldBy(a, w) /\ at[a] = "cleanup" /\ w = whom[a][1]
  BY <1>1, WhomFacts DEF SharedType, HandsInv, cleanup_, HeldBy
<1>3. /\ Release(a, won[a]) /\ UNCHANGED <<which, ctx, local>>
      /\ op' = [op EXCEPT ![w].cb = "none", ![w].life = "hopping"]
  BY <1>2 DEF cleanup_
<1>4. Moves(a, won[a]) /\ \A b \in Agents : won'[b] = IF b = a THEN "none" ELSE won[b]
  BY <1>1, <1>3 DEF SharedType, Release, Moves
<1>5. \A b \in Agents, p \in Ops : HeldBy(b, p)' <=> b # a /\ HeldBy(b, p)
  BY <1>1, <1>3, WhomFacts DEF SharedType, Release, HeldBy
<1>6. \A b \in Agents, p \in Ops : HeldBy(b, p) => (b = a <=> p = w)
  <2>1. \A p \in Ops : HeldBy(a, p) => p = w
    BY <1>2, WhomFacts DEF HeldBy
  <2>2. \A b \in Agents : HeldBy(b, w) => b = a
    BY <1>1, <1>2 DEF HandsInv
  <2> QED BY <2>1, <2>2
<1>7. \A p \in Ops : Held(p)' <=> p # w /\ Held(p)
  BY <1>5, <1>6 DEF Held
<1>8. op' \in [Ops -> Operation]
  <2>1. op[w] \in Operation
    BY <1>1 DEF SharedType
  <2>2. [op[w] EXCEPT !.cb = "none", !.life = "hopping"] \in Operation
    BY <2>1 DEF Operation
  <2> QED BY <1>1, <1>3, <2>2 DEF SharedType
<1>9. \A p \in Ops : /\ op'[p].life = IF p = w THEN "hopping" ELSE op[p].life
                     /\ op'[p].signals = op[p].signals /\ op'[p].bits = op[p].bits
                     /\ op'[p].cb = IF p = w THEN "none" ELSE op[p].cb
                     /\ SameFields(p)
  BY <1>1, <1>3 DEF SharedType, SameFields, Operation
<1> QED BY <1>2, <1>3, <1>4, <1>5, <1>7, <1>8, <1>9 DEF CleanedUp

LEMMA CleanupShared ==
  ASSUME SharedInv, NEW a \in Agents, cleanup_(a), won[a] \notin {"try", "cleanup"}
  PROVE  SharedInv'
<1>1. SharedType /\ HandsInv /\ LifeInv
  BY DEF SharedInv
<1>2. PICK w \in Ops : CleanedUp(a, w)
  BY CleanupStep
<1> USE DEF CleanedUp
<1>3. Release(a, won[a])
  BY DEF cleanup_
<1>4. SharedType'
  <2>1. at' \in [Agents -> Pcs] /\ won' \in [Agents -> Pcs] /\ lost' \in [Agents -> Pcs]
    BY <1>1, <1>3 DEF SharedType, Release, Pcs
  <2>2. whom' \in [Agents -> Whom]
    BY <1>1, <1>3, WhomFacts DEF SharedType, Release
  <2> QED BY <1>2, <2>1, <2>2 DEF SharedType
<1>5. HandsInv'
  <2>1. \A b \in Agents : whom'[b] = IF b = a THEN <<>> ELSE whom[b]
    BY <1>1, <1>3 DEF SharedType, Release
  <2>2. \A b \in Agents : (at[b] \in {"try", "cleanup"} <=> whom[b] # <<>>)'
    BY <1>1, <1>2, <2>1 DEF HandsInv, Moves
  <2>3. \A o \in Ops : (Held(o) => op[o].life = "started")'
    BY <1>1, <1>2 DEF HandsInv
  <2>4. \A o \in Ops : \A b, c \in Agents : HeldBy(b, o)' /\ HeldBy(c, o)' => b = c
    BY <1>1, <1>2 DEF HandsInv
  <2> QED BY <2>2, <2>3, <2>4 DEF HandsInv
<1>6. LifeInv'
  <2> SUFFICES ASSUME NEW o \in Ops
               PROVE /\ op'[o].life = "idle" => /\ at'[Starter(o)] = "none" /\ at'[Stopper(o)] = "none"
                              /\ op'[o].cb = "none" /\ op'[o].bits = {}
                     /\ "completed" \in op'[o].bits => \/ op'[o].life \in {"hopping", "completed"}
                                     \/ \E b \in Agents : HeldBy(b, o)' /\ at'[b] = "cleanup"
                     /\ op'[o].life = "completed" <=> op'[o].signals # <<>>
                     /\ op'[o].life = "completed" => op'[o].cb = "none"
                     /\ op'[o].life = "hopping" /\ ~AutoReset' => op'[o].cb = "none"
                     /\ op'[o].cb = "set" => at'[Stopper(o)] = "none"
    BY DEF LifeInv
  <2>1. op[w].life = "started"
    BY <1>1, <1>2 DEF HandsInv, Held
  <2>2. op[o].life = "idle" => at'[Starter(o)] = "none" /\ at'[Stopper(o)] = "none"
    BY <1>1, <1>2, AgentFacts DEF LifeInv, Moves
  <2>3. \A b \in Agents : o # w /\ HeldBy(b, o) /\ at[b] = "cleanup" => HeldBy(b, o)' /\ at'[b] = "cleanup"
    <3>1. o # w => ~HeldBy(a, o)
      BY <1>2, WhomFacts DEF HeldBy
    <3> QED BY <1>2, <3>1 DEF Moves
  <2>4. AutoReset' = AutoReset
    BY <1>2 DEF AutoReset
  <2>5. "completed" \in op'[o].bits => \/ op'[o].life \in {"hopping", "completed"}
                                     \/ \E b \in Agents : HeldBy(b, o)' /\ at'[b] = "cleanup"
    BY <1>1, <1>2, <2>3 DEF LifeInv
  <2>6. op'[o].cb = "set" => at'[Stopper(o)] = "none"
    BY <1>1, <1>2, AgentFacts DEF LifeInv, Moves
  <2> QED BY <1>1, <1>2, <2>1, <2>2, <2>4, <2>5, <2>6 DEF LifeInv
<1> QED BY <1>4, <1>5, <1>6 DEF SharedInv

(* The hop to the receiver's scheduler ends with the receiver's signal.    *)
Forwarded(o) ==
  /\ op[o].life = "hopping" /\ UNCHANGED <<which, ctx, threads, local>>
  /\ op' \in [Ops -> Operation]
  /\ \A p \in Ops : /\ op'[p].life = IF p = o THEN "completed" ELSE op[p].life
                    /\ op'[p].signals = IF p = o THEN <<Signal(o)>> ELSE op[p].signals
                    /\ op'[p].cb = op[p].cb /\ op'[p].bits = op[p].bits /\ SameFields(p)
LEMMA ForwardStep ==
  ASSUME SharedInv, NEW o \in Ops, forward_set_value(o)
  PROVE  Forwarded(o)
<1>1. SharedType /\ LifeInv
  BY DEF SharedInv
<1>2. op[o].life = "hopping" /\ UNCHANGED <<which, ctx, threads, local>>
  BY DEF forward_set_value
<1>3. op[o] \in Operation
  BY <1>1 DEF SharedType
<1>4. op[o].signals = <<>>
  BY <1>1, <1>2 DEF LifeInv
<1>5. Signal(o) \in {"value", "done", "error"}
  BY <1>3 DEF Signal, Operation
<1> DEFINE x == <<Signal(o)>>
<1>6. op' = [op EXCEPT ![o].life = "completed", ![o].signals = x]
  <2>1. Append(op[o].signals, Signal(o)) = <<Signal(o)>>
    BY <1>4
  <2> QED BY <2>1 DEF forward_set_value
<1>7. x \in {<<>>, <<"value">>, <<"done">>, <<"error">>}
  BY <1>5
<1> HIDE DEF x
<1>8. [op[o] EXCEPT !.life = "completed", !.signals = x] \in Operation
  BY <1>3, <1>7 DEF Operation
<1>9. op' \in [Ops -> Operation]
  BY <1>1, <1>6, <1>8 DEF SharedType
<1>10. ASSUME NEW p \in Ops
       PROVE  /\ op'[p].life = IF p = o THEN "completed" ELSE op[p].life
              /\ op'[p].signals = IF p = o THEN x ELSE op[p].signals
              /\ op'[p].cb = op[p].cb /\ op'[p].bits = op[p].bits /\ SameFields(p)
  <2>1. op'[p] = IF p = o THEN [op[o] EXCEPT !.life = "completed", !.signals = x] ELSE op[p]
    BY <1>1, <1>6 DEF SharedType
  <2> QED BY <1>3, <2>1 DEF SameFields, Operation
<1> QED BY <1>2, <1>9, <1>10 DEF Forwarded, x

LEMMA ForwardShared ==
  ASSUME SharedInv, NEW o \in Ops, Forwarded(o), ~AutoReset
  PROVE  SharedInv' /\ \A p \in Ops : Held(p)' <=> Held(p)
<1>1. SharedType /\ HandsInv /\ LifeInv
  BY DEF SharedInv
<1>2. at' = at /\ whom' = whom /\ won' = won /\ lost' = lost /\ which' = which
  BY DEF Forwarded, threads
<1>3. \A b \in Agents, p \in Ops : HeldBy(b, p)' <=> HeldBy(b, p)
  BY <1>2 DEF HeldBy
<1>4. \A p \in Ops : Held(p)' <=> Held(p)
  BY <1>3 DEF Held
<1>5. SharedType'
  BY <1>1, <1>2 DEF SharedType, Forwarded
<1>6. HandsInv'
  BY <1>1, <1>2, <1>3, <1>4 DEF HandsInv, Forwarded
<1>7. LifeInv'
  <2>1. <<Signal(o)>> # <<>> /\ ~AutoReset'
    BY <1>2 DEF AutoReset
  <2> QED BY <1>1, <1>2, <1>3, <2>1 DEF LifeInv, Forwarded
<1> QED BY <1>4, <1>5, <1>6, <1>7 DEF SharedInv

(* start() of cancellable.                                                 *)
Begun(o, pc) ==
  /\ op[o].life = "idle" /\ Goto(Starter(o), pc)
  /\ op' \in [Ops -> Operation]
  /\ \A p \in Ops : /\ op'[p].life = IF p = o THEN "started" ELSE op[p].life
                    /\ op'[p].signals = op[p].signals /\ SameFields(p)
                    /\ p # o => op'[p].cb = op[p].cb /\ op'[p].bits = op[p].bits
                    /\ p = o => op'[p].bits \subseteq {"stopped"}
LEMMA StartStep ==
  ASSUME SharedInv, NEW o \in Ops, NEW early \in BOOLEAN, Start(o, early)
  PROVE  /\ Begun(o, IF early /\ op[o].stopped THEN "stop" ELSE "nested")
         /\ UNCHANGED <<which, ctx, local>>
<1>1. SharedType /\ LifeInv
  BY DEF SharedInv
<1> DEFINE x == IF op[o].stopped THEN {"stopped"} ELSE {}
           y == NewCallback(o)
<1>2. /\ op[o].life = "idle" /\ UNCHANGED <<which, ctx, local>>
      /\ Goto(Starter(o), IF early /\ op[o].stopped THEN "stop" ELSE "nested")
      /\ op' = [op EXCEPT ![o].life = "started", ![o].bits = x, ![o].cb = y]
  BY DEF Start, Starter
<1>3. x \subseteq {"stopped"} /\ y \in {"none", "set", "running", "ran"}
  BY DEF NewCallback
<1> HIDE DEF x, y
<1>4. op[o] \in Operation
  BY <1>1 DEF SharedType
<1>5. [op[o] EXCEPT !.life = "started", !.bits = x, !.cb = y] \in Operation
  BY <1>3, <1>4 DEF Operation
<1>6. op' \in [Ops -> Operation]
  BY <1>1, <1>2, <1>5 DEF SharedType
<1>7. ASSUME NEW p \in Ops
      PROVE  /\ op'[p].life = IF p = o THEN "started" ELSE op[p].life
             /\ op'[p].signals = op[p].signals /\ SameFields(p)
             /\ p # o => op'[p].cb = op[p].cb /\ op'[p].bits = op[p].bits
             /\ p = o => op'[p].bits = x
  <2>1. op'[p] = IF p = o THEN [op[o] EXCEPT !.life = "started", !.bits = x, !.cb = y] ELSE op[p]
    BY <1>1, <1>2 DEF SharedType
  <2> QED BY <1>4, <2>1 DEF SameFields, Operation
<1> QED BY <1>2, <1>3, <1>6, <1>7 DEF Begun

LEMMA StartShared ==
  ASSUME SharedInv, NEW o \in Ops, NEW pc \in Pcs \ {"try", "cleanup"}, Begun(o, pc), which' = which
  PROVE  SharedInv'
<1>1. SharedType /\ HandsInv /\ LifeInv
  BY DEF SharedInv
<1>2. Goto(Starter(o), pc) /\ Starter(o) \in Agents /\ at[Starter(o)] = "none" /\ op[o].life = "idle"
  BY <1>1, AgentFacts DEF Begun, LifeInv
<1>3. /\ Moves(Starter(o), pc) /\ \A b \in Agents, p \in Ops : HeldBy(b, p)' <=> HeldBy(b, p)
      /\ \A p \in Ops : Held(p)' <=> Held(p)
  BY <1>1, <1>2, GotoMoves
<1>4. whom' = whom
  BY <1>2 DEF Goto
<1>5. SharedType'
  BY <1>1, <1>2 DEF SharedType, Goto, Begun
<1>6. HandsInv'
  <2>1. \A b \in Agents : (at[b] \in {"try", "cleanup"} <=> whom[b] # <<>>)'
    BY <1>1, <1>2, <1>3, <1>4 DEF HandsInv, Moves
  <2>2. \A p \in Ops : (Held(p) => op[p].life = "started")'
    BY <1>1, <1>3 DEF HandsInv, Begun
  <2>3. \A p \in Ops : \A b, c \in Agents : HeldBy(b, p)' /\ HeldBy(c, p)' => b = c
    BY <1>1, <1>3 DEF HandsInv
  <2> QED BY <2>1, <2>2, <2>3 DEF HandsInv
<1>7. LifeInv'
  <2> SUFFICES ASSUME NEW p \in Ops
               PROVE /\ op'[p].life = "idle" => /\ at'[Starter(p)] = "none" /\ at'[Stopper(p)] = "none"
                              /\ op'[p].cb = "none" /\ op'[p].bits = {}
                     /\ "completed" \in op'[p].bits => \/ op'[p].life \in {"hopping", "completed"}
                                     \/ \E b \in Agents : HeldBy(b, p)' /\ at'[b] = "cleanup"
                     /\ op'[p].life = "completed" <=> op'[p].signals # <<>>
                     /\ op'[p].life = "completed" => op'[p].cb = "none"
                     /\ op'[p].life = "hopping" /\ ~AutoReset' => op'[p].cb = "none"
                     /\ op'[p].cb = "set" => at'[Stopper(p)] = "none"
    BY DEF LifeInv
  <2>1. AutoReset' = AutoReset
    BY DEF AutoReset
  <2>2. p # o => Starter(p) # Starter(o)
    BY AgentOf
  <2>3. Stopper(p) # Starter(o)
    BY AgentOf
  <2>4. at[Stopper(p)] = at'[Stopper(p)] /\ (p # o => at[Starter(p)] = at'[Starter(p)])
    BY <1>3, <2>2, <2>3, AgentFacts DEF Moves
  <2>5. \A b \in Agents : at[b] = "cleanup" => at'[b] = "cleanup"
    BY <1>2, <1>3 DEF Moves
  <2>6. "completed" \in op'[p].bits => \/ op'[p].life \in {"hopping", "completed"}
                                     \/ \E b \in Agents : HeldBy(b, p)' /\ at'[b] = "cleanup"
    <3>1. CASE p = o
      BY <3>1 DEF Begun
    <3>2. CASE p # o
      BY <1>1, <1>3, <2>5, <3>2 DEF LifeInv, Begun
    <3> QED BY <3>1, <3>2
  <2> QED BY <1>1, <1>2, <2>1, <2>4, <2>6 DEF LifeInv, Begun
<1> QED BY <1>5, <1>6, <1>7 DEF SharedInv

(* The steps of the stop callback, which change neither the life of an     *)
(* operation nor whose hands it is in.                                     *)
Cancels ==
  /\ SameStage /\ op' \in [Ops -> Operation] /\ UNCHANGED <<which, ctx, local>>
  /\ \A p \in Ops : SameFields(p)
LEMMA MarkStartedStep ==
  ASSUME SharedInv, NEW o \in Ops, MarkStarted(o)
  PROVE  /\ Cancels /\ at[Starter(o)] = "mark"
         /\ Goto(Starter(o), IF op[o].bits = {"stopped"} THEN "stop" ELSE "returned")
         /\ \A p \in Ops : "started" \in op'[p].bits => p = o \/ "started" \in op[p].bits
<1>1. SharedType /\ LifeInv
  BY DEF SharedInv
<1> DEFINE x == op[o].bits \cup {"started"}
<1>2. /\ at[Starter(o)] = "mark" /\ op' = [op EXCEPT ![o].bits = x] /\ UNCHANGED <<which, ctx, local>>
      /\ Goto(Starter(o), IF op[o].bits = {"stopped"} THEN "stop" ELSE "returned")
  BY DEF MarkStarted, Starter
<1>3. op[o] \in Operation /\ op[o].life # "idle"
  BY <1>1, <1>2 DEF SharedType, LifeInv
<1>4. x \in SUBSET {"stopped", "started", "completed"} /\ ("completed" \in x => "completed" \in op[o].bits)
  BY <1>3 DEF Operation
<1> HIDE DEF x
<1>5. [op[o] EXCEPT !.bits = x] \in Operation
  BY <1>3, <1>4 DEF Operation
<1>6. op' \in [Ops -> Operation]
  BY <1>1, <1>2, <1>5 DEF SharedType
<1>7. ASSUME NEW p \in Ops
      PROVE  /\ op'[p].life = op[p].life /\ op'[p].signals = op[p].signals /\ op'[p].cb = op[p].cb
             /\ SameFields(p) /\ op'[p].bits = IF p = o THEN x ELSE op[p].bits
  <2>1. op'[p] = IF p = o THEN [op[o] EXCEPT !.bits = x] ELSE op[p]
    BY <1>1, <1>2 DEF SharedType
  <2> QED BY <1>3, <2>1 DEF SameFields, Operation
<1>8. SameStage
  BY <1>3, <1>4, <1>7 DEF SameStage
<1> QED BY <1>2, <1>6, <1>7, <1>8 DEF Cancels

LEMMA StopCallbackStep ==
  ASSUME SharedInv, NEW o \in Ops, StopCallback(o)
  PROVE  /\ Cancels /\ at[Stopper(o)] = "callback"
         /\ Goto(Stopper(o), IF op[o].bits = {"started"} THEN "stop" ELSE "return")
         /\ \A p \in Ops : "started" \in op'[p].bits => "started" \in op[p].bits
<1>1. SharedType /\ LifeInv
  BY DEF SharedInv
<1> DEFINE x == op[o].bits \cup {"stopped"}
<1>2. /\ at[Stopper(o)] = "callback" /\ op' = [op EXCEPT ![o].bits = x] /\ UNCHANGED <<which, ctx, local>>
      /\ Goto(Stopper(o), IF op[o].bits = {"started"} THEN "stop" ELSE "return")
  BY DEF StopCallback, Stopper
<1>3. op[o] \in Operation /\ op[o].life # "idle"
  BY <1>1, <1>2 DEF SharedType, LifeInv
<1>4. /\ x \in SUBSET {"stopped", "started", "completed"} /\ ("completed" \in x => "completed" \in op[o].bits)
      /\ "started" \in x => "started" \in op[o].bits
  BY <1>3 DEF Operation
<1> HIDE DEF x
<1>5. [op[o] EXCEPT !.bits = x] \in Operation
  BY <1>3, <1>4 DEF Operation
<1>6. op' \in [Ops -> Operation]
  BY <1>1, <1>2, <1>5 DEF SharedType
<1>7. ASSUME NEW p \in Ops
      PROVE  /\ op'[p].life = op[p].life /\ op'[p].signals = op[p].signals /\ op'[p].cb = op[p].cb
             /\ SameFields(p) /\ op'[p].bits = IF p = o THEN x ELSE op[p].bits
  <2>1. op'[p] = IF p = o THEN [op[o] EXCEPT !.bits = x] ELSE op[p]
    BY <1>1, <1>2 DEF SharedType
  <2> QED BY <1>3, <2>1 DEF SameFields, Operation
<1>8. SameStage
  BY <1>3, <1>4, <1>7 DEF SameStage
<1> QED BY <1>2, <1>4, <1>6, <1>7, <1>8 DEF Cancels

LEMMA CallbackReturnsStep ==
  ASSUME SharedInv, NEW o \in Ops, CallbackReturns(o)
  PROVE  /\ Cancels /\ at[Stopper(o)] = "return" /\ Goto(Stopper(o), "returned")
         /\ \A p \in Ops : op'[p].bits = op[p].bits
<1>1. SharedType /\ LifeInv
  BY DEF SharedInv
<1> DEFINE x == IF op[o].cb = "running" THEN "ran" ELSE op[o].cb
<1>2. /\ at[Stopper(o)] = "return" /\ op' = [op EXCEPT ![o].cb = x] /\ UNCHANGED <<which, ctx, local>>
      /\ Goto(Stopper(o), "returned")
  BY DEF CallbackReturns, Stopper
<1>3. op[o] \in Operation /\ op[o].life # "idle"
  BY <1>1, <1>2 DEF SharedType, LifeInv
<1>4. x \in {"none", "set", "running", "ran"} /\ (op[o].cb = "none" => x = "none") /\ (x = "set" => op[o].cb = "set")
  BY <1>3 DEF Operation
<1> HIDE DEF x
<1>5. [op[o] EXCEPT !.cb = x] \in Operation
  BY <1>3, <1>4 DEF Operation
<1>6. op' \in [Ops -> Operation]
  BY <1>1, <1>2, <1>5 DEF SharedType
<1>7. ASSUME NEW p \in Ops
      PROVE  /\ op'[p].life = op[p].life /\ op'[p].signals = op[p].signals /\ op'[p].bits = op[p].bits
             /\ SameFields(p) /\ op'[p].cb = IF p = o THEN x ELSE op[p].cb
  <2>1. op'[p] = IF p = o THEN [op[o] EXCEPT !.cb = x] ELSE op[p]
    BY <1>1, <1>2 DEF SharedType
  <2> QED BY <1>3, <2>1 DEF SameFields, Operation
<1>8. SameStage
  BY <1>3, <1>4, <1>7 DEF SameStage
<1> QED BY <1>2, <1>6, <1>7, <1>8 DEF Cancels

LEMMA RequestStopStep ==
  ASSUME SharedInv, NEW o \in Ops, RequestStop(o)
  PROVE  /\ Cancels /\ \A p \in Ops : op'[p].bits = op[p].bits
         /\ \/ /\ op[o].cb = "set" /\ op'[o].cb # "set" /\ op[o].life # "idle"
               /\ at[Stopper(o)] = "none" /\ Goto(Stopper(o), "callback")
            \/ UNCHANGED threads
<1>1. SharedType /\ LifeInv
  BY DEF SharedInv
<1> DEFINE x == IF op[o].cb = "set" THEN "running" ELSE op[o].cb
<1>2. op[o] \in Operation
  BY <1>1 DEF SharedType
<1>3. op' = [op EXCEPT ![o].stopped = TRUE, ![o].cb = x] /\ UNCHANGED <<which, ctx, local>>
  <2>1. CASE op[o].cb = "set"
    BY <2>1 DEF RequestStop
  <2>2. CASE op[o].cb # "set"
    <3>1. op' = [op EXCEPT ![o] = [op[o] EXCEPT !.stopped = TRUE]]
      BY <2>2 DEF RequestStop
    <3>2. [op[o] EXCEPT !.stopped = TRUE] = [op[o] EXCEPT !.stopped = TRUE, !.cb = x]
      BY <1>2, <2>2 DEF Operation
    <3> QED BY <3>1, <3>2 DEF RequestStop
  <2> QED BY <2>1, <2>2
<1>4. x \in {"none", "set", "running", "ran"} /\ (op[o].cb = "none" => x = "none") /\ (x = "set" => op[o].cb = "set")
  BY <1>2 DEF Operation
<1> HIDE DEF x
<1>5. [op[o] EXCEPT !.stopped = TRUE, !.cb = x] \in Operation
  BY <1>2, <1>4 DEF Operation
<1>6. op' \in [Ops -> Operation]
  BY <1>1, <1>3, <1>5 DEF SharedType
<1>7. ASSUME NEW p \in Ops
      PROVE  /\ op'[p].life = op[p].life /\ op'[p].signals = op[p].signals /\ op'[p].bits = op[p].bits
             /\ SameFields(p) /\ op'[p].cb = IF p = o THEN x ELSE op[p].cb
  <2>1. op'[p] = IF p = o THEN [op[o] EXCEPT !.stopped = TRUE, !.cb = x] ELSE op[p]
    BY <1>1, <1>3 DEF SharedType
  <2> QED BY <1>2, <2>1 DEF SameFields, Operation
<1>8. SameStage
  BY <1>4, <1>7 DEF SameStage
<1>9. \/ op[o].cb = "set" /\ op[o].life # "idle" /\ at[Stopper(o)] = "none" /\ Goto(Stopper(o), "callback")
      \/ UNCHANGED threads
  BY <1>1 DEF RequestStop, Stopper, LifeInv
<1>10. op[o].cb = "set" => op'[o].cb # "set"
  BY <1>7 DEF x
<1> QED BY <1>3, <1>6, <1>7, <1>8, <1>9, <1>10 DEF Cancels

LEMMA CancellationShared ==
  ASSUME SharedInv, NEW o \in Ops,
         MarkStarted(o) \/ StopCallback(o) \/ CallbackReturns(o) \/ RequestStop(o)
  PROVE  SharedInv' /\ Cancels /\ \A p \in Ops : Held(p)' <=> Held(p)
<1>1. SharedType /\ LifeInv
  BY DEF SharedInv
<1>2. Starter(o) \in Agents /\ Stopper(o) \in Agents /\ Starter(o)[1] = o /\ Stopper(o)[1] = o
  BY AgentFacts, AgentOf
<1>3. CASE MarkStarted(o)
  <2>1. PICK pc \in {"stop", "returned"} : Cancels /\ at[Starter(o)] = "mark" /\ Goto(Starter(o), pc)
    BY <1>3, MarkStartedStep
  <2>2. op[o].life # "idle"
    BY <1>1, <2>1 DEF LifeInv
  <2>3. SharedInv'
    BY <1>2, <2>1, <2>2, GotoShared DEF Cancels, Pcs
  <2> QED BY <1>1, <1>2, <2>1, <2>3, GotoMoves
<1>4. CASE StopCallback(o)
  <2>1. PICK pc \in {"stop", "return"} : Cancels /\ at[Stopper(o)] = "callback" /\ Goto(Stopper(o), pc)
    BY <1>4, StopCallbackStep
  <2>2. op[o].life # "idle"
    BY <1>1, <2>1 DEF LifeInv
  <2>3. SharedInv'
    BY <1>2, <2>1, <2>2, GotoShared DEF Cancels, Pcs
  <2> QED BY <1>1, <1>2, <2>1, <2>3, GotoMoves
<1>5. CASE CallbackReturns(o)
  <2>1. Cancels /\ at[Stopper(o)] = "return" /\ Goto(Stopper(o), "returned")
    BY <1>5, CallbackReturnsStep
  <2>2. op[o].life # "idle"
    BY <1>1, <2>1 DEF LifeInv
  <2>3. SharedInv'
    BY <1>2, <2>1, <2>2, GotoShared DEF Cancels, Pcs
  <2> QED BY <1>1, <1>2, <2>1, <2>3, GotoMoves
<1>6. CASE RequestStop(o)
  <2>1. Cancels /\ \/ /\ op'[o].cb # "set" /\ op[o].life # "idle"
                      /\ at[Stopper(o)] = "none" /\ Goto(Stopper(o), "callback")
                   \/ UNCHANGED threads
    BY <1>6, RequestStopStep
  <2>2. CASE UNCHANGED threads
    BY <2>1, <2>2, StayShared DEF Cancels
  <2>3. CASE /\ op'[o].cb # "set" /\ op[o].life # "idle"
             /\ at[Stopper(o)] = "none" /\ Goto(Stopper(o), "callback")
    <3>1. SharedInv'
      BY <1>2, <2>1, <2>3, GotoShared DEF Cancels, Pcs
    <3> QED BY <1>1, <1>2, <2>1, <2>3, <3>1, GotoMoves
  <2> QED BY <2>1, <2>2, <2>3
<1> QED BY <1>3, <1>4, <1>5, <1>6

-----------------------------------------------------------------------------
(* v2::async_mutex.                                                        *)
LEMMA AgentsDiffer ==
  \A o, p \in Ops : /\ Starter(o) # Stopper(p) /\ Starter(o) # Caller(p) /\ Stopper(o) # Caller(p)
                    /\ Starter(o) = Starter(p) => o = p
                    /\ Stopper(o) = Stopper(p) => o = p
                    /\ Caller(o) = Caller(p) => o = p
BY AgentOf

(* The lock stays with its holder, or goes to x.                           *)
LEMMA LockKept ==
  ASSUME MutexLock, ctx.locked_ => ctx'.locked_,
         \A p \in Ops : Mutex!Owns(p)' => Mutex!Owns(p),
         \A p \in Ops : Mutex!GivenLock(p)' => Mutex!GivenLock(p),
         \A b \in Agents : at'[b] \in {"pop", "release"} => at[b] \in {"pop", "release"}
  PROVE  MutexLock'
<1>1. Mutex!Holders' \subseteq Mutex!Holders
  BY DEF Mutex!Holders, Mutex!Agents, Agents
<1> QED BY <1>1 DEF MutexLock

LEMMA LockGoesTo ==
  ASSUME NEW x, ctx'.locked_,
         \A p \in Ops : Mutex!Owns(p)' => x = <<p, "owner">>,
         \A p \in Ops : Mutex!GivenLock(p)' => x = <<p, "given">>,
         \A b \in Agents : at'[b] \in {"pop", "release"} => x = b
  PROVE  MutexLock'
<1>1. \A y \in Mutex!Holders' : y = x
  BY DEF Mutex!Holders, Mutex!Agents, Agents
<1> QED BY <1>1 DEF MutexLock

(* Who has the lock is the only one.                                       *)
LEMMA HoldersAre ==
  ASSUME MutexLock
  PROVE  /\ \A p, q \in Ops : Mutex!Owns(p) /\ Mutex!Owns(q) => p = q
         /\ \A p, q \in Ops : Mutex!GivenLock(p) /\ Mutex!GivenLock(q) => p = q
         /\ \A p, q \in Ops : ~(Mutex!Owns(p) /\ Mutex!GivenLock(q))
         /\ \A a, b \in Agents : at[a] \in {"pop", "release"} /\ at[b] \in {"pop", "release"} => a = b
         /\ \A a \in Agents, p \in Ops : at[a] \in {"pop", "release"} => ~Mutex!Owns(p) /\ ~Mutex!GivenLock(p)
         /\ ~ctx.locked_ => /\ \A p \in Ops : ~Mutex!Owns(p) /\ ~Mutex!GivenLock(p)
                            /\ \A a \in Agents : at[a] \notin {"pop", "release"}
<1>1. \A p \in Ops : Mutex!Owns(p) => <<p, "owner">> \in Mutex!Holders
  BY DEF Mutex!Holders
<1>2. \A p \in Ops : Mutex!GivenLock(p) => <<p, "given">> \in Mutex!Holders
  BY DEF Mutex!Holders
<1>3. \A a \in Agents : at[a] \in {"pop", "release"} => a \in Mutex!Holders
  BY DEF Mutex!Holders, Mutex!Agents, Agents
<1>5. \A a \in Agents, p \in Ops : a # <<p, "owner">> /\ a # <<p, "given">>
  BY DEF Agents
<1>6. ASSUME NEW p \in Ops, NEW q \in Ops, Mutex!Owns(p), Mutex!Owns(q) PROVE p = q
  <2>1. <<p, "owner">> = <<q, "owner">>
    BY <1>1, <1>6 DEF MutexLock
  <2> QED BY <2>1
<1>7. ASSUME NEW p \in Ops, NEW q \in Ops, Mutex!GivenLock(p), Mutex!GivenLock(q) PROVE p = q
  <2>1. <<p, "given">> = <<q, "given">>
    BY <1>2, <1>7 DEF MutexLock
  <2> QED BY <2>1
<1>8. ASSUME NEW p \in Ops, NEW q \in Ops, Mutex!Owns(p), Mutex!GivenLock(q) PROVE FALSE
  <2>1. <<p, "owner">> = <<q, "given">>
    BY <1>1, <1>2, <1>8 DEF MutexLock
  <2> QED BY <2>1
<1>9. \A a, b \in Agents : at[a] \in {"pop", "release"} /\ at[b] \in {"pop", "release"} => a = b
  BY <1>3 DEF MutexLock
<1>10. \A a \in Agents, p \in Ops : at[a] \in {"pop", "release"} => ~Mutex!Owns(p)
  BY <1>1, <1>3, <1>5 DEF MutexLock
<1>11. \A a \in Agents, p \in Ops : at[a] \in {"pop", "release"} => ~Mutex!GivenLock(p)
  BY <1>2, <1>3, <1>5 DEF MutexLock
<1>12. ~ctx.locked_ => /\ \A p \in Ops : ~Mutex!Owns(p) /\ ~Mutex!GivenLock(p)
                       /\ \A a \in Agents : at[a] \notin {"pop", "release"}
  BY <1>1, <1>2, <1>3 DEF MutexLock
<1> QED BY <1>6, <1>7, <1>8, <1>9, <1>10, <1>11, <1>12


(* start() of an operation that does not get the lock.                     *)
LEMMA MutexPushBack ==
  ASSUME SharedInv, MutexInv, NEW o \in Ops, Mutex!push_back(o)
  PROVE  SharedInv' /\ MutexInv'
<1> DEFINE a == Starter(o)
<1>1. SharedType /\ HandsInv /\ LifeInv /\ MutexType /\ MutexThreads /\ MutexStarted /\ MutexOnePlace /\ MutexLock
  BY DEF SharedInv, MutexInv
<1>2. /\ at[a] = "push" /\ Goto(a, "exchange") /\ op' = op /\ which' = which
      /\ ctx' = [ctx EXCEPT !.queue_ = Append(@, o)]
  BY DEF Mutex!push_back, Mutex!Goto, Goto, Starter
<1>3. a \in Agents /\ a[1] = o
  BY AgentFacts, AgentOf
<1>4. /\ Moves(a, "exchange") /\ won' = won
      /\ \A b \in Agents, p \in Ops : HeldBy(b, p)' <=> HeldBy(b, p)
      /\ \A p \in Ops : Held(p)' <=> Held(p)
  BY <1>1, <1>2, <1>3, GotoMoves
<1>5. MutexStarting(o) /\ op[o].life = "started" /\ o \in ctx.started_
  BY <1>1, <1>2 DEF MutexStarting, MutexOnePlace, MutexStarted
<1>6. SharedInv'
  BY <1>1, <1>2, <1>3, <1>5, GotoShared DEF SharedType, SameStage, Pcs
<1>7. /\ ctx'.queue_ = Append(ctx.queue_, o) /\ ctx'.locked_ = ctx.locked_ /\ ctx'.started_ = ctx.started_
      /\ MutexType'
  BY <1>1, <1>2, AppendFacts DEF MutexType
<1>8. MutexThreads'
  BY <1>1, <1>2, <1>4, AgentFacts, AgentsDiffer DEF MutexThreads, Moves
<1>9. MutexStarted'
  BY <1>1, <1>2, <1>4, <1>5, <1>7, AgentFacts, AgentsDiffer DEF MutexStarted, Moves
<1>10. MutexOnePlace'
  <2>1. ~InList(ctx.queue_, o) /\ ~Held(o)
    BY <1>1, <1>5 DEF MutexOnePlace
  <2>2. Once(ctx'.queue_) /\ \A p \in Ops : InList(ctx'.queue_, p) <=> p = o \/ InList(ctx.queue_, p)
    BY <1>1, <1>7, <2>1, AppendFacts DEF MutexType, MutexOnePlace
  <2>3. \A p \in Ops : MutexStarting(p)' <=> p # o /\ MutexStarting(p)
    BY <1>2, <1>4, <1>7, AgentFacts, AgentsDiffer DEF MutexStarting, Moves
  <2> QED BY <1>1, <1>2, <1>4, <1>5, <1>7, <2>1, <2>2, <2>3 DEF MutexOnePlace
<1>11. MutexLock'
  <2>1. \A p \in Ops : Mutex!Owns(p)' => Mutex!Owns(p)
    BY <1>2, <1>4, AgentFacts, AgentsDiffer DEF Mutex!Owns, Moves, Caller
  <2>2. \A p \in Ops : Mutex!GivenLock(p)' => Mutex!GivenLock(p)
    BY <1>2, <1>4 DEF Mutex!GivenLock, Mutex!Agents, Agents, HeldBy
  <2> QED BY <1>1, <1>4, <1>7, <2>1, <2>2, LockKept DEF Moves
<1> QED BY <1>6, <1>7, <1>8, <1>9, <1>10, <1>11 DEF MutexInv

(* start() looks at the flag once more.                                    *)
LEMMA MutexExchange ==
  ASSUME SharedInv, MutexInv, NEW o \in Ops, Mutex!ExchangeLocked(o)
  PROVE  SharedInv' /\ MutexInv'
<1> DEFINE a == Starter(o)
<1>1. SharedType /\ HandsInv /\ LifeInv /\ MutexType /\ MutexThreads /\ MutexStarted /\ MutexOnePlace /\ MutexLock
  BY DEF SharedInv, MutexInv
<1>2. PICK pc \in {"mark", "pop"} :
        /\ at[a] = "exchange" /\ Goto(a, pc) /\ op' = op /\ which' = which
        /\ ctx' = [ctx EXCEPT !.locked_ = TRUE] /\ (pc = "pop" => ~ctx.locked_)
  BY DEF Mutex!ExchangeLocked, Mutex!Goto, Goto, Starter
<1>3. a \in Agents /\ a[1] = o
  BY AgentFacts, AgentOf
<1>4. /\ Moves(a, pc) /\ won' = won
      /\ \A b \in Agents, p \in Ops : HeldBy(b, p)' <=> HeldBy(b, p)
      /\ \A p \in Ops : Held(p)' <=> Held(p)
  BY <1>1, <1>2, <1>3, GotoMoves
<1>5. op[o].life # "idle" /\ o \in ctx.started_
  BY <1>1, <1>2 DEF LifeInv, MutexStarted
<1>6. SharedInv'
  BY <1>1, <1>2, <1>3, <1>5, GotoShared DEF SharedType, SameStage, Pcs
<1>7. /\ ctx'.queue_ = ctx.queue_ /\ ctx'.locked_ /\ ctx'.started_ = ctx.started_
      /\ MutexType'
  BY <1>1, <1>2 DEF MutexType
<1>8. MutexThreads'
  BY <1>1, <1>2, <1>4, AgentFacts, AgentsDiffer DEF MutexThreads, Moves
<1>9. MutexStarted'
  BY <1>1, <1>2, <1>4, <1>5, <1>7, AgentFacts, AgentsDiffer DEF MutexStarted, Moves
<1>10. MutexOnePlace'
  <2>1. \A p \in Ops : MutexStarting(p)' <=> MutexStarting(p)
    BY <1>2, <1>4, <1>7, AgentFacts, AgentsDiffer DEF MutexStarting, Moves
  <2> QED BY <1>1, <1>2, <1>4, <1>7, <2>1 DEF MutexOnePlace
<1>11. MutexLock'
  <2>1. \A p \in Ops : Mutex!Owns(p)' => Mutex!Owns(p)
    BY <1>2, <1>4, AgentFacts, AgentsDiffer DEF Mutex!Owns, Moves, Caller
  <2>2. \A p \in Ops : Mutex!GivenLock(p)' => Mutex!GivenLock(p)
    BY <1>2, <1>4 DEF Mutex!GivenLock, Mutex!Agents, Agents, HeldBy
  <2>3. CASE pc = "mark"
    BY <1>1, <1>4, <1>7, <2>1, <2>2, <2>3, LockKept DEF Moves
  <2>4. CASE pc = "pop"
    <3>1. /\ \A p \in Ops : ~Mutex!Owns(p) /\ ~Mutex!GivenLock(p)
          /\ \A b \in Agents : at[b] \notin {"pop", "release"}
      BY <1>1, <1>2, <2>4, HoldersAre
    <3>2. \A b \in Agents : at'[b] \in {"pop", "release"} => a = b
      BY <1>4, <3>1 DEF Moves
    <3> QED BY <1>7, <2>1, <2>2, <3>1, <3>2, LockGoesTo
  <2> QED BY <1>2, <2>3, <2>4
<1> QED BY <1>6, <1>7, <1>8, <1>9, <1>10, <1>11 DEF MutexInv

(* process_queue(): the steps other than pop_front().                      *)
LEMMA MutexProcess ==
  ASSUME SharedInv, MutexInv, NEW a \in Agents,
         \/ Mutex!pop_front(a) /\ ctx.queue_ = <<>>
         \/ Mutex!ReleaseLock(a) \/ Mutex!CheckEmpty(a) \/ Mutex!Reacquire(a)
  PROVE  SharedInv' /\ MutexInv'
<1>1. SharedType /\ HandsInv /\ LifeInv /\ MutexType /\ MutexThreads /\ MutexStarted /\ MutexOnePlace /\ MutexLock
  BY DEF SharedInv, MutexInv
<1>2. PICK pc \in {"release", "empty", "reacquire", "mark", "returned", "pop"}, l \in BOOLEAN :
        /\ at[a] \in {"pop", "release", "empty", "reacquire"} /\ Goto(a, pc) /\ op' = op /\ which' = which
        /\ ctx' = [ctx EXCEPT !.locked_ = l]
        /\ pc = "mark" => a[2] = "start"
        /\ \/ at[a] = "pop" /\ pc = "release" /\ l = ctx.locked_
           \/ at[a] = "release" /\ pc = "empty" /\ l = FALSE
           \/ at[a] \in {"empty", "reacquire"} /\ pc \in {"reacquire", "mark", "returned"} /\ (ctx.locked_ => l)
           \/ at[a] = "reacquire" /\ pc = "pop" /\ ~ctx.locked_ /\ l
  <2>1. ctx = [ctx EXCEPT !.locked_ = ctx.locked_] /\ ctx.locked_ \in BOOLEAN
    BY <1>1 DEF MutexType
  <2>2. CASE Mutex!pop_front(a) /\ ctx.queue_ = <<>>
    BY <2>1, <2>2 DEF Mutex!pop_front, Mutex!Goto, Goto
  <2>3. CASE Mutex!ReleaseLock(a)
    BY <2>1, <2>3 DEF Mutex!ReleaseLock, Mutex!Goto, Goto
  <2>4. CASE Mutex!CheckEmpty(a)
    BY <2>1, <2>4 DEF Mutex!CheckEmpty, Mutex!Goto, Goto, Mutex!After
  <2>5. CASE Mutex!Reacquire(a)
    BY <2>1, <2>5 DEF Mutex!Reacquire, Mutex!Goto, Goto, Mutex!After
  <2> QED BY <2>2, <2>3, <2>4, <2>5
<1>3. PICK o \in Ops : a[1] = o /\ (a = Starter(o) \/ a = Caller(o))
  <2>1. a # Stopper(a[1])
    BY <1>1, <1>2, AgentFacts DEF MutexThreads
  <2> QED BY <2>1, AgentFacts
<1>4. /\ Moves(a, pc) /\ won' = won
      /\ \A b \in Agents, p \in Ops : HeldBy(b, p)' <=> HeldBy(b, p)
      /\ \A p \in Ops : Held(p)' <=> Held(p)
  BY <1>1, <1>2, GotoMoves
<1>5. /\ a = Starter(o) => op[o].life # "idle" /\ o \in ctx.started_
      /\ pc = "mark" => a = Starter(o)
  BY <1>1, <1>2, <1>3, AgentOf DEF LifeInv, MutexStarted
<1>6. SharedInv'
  BY <1>1, <1>2, <1>3, <1>5, GotoShared DEF SharedType, SameStage, Pcs
<1>7. /\ ctx'.queue_ = ctx.queue_ /\ ctx'.locked_ = l /\ ctx'.started_ = ctx.started_
      /\ MutexType'
  BY <1>1, <1>2 DEF MutexType
<1>8. MutexThreads'
  BY <1>1, <1>2, <1>3, <1>4, <1>5, AgentFacts, AgentsDiffer DEF MutexThreads, Moves
<1>9. MutexStarted'
  BY <1>1, <1>2, <1>3, <1>4, <1>5, <1>7, AgentFacts, AgentsDiffer DEF MutexStarted, Moves
<1>10. MutexOnePlace'
  <2>1. \A p \in Ops : MutexStarting(p)' <=> MutexStarting(p)
    BY <1>2, <1>4, <1>7, AgentFacts DEF MutexStarting, Moves
  <2> QED BY <1>1, <1>2, <1>4, <1>7, <2>1 DEF MutexOnePlace
<1>11. MutexLock'
  <2>1. \A p \in Ops : Mutex!Owns(p)' => Mutex!Owns(p)
    BY <1>2, <1>4, AgentFacts DEF Mutex!Owns, Moves, Caller
  <2>2. \A p \in Ops : Mutex!GivenLock(p)' => Mutex!GivenLock(p)
    BY <1>2, <1>4 DEF Mutex!GivenLock, Mutex!Agents, Agents, HeldBy
  <2>3. CASE (ctx.locked_ => l) /\ (pc = "pop" => at[a] = "pop") /\ (pc = "release" => at[a] = "pop")
    BY <1>1, <1>4, <1>7, <2>1, <2>2, <2>3, LockKept DEF Moves
  <2>4. CASE at[a] = "reacquire" /\ pc = "pop" /\ ~ctx.locked_ /\ l
    <3>1. /\ \A p \in Ops : ~Mutex!Owns(p) /\ ~Mutex!GivenLock(p)
          /\ \A b \in Agents : at[b] \notin {"pop", "release"}
      BY <1>1, <2>4, HoldersAre
    <3>2. \A b \in Agents : at'[b] \in {"pop", "release"} => a = b
      BY <1>4, <3>1 DEF Moves
    <3> QED BY <1>7, <2>1, <2>2, <2>4, <3>1, <3>2, LockGoesTo
  <2>5. CASE at[a] = "release" /\ pc = "empty"
    <3>1. /\ \A p \in Ops : ~Mutex!Owns(p) /\ ~Mutex!GivenLock(p)
          /\ \A b \in Agents : at[b] \in {"pop", "release"} => b = a
      BY <1>1, <2>5, HoldersAre
    <3>2. \A b \in Agents : at'[b] \notin {"pop", "release"}
      BY <1>4, <2>5, <3>1 DEF Moves
    <3>3. Mutex!Holders' = {}
      BY <2>1, <2>2, <3>1, <3>2 DEF Mutex!Holders, Mutex!Agents, Agents
    <3> QED BY <3>3 DEF MutexLock
  <2> QED BY <1>2, <2>3, <2>4, <2>5
<1> QED BY <1>6, <1>7, <1>8, <1>9, <1>10, <1>11 DEF MutexInv

(* unlock(): the lock goes from the operation to the thread.               *)
LEMMA MutexUnlock ==
  ASSUME SharedInv, MutexInv, NEW o \in Ops, Mutex!unlock(o)
  PROVE  SharedInv' /\ MutexInv'
<1> DEFINE a == Caller(o)
<1>1. SharedType /\ HandsInv /\ LifeInv /\ MutexType /\ MutexThreads /\ MutexStarted /\ MutexOnePlace /\ MutexLock
  BY DEF SharedInv, MutexInv
<1>2. Mutex!Owns(o) /\ at[a] = "none" /\ Goto(a, "pop") /\ op' = op /\ which' = which /\ ctx' = ctx
  BY DEF Mutex!unlock, Mutex!Owns, Mutex!Goto, Goto, Caller
<1>3. a \in Agents /\ a[1] = o
  BY AgentFacts, AgentOf
<1>4. /\ Moves(a, "pop") /\ won' = won
      /\ \A b \in Agents, p \in Ops : HeldBy(b, p)' <=> HeldBy(b, p)
      /\ \A p \in Ops : Held(p)' <=> Held(p)
  BY <1>1, <1>2, <1>3, GotoMoves
<1>5. op[o].life = "completed" /\ op[o].cb = "none"
  <2>1. op[o].signals # <<>>
    BY <1>2 DEF Mutex!Owns
  <2> QED BY <1>1, <2>1 DEF LifeInv
<1>6. SharedInv'
  BY <1>1, <1>2, <1>3, <1>5, GotoShared DEF SharedType, SameStage, Pcs
<1>7. MutexType'
  BY <1>1, <1>2 DEF MutexType
<1>8. MutexThreads'
  BY <1>1, <1>2, <1>4, AgentFacts, AgentsDiffer DEF MutexThreads, Moves
<1>9. MutexStarted'
  BY <1>1, <1>2, <1>4, AgentFacts, AgentsDiffer DEF MutexStarted, Moves
<1>10. MutexOnePlace'
  <2>1. \A p \in Ops : MutexStarting(p)' <=> MutexStarting(p)
    BY <1>2, <1>4, AgentFacts, AgentsDiffer DEF MutexStarting, Moves
  <2> QED BY <1>1, <1>2, <1>4, <2>1 DEF MutexOnePlace
<1>11. MutexLock'
  <2>1. \A p \in Ops : Mutex!Owns(p)' => Mutex!Owns(p) /\ p # o
    BY <1>2, <1>4, AgentFacts, AgentsDiffer DEF Mutex!Owns, Moves, Caller
  <2>2. \A p \in Ops : Mutex!GivenLock(p)' => Mutex!GivenLock(p)
    BY <1>2, <1>4 DEF Mutex!GivenLock, Mutex!Agents, Agents, HeldBy
  <2>3. /\ \A p \in Ops : Mutex!Owns(p) => p = o
        /\ \A p \in Ops : ~Mutex!GivenLock(p)
        /\ \A b \in Agents : at[b] \notin {"pop", "release"}
    BY <1>1, <1>2, HoldersAre
  <2>4. ctx.locked_
    BY <1>1, <1>2, HoldersAre
  <2>5. \A b \in Agents : at'[b] \in {"pop", "release"} => a = b
    BY <1>4, <2>3 DEF Moves
  <2> QED BY <1>2, <2>1, <2>2, <2>3, <2>4, <2>5, LockGoesTo
<1> QED BY <1>6, <1>7, <1>8, <1>9, <1>10, <1>11 DEF MutexInv

(* start(): the fast path, or on to push_back().                           *)
LEMMA MutexNested ==
  ASSUME SharedInv, MutexInv, NEW o \in Ops, Mutex!start(o)
  PROVE  SharedInv' /\ MutexInv'
<1> DEFINE a == Starter(o)
<1>1. SharedType /\ HandsInv /\ LifeInv /\ MutexType /\ MutexThreads /\ MutexStarted /\ MutexOnePlace /\ MutexLock
  BY DEF SharedInv, MutexInv
<1>2. /\ at[a] = "nested" /\ op' = op /\ which' = which
      /\ ctx' = [ctx EXCEPT !.started_ = @ \cup {o}, !.locked_ = TRUE]
      /\ IF ctx.locked_ THEN Goto(a, "push") ELSE CompleteThen(a, o, "mark", "mark")
  BY DEF Mutex!start, Mutex!Goto, Goto, Mutex!CompleteThen, CompleteThen, Starter
<1>3. a \in Agents /\ a[1] = o
  BY AgentFacts, AgentOf
<1>4. MutexStarting(o) /\ op[o].life = "started" /\ ~InList(ctx.queue_, o) /\ ~Held(o)
  BY <1>1, <1>2 DEF MutexStarting, MutexOnePlace
<1>5. /\ ctx'.queue_ = ctx.queue_ /\ ctx'.locked_ /\ ctx'.started_ = ctx.started_ \cup {o}
      /\ MutexType'
  BY <1>1, <1>2 DEF MutexType
<1>6. CASE ctx.locked_
  <2>1. Goto(a, "push")
    BY <1>2, <1>6
  <2>2. /\ Moves(a, "push") /\ won' = won
        /\ \A b \in Agents, p \in Ops : HeldBy(b, p)' <=> HeldBy(b, p)
        /\ \A p \in Ops : Held(p)' <=> Held(p)
    BY <1>1, <1>3, <2>1, GotoMoves
  <2>3. SharedInv'
    BY <1>1, <1>2, <1>3, <1>4, <2>1, GotoShared DEF SharedType, SameStage, Pcs
  <2>4. MutexThreads'
    BY <1>1, <1>2, <2>2, AgentFacts, AgentsDiffer DEF MutexThreads, Moves
  <2>5. MutexStarted'
    BY <1>1, <1>2, <1>5, <2>2, AgentFacts, AgentsDiffer DEF MutexStarted, Moves
  <2>6. MutexOnePlace'
    <3>1. \A p \in Ops : MutexStarting(p)' <=> MutexStarting(p)
      BY <1>2, <1>5, <2>2, AgentFacts, AgentsDiffer DEF MutexStarting, Moves
    <3> QED BY <1>1, <1>2, <1>4, <1>5, <2>2, <3>1 DEF MutexOnePlace
  <2>7. MutexLock'
    <3>1. \A p \in Ops : Mutex!Owns(p)' => Mutex!Owns(p)
      BY <1>2, <2>2, AgentFacts, AgentsDiffer DEF Mutex!Owns, Moves, Caller
    <3>2. \A p \in Ops : Mutex!GivenLock(p)' => Mutex!GivenLock(p)
      BY <1>2, <2>2 DEF Mutex!GivenLock, Mutex!Agents, Agents, HeldBy
    <3> QED BY <1>1, <1>5, <2>2, <3>1, <3>2, LockKept DEF Moves
  <2> QED BY <1>5, <2>3, <2>4, <2>5, <2>6, <2>7 DEF MutexInv
<1>7. CASE ~ctx.locked_
  <2>1. CompleteThen(a, o, "mark", "mark") /\ whom[a] = <<>>
    BY <1>1, <1>2, <1>3, <1>7 DEF HandsInv
  <2>2. /\ Moves(a, "try") /\ \A b \in Agents : won'[b] = IF b = a THEN "mark" ELSE won[b]
        /\ \A b \in Agents, p \in Ops : HeldBy(b, p)' <=> IF b = a THEN p = o ELSE HeldBy(b, p)
        /\ \A p \in Ops : Held(p)' <=> p = o \/ Held(p)
    BY <1>1, <1>3, <2>1, CompleteMoves
  <2>3. SharedInv'
    BY <1>1, <1>2, <1>3, <1>4, <2>1, CompleteShared DEF SharedType, Pcs
  <2>4. MutexThreads'
    BY <1>1, <1>2, <2>2, AgentFacts, AgentsDiffer DEF MutexThreads, Moves
  <2>5. MutexStarted'
    BY <1>1, <1>2, <1>5, <2>2, AgentFacts, AgentsDiffer DEF MutexStarted, Moves
  <2>6. MutexOnePlace'
    <3>1. \A p \in Ops : MutexStarting(p)' <=> p # o /\ MutexStarting(p)
      BY <1>2, <1>5, <2>2, AgentFacts, AgentsDiffer DEF MutexStarting, Moves
    <3> QED BY <1>1, <1>2, <1>4, <1>5, <2>2, <3>1 DEF MutexOnePlace
  <2>7. MutexLock'
    <3>1. /\ \A p \in Ops : ~Mutex!Owns(p) /\ ~Mutex!GivenLock(p)
          /\ \A b \in Agents : at[b] \notin {"pop", "release"}
      BY <1>1, <1>7, HoldersAre
    <3>2. \A p \in Ops : Mutex!Owns(p)' => Mutex!Owns(p)
      BY <1>2, <2>2, AgentFacts, AgentsDiffer DEF Mutex!Owns, Moves, Caller
    <3>3. \A p \in Ops : Mutex!GivenLock(p)' => p = o
      BY <1>2, <2>2, <3>1 DEF Mutex!GivenLock, Mutex!Agents, Agents, HeldBy
    <3>4. \A b \in Agents : at'[b] \notin {"pop", "release"}
      BY <2>2, <3>1 DEF Moves
    <3> QED BY <1>5, <3>1, <3>2, <3>3, <3>4, LockGoesTo
  <2> QED BY <1>5, <2>3, <2>4, <2>5, <2>6, <2>7 DEF MutexInv
<1> QED BY <1>6, <1>7

(* pop_front(): the lock goes from the thread to the first waiter.         *)
LEMMA MutexPopFront ==
  ASSUME SharedInv, MutexInv, NEW a \in Agents, Mutex!pop_front(a), ctx.queue_ # <<>>
  PROVE  SharedInv' /\ MutexInv'
<1> DEFINE w == Head(ctx.queue_)
<1>1. SharedType /\ HandsInv /\ LifeInv /\ MutexType /\ MutexThreads /\ MutexStarted /\ MutexOnePlace /\ MutexLock
  BY DEF SharedInv, MutexInv
<1>2. PICK x \in {"mark", "returned"} :
        /\ at[a] = "pop" /\ op' = op /\ which' = which /\ ctx' = [ctx EXCEPT !.queue_ = Tail(@)]
        /\ CompleteThen(a, w, x, "pop") /\ (x = "mark" <=> a[2] = "start")
  BY DEF Mutex!pop_front, Mutex!CompleteThen, CompleteThen, Mutex!After
<1>3. /\ ctx.queue_ \in Seq(Ops) /\ Once(ctx.queue_)
      /\ ctx'.queue_ = Tail(ctx.queue_) /\ ctx'.locked_ = ctx.locked_ /\ ctx'.started_ = ctx.started_
  BY <1>1, <1>2 DEF MutexType, MutexOnePlace
<1>4. /\ w \in Ops /\ InList(ctx.queue_, w) /\ ctx'.queue_ \in Seq(Ops) /\ Once(ctx'.queue_)
      /\ \A p \in Ops : InList(ctx'.queue_, p) <=> p # w /\ InList(ctx.queue_, p)
  BY <1>3, TailFacts
<1> HIDE DEF w
<1>5. op[w].life = "started" /\ ~Held(w) /\ ~MutexStarting(w)
  BY <1>1, <1>4 DEF MutexOnePlace
<1>6. PICK o \in Ops : a[1] = o /\ (a = Starter(o) \/ a = Caller(o))
  <2>1. a # Stopper(a[1])
    BY <1>1, <1>2, AgentFacts DEF MutexThreads
  <2> QED BY <2>1, AgentFacts
<1>7. /\ a = Starter(o) => op[o].life # "idle" /\ o \in ctx.started_ /\ x = "mark"
      /\ a = Caller(o) => x = "returned"
  BY <1>1, <1>2, <1>6, AgentOf DEF LifeInv, MutexStarted
<1>8. whom[a] = <<>>
  BY <1>1, <1>2 DEF HandsInv
<1>9. /\ Moves(a, "try") /\ \A b \in Agents : won'[b] = IF b = a THEN x ELSE won[b]
      /\ \A b \in Agents, p \in Ops : HeldBy(b, p)' <=> IF b = a THEN p = w ELSE HeldBy(b, p)
      /\ \A p \in Ops : Held(p)' <=> p = w \/ Held(p)
  BY <1>1, <1>2, <1>4, <1>8, CompleteMoves
<1>10. SharedInv'
  <2>1. x \in Pcs /\ "pop" \in Pcs
    BY DEF Pcs
  <2>2. op' \in [Ops -> Operation]
    BY <1>1, <1>2 DEF SharedType
  <2>3. a = Caller(a[1]) \/ op'[a[1]].life # "idle"
    BY <1>2, <1>6, <1>7
  <2> QED BY <1>2, <1>4, <1>5, <2>1, <2>2, <2>3, CompleteShared
<1>11. MutexType'
  BY <1>1, <1>2, <1>3, <1>4 DEF MutexType
<1>12. MutexThreads'
  BY <1>1, <1>6, <1>7, <1>9, AgentFacts, AgentsDiffer DEF MutexThreads, Moves
<1>13. MutexStarted'
  BY <1>1, <1>2, <1>3, <1>6, <1>7, <1>9, AgentFacts, AgentsDiffer DEF MutexStarted, Moves
<1>14. MutexOnePlace'
  <2>1. \A p \in Ops : MutexStarting(p)' <=> MutexStarting(p)
    BY <1>2, <1>3, <1>9, AgentFacts DEF MutexStarting, Moves
  <2> QED BY <1>1, <1>2, <1>3, <1>4, <1>5, <1>9, <2>1 DEF MutexOnePlace
<1>15. MutexLock'
  <2>1. /\ \A p \in Ops : ~Mutex!Owns(p) /\ ~Mutex!GivenLock(p)
        /\ \A b \in Agents : at[b] \in {"pop", "release"} => b = a
        /\ ctx.locked_
    BY <1>1, <1>2, HoldersAre
  <2>2. \A p \in Ops : ~Mutex!Owns(p)'
    BY <1>2, <1>9, <2>1, AgentFacts DEF Mutex!Owns, Moves, Caller
  <2>3. \A p \in Ops : Mutex!GivenLock(p)' => p = w
    BY <1>2, <1>9, <2>1 DEF Mutex!GivenLock, Mutex!Agents, Agents, HeldBy
  <2>4. \A b \in Agents : at'[b] \notin {"pop", "release"}
    BY <1>9, <2>1 DEF Moves
  <2> QED BY <1>3, <1>4, <2>1, <2>2, <2>3, <2>4, LockGoesTo
<1> QED BY <1>10, <1>11, <1>12, <1>13, <1>14, <1>15 DEF MutexInv

(* stop(): the operation is cancelled if nobody has taken it.              *)
LEMMA MutexStop ==
  ASSUME SharedInv, MutexInv, NEW a \in Agents, Mutex!stop(a)
  PROVE  SharedInv' /\ MutexInv'
<1> DEFINE o == a[1]
           next == IF a[2] = "stop" THEN "return" ELSE "returned"
<1>1. SharedType /\ HandsInv /\ LifeInv /\ MutexType /\ MutexThreads /\ MutexStarted /\ MutexOnePlace /\ MutexLock
  BY DEF SharedInv, MutexInv
<1>2. /\ at[a] = "stop" /\ which' = which
      /\ \/ /\ o \notin ctx.started_ \/ InList(ctx.queue_, o)
            /\ op' = [op EXCEPT ![o].cancelled = TRUE]
            /\ ctx' = [ctx EXCEPT !.queue_ = Without(@, o)]
            /\ CompleteThen(a, o, next, next)
         \/ o \in ctx.started_ /\ Goto(a, next) /\ op' = op /\ ctx' = ctx
  <2>1. Mutex!Without(ctx.queue_, o) = Without(ctx.queue_, o)
    BY DEF Mutex!Without, Without, Mutex!RemoveAt, RemoveAt
  <2>2. Mutex!Queued(o) <=> InList(ctx.queue_, o)
    BY DEF Mutex!Queued, InList
  <2>3. Mutex!AfterStop(a) = next
    BY DEF Mutex!AfterStop
  <2> QED BY <2>1, <2>2, <2>3 DEF Mutex!stop, Mutex!Goto, Goto, Mutex!CompleteThen, CompleteThen
<1>3. o \in Ops /\ (a = Starter(o) \/ a = Stopper(o))
  BY <1>1, <1>2, AgentFacts DEF MutexThreads
<1>4. \/ a = Starter(o) /\ next = "returned"
      \/ a = Stopper(o) /\ next = "return" /\ o \in ctx.started_
  BY <1>1, <1>2, <1>3, AgentOf DEF MutexStarted
<1>5. op[o].life # "idle"
  BY <1>1, <1>2, <1>3 DEF LifeInv
<1> HIDE DEF o, next
<1>6. CASE o \in ctx.started_ /\ Goto(a, next) /\ op' = op /\ ctx' = ctx
  <2>1. /\ Moves(a, next) /\ won' = won
        /\ \A b \in Agents, p \in Ops : HeldBy(b, p)' <=> HeldBy(b, p)
        /\ \A p \in Ops : Held(p)' <=> Held(p)
    BY <1>1, <1>6, GotoMoves
  <2>2. SharedInv'
    BY <1>1, <1>2, <1>4, <1>5, <1>6, GotoShared DEF SharedType, SameStage, Pcs, o
  <2>3. MutexType'
    BY <1>1, <1>6 DEF MutexType
  <2>4. MutexThreads'
    BY <1>1, <1>3, <1>4, <2>1, AgentFacts, AgentsDiffer DEF MutexThreads, Moves
  <2>5. MutexStarted'
    BY <1>1, <1>3, <1>4, <1>6, <2>1, AgentFacts, AgentsDiffer DEF MutexStarted, Moves
  <2>6. MutexOnePlace'
    <3>1. \A p \in Ops : MutexStarting(p)' <=> MutexStarting(p)
      BY <1>2, <1>3, <1>4, <1>6, <2>1, AgentFacts, AgentsDiffer DEF MutexStarting, Moves
    <3> QED BY <1>1, <1>6, <2>1, <3>1 DEF MutexOnePlace
  <2>7. MutexLock'
    <3>1. \A p \in Ops : Mutex!Owns(p)' => Mutex!Owns(p)
      BY <1>3, <1>6, <2>1, AgentFacts, AgentsDiffer DEF Mutex!Owns, Moves, Caller
    <3>2. \A p \in Ops : Mutex!GivenLock(p)' => Mutex!GivenLock(p)
      BY <1>6, <2>1 DEF Mutex!GivenLock, Mutex!Agents, Agents, HeldBy
    <3> QED BY <1>1, <1>4, <1>6, <2>1, <3>1, <3>2, LockKept DEF Moves
  <2> QED BY <2>2, <2>3, <2>4, <2>5, <2>6, <2>7 DEF MutexInv
<1>7. CASE /\ o \notin ctx.started_ \/ InList(ctx.queue_, o)
           /\ op' = [op EXCEPT ![o].cancelled = TRUE]
           /\ ctx' = [ctx EXCEPT !.queue_ = Without(@, o)]
           /\ CompleteThen(a, o, next, next)
  <2>1. ctx.queue_ \in Seq(Ops) /\ Once(ctx.queue_)
    BY <1>1 DEF MutexType, MutexOnePlace
  <2>2. /\ ctx'.queue_ = Without(ctx.queue_, o) /\ ctx'.locked_ = ctx.locked_ /\ ctx'.started_ = ctx.started_
        /\ Without(ctx.queue_, o) \in Seq(Ops) /\ Once(ctx'.queue_) /\ MutexType'
        /\ \A p \in Ops : InList(ctx'.queue_, p) <=> p # o /\ InList(ctx.queue_, p)
    BY <1>1, <1>3, <1>7, <2>1, WithoutFacts DEF MutexType
  <2>3. op[o].life = "started" /\ ~Held(o)
    <3>1. CASE InList(ctx.queue_, o)
      BY <1>1, <1>3, <3>1 DEF MutexOnePlace
    <3>2. CASE o \notin ctx.started_
      <4>1. MutexStarting(o)
        BY <1>2, <1>4, <3>2 DEF MutexStarting
      <4> QED BY <1>1, <1>3, <4>1 DEF MutexOnePlace
    <3> QED BY <1>7, <3>1, <3>2
  <2>4. op[o] \in Operation
    BY <1>1, <1>3 DEF SharedType
  <2>5. [op[o] EXCEPT !.cancelled = TRUE] \in Operation
    BY <2>4 DEF Operation
  <2>6. op' \in [Ops -> Operation]
    BY <1>1, <1>7, <2>5 DEF SharedType
  <2>7. \A p \in Ops : /\ op'[p].life = op[p].life /\ op'[p].signals = op[p].signals /\ op'[p].cb = op[p].cb
                       /\ op'[p].bits = op[p].bits /\ op'[p].kind = op[p].kind /\ op'[p].result = op[p].result
                       /\ p # o => op'[p].cancelled = op[p].cancelled
                       /\ p = o => op'[p].cancelled
    <3> TAKE p \in Ops
    <3> DEFINE yes == TRUE
    <3>1. op'[p] = IF p = o THEN [op[o] EXCEPT !.cancelled = yes] ELSE op[p]
      BY <1>1, <1>7 DEF SharedType
    <3> HIDE DEF yes
    <3>2. /\ op'[p].life = op[p].life /\ op'[p].signals = op[p].signals /\ op'[p].cb = op[p].cb
          /\ op'[p].bits = op[p].bits /\ op'[p].kind = op[p].kind /\ op'[p].result = op[p].result
      BY <2>4, <3>1 DEF Operation
    <3>3. op'[p].cancelled = IF p = o THEN yes ELSE op[p].cancelled
      BY <2>4, <3>1 DEF Operation
    <3> QED BY <3>2, <3>3 DEF yes
  <2>8. whom[a] = <<>>
    BY <1>1, <1>2 DEF HandsInv
  <2>9. /\ Moves(a, "try") /\ \A b \in Agents : won'[b] = IF b = a THEN next ELSE won[b]
        /\ \A b \in Agents, p \in Ops : HeldBy(b, p)' <=> IF b = a THEN p = o ELSE HeldBy(b, p)
        /\ \A p \in Ops : Held(p)' <=> p = o \/ Held(p)
    BY <1>1, <1>3, <1>7, <2>8, CompleteMoves
  <2>10. SharedInv'
    <3>1. next \in Pcs
      BY <1>4 DEF Pcs
    <3>2. op'[a[1]].life # "idle"
      BY <1>3, <1>5, <2>7 DEF o
    <3> QED BY <1>2, <1>3, <1>7, <2>3, <2>6, <2>7, <3>1, <3>2, CompleteShared
  <2>11. MutexThreads'
    BY <1>1, <1>3, <1>4, <2>9, AgentFacts, AgentsDiffer DEF MutexThreads, Moves
  <2>12. MutexStarted'
    BY <1>1, <1>2, <1>3, <1>4, <2>2, <2>7, <2>9, AgentFacts, AgentsDiffer DEF MutexStarted, Moves
  <2>13. MutexOnePlace'
    <3>1. \A p \in Ops : p # o => (MutexStarting(p)' <=> MutexStarting(p))
      BY <1>2, <1>3, <1>4, <2>2, <2>9, AgentFacts, AgentsDiffer DEF MutexStarting, Moves
    <3>2. ~MutexStarting(o)'
      <4>1. CASE a = Starter(o)
        BY <2>9, <4>1 DEF MutexStarting, Moves
      <4>2. CASE a = Stopper(o)
        <5>1. InList(ctx.queue_, o)
          BY <1>3, <1>4, <1>7, <4>2, AgentsDiffer
        <5>2. ~MutexStarting(o)
          BY <1>1, <1>3, <5>1 DEF MutexOnePlace
        <5> QED BY <1>3, <2>2, <2>9, <4>2, <5>2, AgentFacts, AgentsDiffer DEF MutexStarting, Moves
      <4> QED BY <1>3, <4>1, <4>2
    <3> QED BY <1>1, <1>3, <2>2, <2>3, <2>7, <2>9, <3>1, <3>2 DEF MutexOnePlace
  <2>14. MutexLock'
    <3>1. \A p \in Ops : Mutex!Owns(p)' => Mutex!Owns(p)
      BY <1>3, <2>7, <2>9, AgentFacts, AgentsDiffer DEF Mutex!Owns, Moves, Caller
    <3>2. \A p \in Ops : Mutex!GivenLock(p)' => Mutex!GivenLock(p)
      BY <2>7, <2>9 DEF Mutex!GivenLock, Mutex!Agents, Agents, HeldBy
    <3> QED BY <1>1, <2>2, <2>9, <3>1, <3>2, LockKept DEF Moves
  <2> QED BY <2>2, <2>10, <2>11, <2>12, <2>13, <2>14 DEF MutexInv
<1> QED BY <1>2, <1>6, <1>7 DEF o, next

(* try_lock().                                                             *)
LEMMA MutexTryLock ==
  ASSUME SharedInv, MutexInv, NEW o \in Ops, Mutex!try_lock(o)
  PROVE  SharedInv' /\ MutexInv'
<1> DEFINE x == IF ctx.locked_ THEN <<"done">> ELSE <<"value">>
<1>1. SharedType /\ HandsInv /\ LifeInv /\ MutexType /\ MutexThreads /\ MutexStarted /\ MutexOnePlace /\ MutexLock
  BY DEF SharedInv, MutexInv
<1>2. /\ op[o].life = "idle" /\ which' = which /\ at' = at /\ whom' = whom /\ won' = won /\ lost' = lost
      /\ op' = [op EXCEPT ![o].life = "completed", ![o].signals = x]
      /\ ctx' = [ctx EXCEPT !.locked_ = TRUE]
  BY DEF Mutex!try_lock, Mutex!threads
<1>3. /\ x \in {<<>>, <<"value">>, <<"done">>, <<"error">>} /\ x # <<>>
      /\ x = <<"value">> => ~ctx.locked_
  OBVIOUS
<1> HIDE DEF x
<1>4. op[o] \in Operation
  BY <1>1 DEF SharedType
<1>5. [op[o] EXCEPT !.life = "completed", !.signals = x] \in Operation
  BY <1>3, <1>4 DEF Operation
<1>6. op' \in [Ops -> Operation]
  BY <1>1, <1>2, <1>5 DEF SharedType
<1>7. \A p \in Ops : /\ op'[p].life = IF p = o THEN "completed" ELSE op[p].life
                     /\ op'[p].signals = IF p = o THEN x ELSE op[p].signals
                     /\ op'[p].cb = op[p].cb /\ op'[p].bits = op[p].bits /\ SameFields(p)
  <2> TAKE p \in Ops
  <2>1. op'[p] = IF p = o THEN [op[o] EXCEPT !.life = "completed", !.signals = x] ELSE op[p]
    BY <1>1, <1>2 DEF SharedType
  <2> QED BY <1>4, <2>1 DEF SameFields, Operation
<1>8. /\ \A b \in Agents, p \in Ops : HeldBy(b, p)' <=> HeldBy(b, p)
      /\ \A p \in Ops : Held(p)' <=> Held(p)
  BY <1>2 DEF HeldBy, Held
<1>9. /\ ctx'.queue_ = ctx.queue_ /\ ctx'.locked_ /\ ctx'.started_ = ctx.started_
      /\ MutexType'
  BY <1>1, <1>2 DEF MutexType
<1>10. SharedInv'
  <2>1. UNCHANGED threads
    BY <1>2 DEF threads
  <2>2. \A p \in Ops : /\ op'[p].bits = op[p].bits /\ op'[p].cb = op[p].cb
                       /\ \/ op'[p].life = op[p].life /\ op'[p].signals = op[p].signals
                          \/ op[p].life = "idle" /\ op'[p].life = "completed" /\ op'[p].signals # <<>>
    <3>1. op[o].life = "idle"
      BY <1>2
    <3>2. x # <<>>
      BY <1>3
    <3> QED BY <1>7, <3>1, <3>2
  <2>3. which' = which
    BY <1>2
  <2> QED BY <1>6, <2>1, <2>2, <2>3, AtOnceShared
<1>11. MutexThreads' /\ MutexStarted'
  BY <1>1, <1>2, <1>7, <1>9 DEF MutexThreads, MutexStarted
<1>12. MutexOnePlace'
  <2>1. \A p \in Ops : MutexStarting(p)' <=> MutexStarting(p)
    BY <1>2, <1>9 DEF MutexStarting
  <2>2. ~InList(ctx.queue_, o) /\ ~Held(o) /\ ~MutexStarting(o)
    BY <1>1, <1>2 DEF MutexOnePlace
  <2> QED BY <1>1, <1>7, <1>8, <1>9, <2>1, <2>2 DEF MutexOnePlace, SameFields
<1>13. MutexLock'
  <2>1. \A p \in Ops : Mutex!Owns(p)' => Mutex!Owns(p) \/ (p = o /\ ~ctx.locked_)
    BY <1>2, <1>3, <1>7 DEF Mutex!Owns
  <2>2. \A p \in Ops : Mutex!GivenLock(p)' => Mutex!GivenLock(p)
    BY <1>7, <1>8 DEF Mutex!GivenLock, Mutex!Agents, Agents, HeldBy, SameFields
  <2>3. CASE ctx.locked_
    BY <1>1, <1>2, <1>9, <2>1, <2>2, <2>3, LockKept
  <2>4. CASE ~ctx.locked_
    <3>1. /\ \A p \in Ops : ~Mutex!Owns(p) /\ ~Mutex!GivenLock(p)
          /\ \A b \in Agents : at[b] \notin {"pop", "release"}
      BY <1>1, <2>4, HoldersAre
    <3>2. \A p \in Ops : Mutex!Owns(p)' => <<o, "owner">> = <<p, "owner">>
      BY <2>1, <3>1
    <3> QED BY <1>2, <1>9, <2>2, <3>1, <3>2, LockGoesTo
  <2> QED BY <2>3, <2>4
<1> QED BY <1>9, <1>10, <1>11, <1>12, <1>13 DEF MutexInv

(* The steps every primitive takes, as the mutex takes them.               *)
LEMMA MutexTryComplete ==
  ASSUME SharedInv, MutexInv, NEW a \in Agents, try_complete(a)
  PROVE  SharedInv' /\ MutexInv'
<1>1. SharedType /\ HandsInv /\ LifeInv /\ MutexType /\ MutexThreads /\ MutexStarted /\ MutexOnePlace /\ MutexLock
  BY DEF SharedInv, MutexInv
<1>2. PICK w \in Ops : TryCompleted(a, w)
  BY TryCompleteStep
<1>3. at[a] = "try" /\ ctx' = ctx /\ Goto(a, "cleanup")
  BY <1>2 DEF TryCompleted
<1>4. /\ Moves(a, "cleanup") /\ won' = won
      /\ \A b \in Agents, p \in Ops : HeldBy(b, p)' <=> HeldBy(b, p)
      /\ \A p \in Ops : Held(p)' <=> Held(p)
  BY <1>1, <1>3, GotoMoves
<1>5. \A p \in Ops : /\ op'[p].life = op[p].life /\ op'[p].signals = op[p].signals /\ SameFields(p)
                     /\ "started" \in op'[p].bits => "started" \in op[p].bits
  <2> TAKE p \in Ops
  <2>1. /\ op'[p].life = op[p].life /\ op'[p].signals = op[p].signals /\ SameFields(p)
        /\ op'[p].bits = op[p].bits \cup {"completed"} \/ op'[p].bits = op[p].bits
    BY <1>2 DEF TryCompleted
  <2> QED BY <2>1
<1>6. SharedInv' /\ MutexType'
  BY <1>1, <1>3, TryCompleteShared DEF MutexType
<1>7. MutexThreads'
  BY <1>1, <1>3, <1>4, AgentFacts, AgentsDiffer DEF MutexThreads, Moves
<1>8. MutexStarted'
  BY <1>1, <1>3, <1>4, <1>5, AgentFacts DEF MutexStarted, Moves
<1>9. MutexOnePlace'
  <2>1. \A p \in Ops : MutexStarting(p)' <=> MutexStarting(p)
    BY <1>3, <1>4, AgentFacts DEF MutexStarting, Moves
  <2> QED BY <1>1, <1>3, <1>4, <1>5, <2>1 DEF MutexOnePlace, SameFields
<1>10. MutexLock'
  <2>1. \A p \in Ops : Mutex!Owns(p)' => Mutex!Owns(p)
    BY <1>3, <1>4, <1>5, AgentFacts DEF Mutex!Owns, Moves, Caller
  <2>2. \A p \in Ops : Mutex!GivenLock(p)' => Mutex!GivenLock(p)
    BY <1>4, <1>5 DEF Mutex!GivenLock, Mutex!Agents, Agents, HeldBy, SameFields
  <2> QED BY <1>1, <1>3, <1>4, <2>1, <2>2, LockKept DEF Moves
<1> QED BY <1>6, <1>7, <1>8, <1>9, <1>10 DEF MutexInv

LEMMA MutexCleanup ==
  ASSUME SharedInv, MutexInv, NEW a \in Agents, cleanup_(a)
  PROVE  SharedInv' /\ MutexInv'
<1>1. SharedType /\ HandsInv /\ LifeInv /\ MutexType /\ MutexThreads /\ MutexStarted /\ MutexOnePlace /\ MutexLock
  BY DEF SharedInv, MutexInv
<1>2. PICK w \in Ops : CleanedUp(a, w)
  BY CleanupStep
<1>3. at[a] = "cleanup" /\ ctx' = ctx /\ HeldBy(a, w) /\ Held(w)
  BY <1>2 DEF CleanedUp, Held
<1>4. /\ Moves(a, won[a]) /\ \A b \in Agents : won'[b] = IF b = a THEN "none" ELSE won[b]
      /\ \A b \in Agents, p \in Ops : HeldBy(b, p)' => HeldBy(b, p)
      /\ \A p \in Ops : Held(p)' <=> p # w /\ Held(p)
  BY <1>2 DEF CleanedUp
<1>5. \A p \in Ops : /\ op'[p].life = IF p = w THEN "hopping" ELSE op[p].life
                     /\ op'[p].signals = op[p].signals /\ op'[p].bits = op[p].bits /\ SameFields(p)
  BY <1>2 DEF CleanedUp
<1>6. won[a] \in {"mark", "return", "returned"} /\ (a # Starter(a[1]) => won[a] # "mark")
  <2>1. a = Starter(a[1]) => won[a] \in {"mark", "returned"}
    BY <1>1, <1>3, AgentFacts DEF MutexThreads
  <2>2. a = Stopper(a[1]) => won[a] = "return"
    BY <1>1, <1>3, AgentFacts DEF MutexThreads
  <2>3. a = Caller(a[1]) => won[a] = "returned"
    BY <1>1, <1>3, AgentFacts DEF MutexThreads
  <2> QED BY <2>1, <2>2, <2>3, AgentFacts
<1>7. SharedInv' /\ MutexType'
  BY <1>1, <1>3, <1>6, CleanupShared DEF MutexType
<1>8. MutexThreads'
  BY <1>1, <1>3, <1>4, <1>6, AgentFacts, AgentsDiffer DEF MutexThreads, Moves
<1>9. MutexStarted'
  BY <1>1, <1>3, <1>4, <1>5, <1>6, AgentFacts, AgentsDiffer DEF MutexStarted, Moves
<1>10. MutexOnePlace'
  <2>1. \A p \in Ops : MutexStarting(p)' <=> MutexStarting(p)
    BY <1>3, <1>4, <1>6, AgentFacts DEF MutexStarting, Moves
  <2>2. ~InList(ctx.queue_, w) /\ ~MutexStarting(w) /\ op[w].life = "started"
    BY <1>1, <1>3 DEF MutexOnePlace
  <2> QED BY <1>1, <1>3, <1>4, <1>5, <2>1, <2>2 DEF MutexOnePlace, SameFields
<1>11. MutexLock'
  <2>1. \A p \in Ops : Mutex!Owns(p)' => Mutex!Owns(p)
    BY <1>3, <1>4, <1>5, <1>6, AgentFacts DEF Mutex!Owns, Moves, Caller
  <2>2. \A p \in Ops : Mutex!GivenLock(p)' => Mutex!GivenLock(p)
    BY <1>3, <1>4, <1>5 DEF Mutex!GivenLock, Mutex!Agents, Agents, HeldBy, SameFields
  <2> QED BY <1>1, <1>3, <1>4, <1>6, <2>1, <2>2, LockKept DEF Moves
<1> QED BY <1>7, <1>8, <1>9, <1>10, <1>11 DEF MutexInv

(* An operation that completes with a value was given the lock.            *)
LEMMA MutexForward ==
  ASSUME SharedInv, MutexInv, AMutex, NEW o \in Ops, forward_set_value(o)
  PROVE  SharedInv' /\ MutexInv'
<1>1. SharedType /\ HandsInv /\ LifeInv /\ MutexType /\ MutexThreads /\ MutexStarted /\ MutexOnePlace /\ MutexLock
  BY DEF SharedInv, MutexInv
<1>2. Forwarded(o)
  BY ForwardStep
<1>3. SharedInv' /\ \A p \in Ops : Held(p)' <=> Held(p)
  BY <1>2, ForwardShared DEF AMutex, AutoReset
<1>4. at' = at /\ whom' = whom /\ won' = won /\ ctx' = ctx /\ op[o].life = "hopping"
  BY <1>2 DEF Forwarded, threads
<1>5. \A p \in Ops : /\ op'[p].life = IF p = o THEN "completed" ELSE op[p].life
                     /\ op'[p].signals = IF p = o THEN <<Signal(o)>> ELSE op[p].signals
                     /\ op'[p].bits = op[p].bits /\ SameFields(p)
  BY <1>2 DEF Forwarded
<1>6. MutexType' /\ MutexThreads' /\ MutexStarted'
  BY <1>1, <1>4, <1>5 DEF MutexType, MutexThreads, MutexStarted
<1>7. ~Held(o)
  BY <1>1, <1>4 DEF HandsInv
<1>8. MutexOnePlace'
  <2>1. \A p \in Ops : MutexStarting(p)' <=> MutexStarting(p)
    BY <1>4 DEF MutexStarting
  <2> QED BY <1>1, <1>3, <1>4, <1>5, <2>1 DEF MutexOnePlace, SameFields
<1>9. MutexLock'
  <2>1. \A p \in Ops : Mutex!GivenLock(p)' => Mutex!GivenLock(p) /\ p # o
    BY <1>4, <1>5, <1>7 DEF Mutex!GivenLock, Mutex!Agents, Agents, HeldBy, Held, SameFields
  <2>2. \A p \in Ops : p # o => (Mutex!Owns(p)' <=> Mutex!Owns(p))
    BY <1>4, <1>5 DEF Mutex!Owns
  <2>3. CASE Signal(o) = "value"
    <3>1. Mutex!GivenLock(o)
      BY <1>4, <2>3 DEF Mutex!GivenLock, Signal
    <3>2. /\ ctx.locked_ /\ \A p \in Ops : ~Mutex!Owns(p)
          /\ \A p \in Ops : Mutex!GivenLock(p) => p = o
          /\ \A b \in Agents : at[b] \notin {"pop", "release"}
      BY <1>1, <3>1, HoldersAre
    <3>3. \A p \in Ops : Mutex!Owns(p)' => <<o, "owner">> = <<p, "owner">>
      BY <2>2, <3>2
    <3> QED BY <1>4, <2>1, <3>2, <3>3, LockGoesTo
  <2>4. CASE Signal(o) # "value"
    <3>1. ~Mutex!Owns(o)'
      <4>1. <<Signal(o)>> # <<"value">>
        BY <2>4
      <4> QED BY <1>5, <4>1 DEF Mutex!Owns
    <3> QED BY <1>1, <1>4, <2>1, <2>2, <3>1, LockKept
  <2> QED BY <2>3, <2>4
<1> QED BY <1>3, <1>6, <1>8, <1>9 DEF MutexInv

LEMMA MutexAsyncLock ==
  ASSUME SharedInv, MutexInv, NEW o \in Ops, Start(o, TRUE)
  PROVE  SharedInv' /\ MutexInv'
<1> DEFINE a == Starter(o)
<1>1. SharedType /\ HandsInv /\ LifeInv /\ MutexType /\ MutexThreads /\ MutexStarted /\ MutexOnePlace /\ MutexLock
  BY DEF SharedInv, MutexInv
<1>2. PICK pc \in {"stop", "nested"} : Begun(o, pc) /\ UNCHANGED <<which, ctx, local>>
  <2> DEFINE x == IF TRUE /\ op[o].stopped THEN "stop" ELSE "nested"
  <2>1. Begun(o, x) /\ UNCHANGED <<which, ctx, local>>
    BY StartStep
  <2>2. x \in {"stop", "nested"}
    OBVIOUS
  <2> HIDE DEF x
  <2> QED BY <2>1, <2>2
<1>3. a \in Agents /\ Goto(a, pc) /\ op[o].life = "idle"
  BY <1>2, AgentFacts DEF Begun
<1>4. /\ Moves(a, pc) /\ won' = won
      /\ \A b \in Agents, p \in Ops : HeldBy(b, p)' <=> HeldBy(b, p)
      /\ \A p \in Ops : Held(p)' <=> Held(p)
  BY <1>1, <1>3, GotoMoves
<1>5. \A p \in Ops : /\ op'[p].life = IF p = o THEN "started" ELSE op[p].life
                     /\ op'[p].signals = op[p].signals /\ SameFields(p)
                     /\ "started" \in op'[p].bits => "started" \in op[p].bits
  BY <1>2 DEF Begun
<1>6. SharedInv'
  BY <1>2, StartShared DEF Pcs
<1>7. ctx' = ctx /\ MutexType'
  BY <1>1, <1>2 DEF MutexType
<1>8. o \notin ctx.started_ /\ ~InList(ctx.queue_, o) /\ ~Held(o) /\ at[Stopper(o)] = "none"
  BY <1>1, <1>3 DEF MutexOnePlace, LifeInv
<1>9. MutexThreads'
  BY <1>1, <1>4, AgentFacts, AgentsDiffer DEF MutexThreads, Moves
<1>10. MutexStarted'
  BY <1>1, <1>4, <1>5, <1>7, AgentFacts, AgentsDiffer DEF MutexStarted, Moves
<1>11. MutexOnePlace'
  <2>1. MutexStarting(o)' /\ \A p \in Ops : p # o => (MutexStarting(p)' <=> MutexStarting(p))
    BY <1>3, <1>4, <1>7, <1>8, AgentFacts, AgentsDiffer DEF MutexStarting, Moves
  <2> QED BY <1>1, <1>4, <1>5, <1>7, <1>8, <2>1 DEF MutexOnePlace, SameFields
<1>12. MutexLock'
  <2>1. \A p \in Ops : Mutex!Owns(p)' => Mutex!Owns(p)
    BY <1>4, <1>5, AgentFacts, AgentsDiffer DEF Mutex!Owns, Moves, Caller
  <2>2. \A p \in Ops : Mutex!GivenLock(p)' => Mutex!GivenLock(p)
    BY <1>4, <1>5 DEF Mutex!GivenLock, Mutex!Agents, Agents, HeldBy, SameFields
  <2> QED BY <1>1, <1>4, <1>7, <2>1, <2>2, LockKept DEF Moves
<1> QED BY <1>6, <1>7, <1>9, <1>10, <1>11, <1>12 DEF MutexInv

(* A stop request reaches stop() only for an operation that has started.   *)
LEMMA MutexCancels ==
  ASSUME SharedInv, MutexInv, NEW o \in Ops, Cancels, NEW a \in Agents, NEW pc, Goto(a, pc),
         \A p \in Ops : "started" \in op'[p].bits => p \in ctx.started_ \/ "started" \in op[p].bits,
         \/ a = Starter(o) /\ at[a] = "mark" /\ pc \in {"stop", "returned"}
         \/ /\ a = Stopper(o) /\ at[a] \in {"none", "callback", "return"}
            /\ pc \in {"callback", "return", "returned"} \/ (pc = "stop" /\ o \in ctx.started_)
  PROVE  MutexInv'
<1>1. SharedType /\ HandsInv /\ LifeInv /\ MutexType /\ MutexThreads /\ MutexStarted /\ MutexOnePlace /\ MutexLock
  BY DEF SharedInv, MutexInv
<1>2. /\ Moves(a, pc) /\ won' = won
      /\ \A b \in Agents, p \in Ops : HeldBy(b, p)' <=> HeldBy(b, p)
      /\ \A p \in Ops : Held(p)' <=> Held(p)
  BY <1>1, GotoMoves
<1>3. /\ ctx' = ctx
      /\ \A p \in Ops : op'[p].life = op[p].life /\ op'[p].signals = op[p].signals /\ SameFields(p)
  BY DEF Cancels, SameStage
<1>4. pc = "stop" => o \in ctx.started_
  BY <1>1, AgentsDiffer DEF MutexStarted
<1>5. MutexType'
  BY <1>1, <1>3 DEF MutexType
<1>6. MutexThreads'
  BY <1>1, <1>2, AgentFacts, AgentsDiffer DEF MutexThreads, Moves
<1>7. MutexStarted'
  BY <1>1, <1>2, <1>3, <1>4, AgentFacts, AgentsDiffer DEF MutexStarted, Moves
<1>8. MutexOnePlace'
  <2>1. \A p \in Ops : MutexStarting(p)' <=> MutexStarting(p)
    BY <1>2, <1>3, <1>4, AgentFacts, AgentsDiffer DEF MutexStarting, Moves
  <2> QED BY <1>1, <1>2, <1>3, <2>1 DEF MutexOnePlace, SameFields
<1>9. MutexLock'
  <2>1. \A p \in Ops : Mutex!Owns(p)' => Mutex!Owns(p)
    BY <1>2, <1>3, AgentFacts, AgentsDiffer DEF Mutex!Owns, Moves, Caller
  <2>2. \A p \in Ops : Mutex!GivenLock(p)' => Mutex!GivenLock(p)
    BY <1>2, <1>3 DEF Mutex!GivenLock, Mutex!Agents, Agents, HeldBy, SameFields
  <2>3. pc \notin {"pop", "release"}
    OBVIOUS
  <2> QED BY <1>1, <1>2, <1>3, <2>1, <2>2, <2>3, LockKept DEF Moves
<1> QED BY <1>5, <1>6, <1>7, <1>8, <1>9 DEF MutexInv

LEMMA MutexCancellation ==
  ASSUME SharedInv, MutexInv, NEW o \in Ops,
         MarkStarted(o) \/ StopCallback(o) \/ CallbackReturns(o) \/ RequestStop(o)
  PROVE  SharedInv' /\ MutexInv'
<1>1. SharedType /\ LifeInv /\ MutexStarted /\ Starter(o) \in Agents /\ Stopper(o) \in Agents
  BY AgentFacts DEF SharedInv, MutexInv
<1>2. SharedInv' /\ Cancels
  BY CancellationShared
<1>3. CASE MarkStarted(o)
  <2>1. o \in ctx.started_
    BY <1>1, <1>3, MarkStartedStep DEF MutexStarted
  <2>2. PICK pc \in {"stop", "returned"} :
          /\ at[Starter(o)] = "mark" /\ Goto(Starter(o), pc)
          /\ \A p \in Ops : "started" \in op'[p].bits => p = o \/ "started" \in op[p].bits
    BY <1>3, MarkStartedStep
  <2>3. \A p \in Ops : "started" \in op'[p].bits => p \in ctx.started_ \/ "started" \in op[p].bits
    BY <2>1, <2>2
  <2> QED BY <1>1, <1>2, <2>2, <2>3, MutexCancels
<1>4. CASE StopCallback(o)
  <2>1. op[o].bits = {"started"} => o \in ctx.started_
    BY <1>1 DEF MutexStarted
  <2>2. PICK pc \in {"stop", "return"} :
          /\ at[Stopper(o)] = "callback" /\ Goto(Stopper(o), pc) /\ (pc = "stop" => op[o].bits = {"started"})
          /\ \A p \in Ops : "started" \in op'[p].bits => "started" \in op[p].bits
    BY <1>4, StopCallbackStep
  <2> QED BY <1>1, <1>2, <2>1, <2>2, MutexCancels
<1>5. CASE CallbackReturns(o)
  <2>1. /\ at[Stopper(o)] = "return" /\ Goto(Stopper(o), "returned")
        /\ \A p \in Ops : op'[p].bits = op[p].bits
    BY <1>5, CallbackReturnsStep
  <2> QED BY <1>1, <1>2, <2>1, MutexCancels
<1>6. CASE RequestStop(o)
  <2>1. /\ \A p \in Ops : op'[p].bits = op[p].bits
        /\ \/ at[Stopper(o)] = "none" /\ Goto(Stopper(o), "callback")
           \/ UNCHANGED threads
    BY <1>6, RequestStopStep
  <2>2. CASE at[Stopper(o)] = "none" /\ Goto(Stopper(o), "callback")
    BY <1>1, <1>2, <2>1, <2>2, MutexCancels
  <2>3. CASE UNCHANGED threads
    <3>1. at' = at /\ whom' = whom /\ won' = won /\ ctx' = ctx
      BY <1>2, <2>3 DEF threads, Cancels
    <3>2. \A p \in Ops : op'[p].life = op[p].life /\ op'[p].signals = op[p].signals /\ SameFields(p)
      BY <1>2 DEF Cancels, SameStage
    <3>3. \A p \in Ops : Held(p)' <=> Held(p)
      BY <3>1 DEF Held, HeldBy
    <3>4. MutexType /\ MutexThreads /\ MutexStarted /\ MutexOnePlace /\ MutexLock
      BY DEF MutexInv
    <3>5. MutexType' /\ MutexThreads' /\ MutexStarted'
      BY <2>1, <3>1, <3>4 DEF MutexType, MutexThreads, MutexStarted
    <3>6. \A p \in Ops : MutexStarting(p)' <=> MutexStarting(p)
      BY <3>1 DEF MutexStarting
    <3>7. MutexOnePlace'
      BY <3>1, <3>2, <3>3, <3>4, <3>6 DEF MutexOnePlace, SameFields
    <3>8. \A p \in Ops : Mutex!Owns(p)' => Mutex!Owns(p)
      BY <3>1, <3>2 DEF Mutex!Owns
    <3>9. \A p \in Ops : Mutex!GivenLock(p)' => Mutex!GivenLock(p)
      BY <3>1, <3>2 DEF Mutex!GivenLock, Mutex!Agents, SameFields
    <3>10. MutexLock'
      BY <3>1, <3>4, <3>8, <3>9, LockKept
    <3> QED BY <1>2, <3>5, <3>7, <3>10 DEF MutexInv
  <2> QED BY <2>1, <2>2, <2>3
<1> QED BY <1>3, <1>4, <1>5, <1>6

LEMMA MutexStep ==
  ASSUME SharedInv, MutexInv, Mutex!Next
  PROVE  SharedInv' /\ MutexInv'
<1>1. AMutex
  BY DEF Mutex!Next, AMutex
<1>2. ASSUME NEW a \in Agents, Mutex!try_complete(a) PROVE SharedInv' /\ MutexInv'
  <2>1. try_complete(a)
    BY <1>2 DEF Mutex!try_complete, try_complete, Mutex!Release, Release, Mutex!Goto, Goto
  <2> QED BY <2>1, MutexTryComplete
<1>3. ASSUME NEW a \in Agents, Mutex!cleanup_(a) PROVE SharedInv' /\ MutexInv'
  <2>1. cleanup_(a)
    BY <1>3 DEF Mutex!cleanup_, cleanup_, Mutex!Release, Release
  <2> QED BY <2>1, MutexCleanup
<1>4. ASSUME NEW o \in Ops, Mutex!forward_set_value(o) PROVE SharedInv' /\ MutexInv'
  <2>1. forward_set_value(o)
    BY <1>4 DEF Mutex!forward_set_value, forward_set_value, Mutex!threads, threads,
                Mutex!Signal, Signal, Mutex!HopIsStopped, HopIsStopped
  <2> QED BY <1>1, <2>1, MutexForward
<1>5. ASSUME NEW o \in Ops,
             Mutex!MarkStarted(o) \/ Mutex!StopCallback(o) \/ Mutex!CallbackReturns(o) \/ Mutex!RequestStop(o)
      PROVE  SharedInv' /\ MutexInv'
  <2>1. MarkStarted(o) \/ StopCallback(o) \/ CallbackReturns(o) \/ RequestStop(o)
    BY <1>5 DEF Mutex!MarkStarted, MarkStarted, Mutex!StopCallback, StopCallback, Mutex!CallbackReturns,
                CallbackReturns, Mutex!RequestStop, RequestStop, Mutex!Goto, Goto, Mutex!threads, threads
  <2> QED BY <2>1, MutexCancellation
<1>6. ASSUME NEW o \in Ops, Mutex!async_lock(o) PROVE SharedInv' /\ MutexInv'
  <2>1. Start(o, TRUE)
    BY <1>6 DEF Mutex!async_lock, Mutex!Start, Start, Mutex!NewCallback, NewCallback, Mutex!Goto, Goto
  <2> QED BY <2>1, MutexAsyncLock
<1>7. ASSUME NEW a \in Agents, Mutex!pop_front(a) PROVE SharedInv' /\ MutexInv'
  BY <1>7, MutexPopFront, MutexProcess
<1>8. ASSUME NEW a \in Agents, Mutex!ReleaseLock(a) \/ Mutex!CheckEmpty(a) \/ Mutex!Reacquire(a)
      PROVE  SharedInv' /\ MutexInv'
  BY <1>8, MutexProcess
<1> QED BY <1>2, <1>3, <1>4, <1>5, <1>6, <1>7, <1>8, MutexStop, MutexNested, MutexPushBack, MutexExchange,
           MutexUnlock, MutexTryLock
        DEF Mutex!Next, Mutex!System, Mutex!User, Mutex!Completions, Mutex!Cancellation, Mutex!Agents, Agents

-----------------------------------------------------------------------------
(* A behaviour is about one primitive.                                     *)
LEMMA ListSteps ==
  ASSUME List!Next
  PROVE  which' = which
<1>1. ASSUME NEW s, List!Become(s) PROVE which' = which
  BY <1>1 DEF List!Become
<1>2. ASSUME NEW a, NEW pc, NEW s, List!Do(a, pc, s) PROVE which' = which
  BY <1>2 DEF List!Do, List!Become
<1>3. ASSUME NEW a, NEW pc, NEW l, NEW next, List!lock(a, pc, l, next) PROVE which' = which
  BY <1>2, <1>3 DEF List!lock
<1>4. ASSUME NEW a, NEW item, NEW from, NEW how, List!Unlink(a, item, from, how) PROVE which' = which
  BY <1>2, <1>4 DEF List!Unlink
<1>5. ASSUME NEW a \in List!Agents, List!push_front(a) \/ List!push_back(a) PROVE which' = which
  BY <1>2, <1>3, <1>5 DEF List!push_front, List!unless_latched, List!push_back
<1>6. ASSUME NEW a \in List!Agents, List!pop_front(a) \/ List!try_remove(a) PROVE which' = which
  BY <1>2, <1>3, <1>4, <1>6 DEF List!pop_front, List!try_remove
<1>7. ASSUME NEW a \in List!Agents, List!drain_into(a) PROVE which' = which
  BY <1>2, <1>3, <1>7 DEF List!drain_into
<1>8. ASSUME NEW a \in List!Agents, List!unlatch(a) \/ List!try_lock_checking(a) PROVE which' = which
  BY <1>2, <1>3, <1>8 DEF List!unlatch, List!try_lock_checking
<1>9. ASSUME NEW o \in Ops, List!Push(o) \/ List!Call(o) \/ List!StopItem(o) PROVE which' = which
  BY <1>1, <1>9 DEF List!Push, List!Call, List!StopItem
<1> QED BY <1>5, <1>6, <1>7, <1>8, <1>9 DEF List!Next, List!System, List!User

LEMMA MutexSteps ==
  ASSUME Mutex!Next
  PROVE  which' = which
<1>1. ASSUME NEW a \in Mutex!Agents, Mutex!try_complete(a) \/ Mutex!cleanup_(a) PROVE which' = which
  BY <1>1 DEF Mutex!try_complete, Mutex!cleanup_
<1>2. ASSUME NEW o \in Ops, Mutex!MarkStarted(o) \/ Mutex!StopCallback(o) \/ Mutex!CallbackReturns(o) \/
                            Mutex!RequestStop(o) \/ Mutex!forward_set_value(o) PROVE which' = which
  BY <1>2 DEF Mutex!MarkStarted, Mutex!StopCallback, Mutex!CallbackReturns, Mutex!RequestStop, Mutex!forward_set_value
<1>3. ASSUME NEW a \in Mutex!Agents, \/ Mutex!pop_front(a) \/ Mutex!ReleaseLock(a) \/ Mutex!CheckEmpty(a)
                                     \/ Mutex!Reacquire(a) \/ Mutex!stop(a)
      PROVE  which' = which
  BY <1>3 DEF Mutex!pop_front, Mutex!ReleaseLock, Mutex!CheckEmpty, Mutex!Reacquire, Mutex!stop
<1>4. ASSUME NEW o \in Ops, \/ Mutex!start(o) \/ Mutex!push_back(o) \/ Mutex!ExchangeLocked(o) \/ Mutex!unlock(o)
                            \/ Mutex!try_lock(o) \/ Mutex!async_lock(o)
      PROVE  which' = which
  BY <1>4 DEF Mutex!start, Mutex!push_back, Mutex!ExchangeLocked, Mutex!unlock, Mutex!try_lock, Mutex!async_lock,
              Mutex!Start
<1> QED BY <1>1, <1>2, <1>3, <1>4 DEF Mutex!Next, Mutex!System, Mutex!User, Mutex!Completions, Mutex!Cancellation

LEMMA PassSteps ==
  ASSUME Pass!Next
  PROVE  which' = which
<1>1. ASSUME NEW a \in Pass!Agents, Pass!try_complete(a) \/ Pass!cleanup_(a) \/ Pass!stop(a) PROVE which' = which
  BY <1>1 DEF Pass!try_complete, Pass!cleanup_, Pass!stop
<1>2. ASSUME NEW o \in Ops, Pass!MarkStarted(o) \/ Pass!StopCallback(o) \/ Pass!CallbackReturns(o) \/
                            Pass!RequestStop(o) \/ Pass!forward_set_value(o) PROVE which' = which
  BY <1>2 DEF Pass!MarkStarted, Pass!StopCallback, Pass!CallbackReturns, Pass!RequestStop, Pass!forward_set_value
<1>3. ASSUME NEW o \in Ops, \/ Pass!call_or_suspend(o) \/ Pass!accept_or_suspend(o) \/ Pass!resume_(o)
                            \/ Pass!async(o) \/ Pass!try(o)
      PROVE  which' = which
  BY <1>3 DEF Pass!call_or_suspend, Pass!accept_or_suspend, Pass!resume_, Pass!async, Pass!Start, Pass!try
<1> QED BY <1>1, <1>2, <1>3 DEF Pass!Next, Pass!System, Pass!User, Pass!Completions, Pass!Cancellation

LEMMA EventSteps ==
  ASSUME Events!Next
  PROVE  which' = which
<1>1. ASSUME NEW a \in Events!Agents, \/ Events!try_complete(a) \/ Events!cleanup_(a) \/ Events!Wake(a)
                                      \/ Events!SetReturns(a) \/ Events!StopV2(a) \/ Events!set_done(a)
      PROVE  which' = which
  BY <1>1 DEF Events!try_complete, Events!cleanup_, Events!Wake, Events!SetReturns, Events!StopV2, Events!set_done
<1>2. ASSUME NEW o \in Ops, Events!MarkStarted(o) \/ Events!StopCallback(o) \/ Events!CallbackReturns(o) \/
                            Events!RequestStop(o) \/ Events!forward_set_value(o) PROVE which' = which
  BY <1>2 DEF Events!MarkStarted, Events!StopCallback, Events!CallbackReturns, Events!RequestStop,
              Events!forward_set_value
<1>3. ASSUME NEW o \in Ops, \/ Events!LoadTop(o) \/ Events!PushOrComplete(o) \/ Events!PushFront(o)
                            \/ Events!try_reset(o) \/ Events!StartV1(o) \/ Events!StartV2(o) \/ Events!next(o)
      PROVE  which' = which
  BY <1>3 DEF Events!LoadTop, Events!PushOrComplete, Events!PushFront, Events!try_reset, Events!StartV1,
              Events!StartV2, Events!Start, Events!next
<1>4. ASSUME NEW o \in Ops, Events!set(o) \/ Events!reset(o) \/ Events!auto_set(o) \/ Events!cleanup(o)
      PROVE  which' = which
  BY <1>4 DEF Events!set, Events!reset, Events!auto_set, Events!cleanup
<1> QED BY <1>1, <1>2, <1>3, <1>4 DEF Events!Next, Events!System, Events!User, Events!Completions, Events!Cancellation

LEMMA OnePrimitive ==
  ASSUME [Next]_vars
  PROVE  which' = which
BY ListSteps, MutexSteps, PassSteps, EventSteps DEF Next, vars

-----------------------------------------------------------------------------
(* What NewOp and NoAgents begin with.                                     *)
LEMMA SharedStart ==
  ASSUME \A o \in Ops : \E kind \in Kinds : op[o] = NewOp(kind), op = [o \in Ops |-> op[o]], NoAgents
  PROVE  SharedInv /\ \A o \in Ops : ~Held(o) /\ op[o].life = "idle" /\ op[o].signals = <<>> /\ op[o].bits = {}
<1>1. ASSUME NEW kind \in Kinds
      PROVE  /\ NewOp(kind) \in Operation /\ NewOp(kind).life = "idle" /\ NewOp(kind).signals = <<>>
             /\ NewOp(kind).bits = {} /\ NewOp(kind).cb = "none"
  BY <1>1, WhomFacts DEF NewOp, Operation
<1>2. \A o \in Ops : /\ op[o] \in Operation /\ op[o].life = "idle" /\ op[o].signals = <<>>
                     /\ op[o].bits = {} /\ op[o].cb = "none"
  BY <1>1
<1>3. SharedType
  BY <1>2, WhomFacts DEF SharedType, NoAgents, Pcs
<1>4. \A a \in Agents : at[a] = "none" /\ whom[a] = <<>>
  BY DEF NoAgents
<1>5. \A o \in Ops : ~Held(o)
  BY <1>4, WhomFacts DEF Held, HeldBy
<1>6. HandsInv
  BY <1>4, <1>5 DEF HandsInv, Held
<1>7. LifeInv
  BY <1>2, <1>4, AgentFacts DEF LifeInv
<1> QED BY <1>2, <1>3, <1>5, <1>6, <1>7 DEF SharedInv

LEMMA MutexStart ==
  ASSUME Mutex!Init
  PROVE  SharedInv /\ MutexInv
<1>1. /\ op \in [Ops -> {NewOp("async_lock"), NewOp("try_lock")}]
      /\ ctx = [queue_ |-> <<>>, locked_ |-> FALSE, started_ |-> {}] /\ NoAgents
  BY DEF Mutex!Init, Mutex!NewOp, NewOp, Mutex!NoAgents, NoAgents, Mutex!Agents, Agents
<1>2. \A o \in Ops : \E kind \in {"async_lock", "try_lock"} : op[o] = NewOp(kind)
  BY <1>1
<1>3. op = [o \in Ops |-> op[o]] /\ {"async_lock", "try_lock"} \subseteq Kinds
  BY <1>1 DEF Kinds
<1>4. SharedInv /\ \A o \in Ops : ~Held(o) /\ op[o].life = "idle" /\ op[o].signals = <<>> /\ op[o].bits = {}
  BY <1>1, <1>2, <1>3, SharedStart
<1>5. \A a \in Agents : at[a] = "none"
  BY <1>1 DEF NoAgents
<1>6. MutexType /\ MutexThreads /\ MutexStarted
  BY <1>1, <1>4, <1>5, AgentFacts DEF MutexType, MutexThreads, MutexStarted
<1>7. MutexOnePlace
  <2>1. Once(<<>>) /\ \A o \in Ops : ~InList(<<>>, o)
    BY DEF Once, InList
  <2>2. \A o \in Ops : ~MutexStarting(o)
    BY <1>5, AgentFacts DEF MutexStarting
  <2>3. \A o \in Ops : op[o].kind \in {"async_lock", "try_lock"} /\ op[o].result = "value"
    BY <1>2 DEF NewOp
  <2> QED BY <1>1, <1>4, <2>1, <2>2, <2>3 DEF MutexOnePlace
<1>8. MutexLock
  <2>1. \A o \in Ops : ~Mutex!Owns(o)
    BY <1>4 DEF Mutex!Owns
  <2>2. \A o \in Ops : ~Mutex!GivenLock(o)
    BY <1>4 DEF Mutex!GivenLock, Mutex!Agents, Agents, Held, HeldBy
  <2>3. Mutex!Holders = {}
    BY <1>5, <2>1, <2>2 DEF Mutex!Holders, Mutex!Agents, Agents
  <2> QED BY <2>3 DEF MutexLock
<1> QED BY <1>4, <1>6, <1>7, <1>8 DEF MutexInv

LEMMA SharedStutters ==
  ASSUME SharedInv, UNCHANGED vars
  PROVE  SharedInv'
<1>1. SharedType'
  BY DEF SharedInv, SharedType, vars, threads
<1>2. HandsInv'
  BY DEF SharedInv, HandsInv, Held, HeldBy, vars, threads
<1>3. LifeInv'
  BY DEF SharedInv, LifeInv, HeldBy, vars, threads, AutoReset
<1> QED BY <1>1, <1>2, <1>3 DEF SharedInv

LEMMA MutexStutters ==
  ASSUME MutexInv, UNCHANGED vars
  PROVE  MutexInv'
<1>1. ctx' = ctx /\ op' = op /\ at' = at /\ whom' = whom /\ won' = won
  BY DEF vars, threads
<1>2. MutexType' /\ MutexThreads' /\ MutexStarted'
  BY <1>1 DEF MutexInv, MutexType, MutexThreads, MutexStarted
<1>3. MutexOnePlace'
  BY <1>1 DEF MutexInv, MutexOnePlace, MutexStarting, Held, HeldBy
<1>4. MutexLock'
  <2>1. \A p \in Ops : Mutex!Owns(p)' => Mutex!Owns(p)
    BY <1>1 DEF Mutex!Owns
  <2>2. \A p \in Ops : Mutex!GivenLock(p)' => Mutex!GivenLock(p)
    BY <1>1 DEF Mutex!GivenLock, Mutex!Agents
  <2> QED BY <1>1, <2>1, <2>2, LockKept DEF MutexInv
<1> QED BY <1>2, <1>3, <1>4 DEF MutexInv

(* A v2::async_mutex keeps the invariant above in every behaviour.         *)
THEOREM MutexInvariance == Spec => [](AMutex => SharedInv /\ MutexInv)
<1> DEFINE I == AMutex => SharedInv /\ MutexInv
<1>1. Init => I
  BY MutexStart DEF Init, Events!Init, Pass!Init, List!Init, AMutex
<1>2. I /\ [Next]_vars => I'
  <2> SUFFICES ASSUME I, [Next]_vars, AMutex' PROVE SharedInv' /\ MutexInv'
    OBVIOUS
  <2>1. AMutex /\ SharedInv /\ MutexInv
    BY OnePrimitive DEF AMutex
  <2>2. CASE UNCHANGED vars
    BY <2>1, <2>2, SharedStutters, MutexStutters
  <2>3. CASE Next
    <3>1. Mutex!Next
      BY <2>1, <2>3 DEF Next, Events!Next, Pass!Next, List!Next, AMutex
    <3> QED BY <2>1, <3>1, MutexStep
  <2> QED BY <2>2, <2>3
<1> QED BY <1>1, <1>2, PTL DEF Spec

(* At most one of an owner, an operation that was given the lock and a     *)
(* thread that passes it on or releases it has the lock, and while one     *)
(* has it locked_ is set (v2/async_mutex.hpp: start(), process_queue() and *)
(* stop()).                                                                *)
THEOREM OneHolder == Spec => []LockIsRight
<1>1. (AMutex => SharedInv /\ MutexInv) => LockIsRight
  <2> SUFFICES ASSUME MutexLock PROVE Mutex!LockIsRight
    BY DEF LockIsRight, AMutex, MutexInv
  <2>0. \A S : Mutex!Cardinality(S) = Cardinality(S)
    BY DEF Mutex!Cardinality, Cardinality, Mutex!IsFiniteSet, IsFiniteSet
  <2>1. CASE Mutex!Holders = {}
    <3>1. Cardinality(Mutex!Holders) = 0
      BY <2>1, FS_EmptySet
    <3> QED BY <2>0, <2>1, <3>1 DEF Mutex!LockIsRight
  <2>2. CASE Mutex!Holders # {}
    <3>1. PICK x \in Mutex!Holders : TRUE
      BY <2>2
    <3>2. Mutex!Holders = {x}
      BY <3>1 DEF MutexLock
    <3>3. Cardinality({x}) = 1
      BY FS_Singleton
    <3>4. Cardinality(Mutex!Holders) = 1
      BY <3>2, <3>3
    <3> QED BY <2>0, <3>4 DEF Mutex!LockIsRight, MutexLock
  <2> QED BY <2>1, <2>2
<1> QED BY <1>1, MutexInvariance, PTL
=============================================================================
