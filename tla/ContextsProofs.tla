--------------------------- MODULE ContextsProofs ---------------------------
(***************************************************************************)
(* The promise of Contexts, proved of every context but io_uring_context:  *)
(* each has an invariant that says in which one place a started operation  *)
(* is - in a list, with a thread, or with whoever is about to link it - so *)
(* that it is completed once.  They hold for any set of operations, any of *)
(* which may be asked to stop, any number of threads and any length of     *)
(* time; that of io_epoll_context only if no read is asked to stop before  *)
(* its descriptor is registered, and registering does not fail.            *)
(***************************************************************************)
EXTENDS Contexts, FiniteSetTheorems, SequenceTheorems, WellFoundedInduction, TLAPS

\* Lists that hold an operation at most once.
InList(seq, o) == \E i \in DOMAIN seq : seq[i] = o
Once(seq) == \A i, j \in DOMAIN seq : seq[i] = seq[j] => i = j

\* What a list is after a push at either end.
LEMMA AppendFacts ==
  ASSUME NEW S, NEW q \in Seq(S), NEW o \in S
  PROVE  /\ Append(q, o) \in Seq(S)
         /\ \A p \in S : InList(Append(q, o), p) <=> p = o \/ InList(q, p)
         /\ Once(q) /\ ~InList(q, o) => Once(Append(q, o))
<1> DEFINE r == Append(q, o)
<1>1. r \in Seq(S) /\ Len(r) = Len(q) + 1 /\ r[Len(q) + 1] = o /\ \A i \in 1 .. Len(q) : r[i] = q[i]
  OBVIOUS
<1>2. DOMAIN q = 1 .. Len(q) /\ DOMAIN r = 1 .. Len(q) + 1 /\ Len(q) \in Nat
  BY <1>1
<1> QED BY <1>1, <1>2 DEF InList, Once

\* An item in front of a list.
LEMMA PrependFacts ==
  ASSUME NEW S, NEW q \in Seq(S), NEW o \in S
  PROVE  /\ <<o>> \o q \in Seq(S) /\ <<o>> \o q # <<>>
         /\ \A p \in S : InList(<<o>> \o q, p) <=> p = o \/ InList(q, p)
         /\ Once(q) /\ ~InList(q, o) => Once(<<o>> \o q)
<1> DEFINE r == <<o>> \o q
<1>1. /\ r \in Seq(S) /\ Len(r) = Len(q) + 1 /\ r[1] = o
      /\ \A i \in 2 .. Len(q) + 1 : r[i] = q[i - 1]
  OBVIOUS
<1>2. DOMAIN q = 1 .. Len(q) /\ DOMAIN r = 1 .. Len(q) + 1 /\ Len(q) \in Nat
  BY <1>1
<1> HIDE DEF r
<1>3. ASSUME NEW i \in DOMAIN q PROVE i + 1 \in DOMAIN r /\ r[i + 1] = q[i]
  BY <1>1, <1>2
<1>4. ASSUME NEW i \in DOMAIN r, i # 1 PROVE i - 1 \in DOMAIN q /\ r[i] = q[i - 1]
  BY <1>1, <1>2, <1>4
<1>5. \A p \in S : InList(r, p) <=> p = o \/ InList(q, p)
  BY <1>1, <1>2, <1>3, <1>4 DEF InList
<1>6. ASSUME Once(q), ~InList(q, o), NEW i \in DOMAIN r, NEW j \in DOMAIN r, r[i] = r[j] PROVE i = j
  <2>1. CASE i # 1 /\ j # 1
    <3>1. i - 1 = j - 1
      BY <1>4, <1>6, <2>1 DEF Once
    <3> QED BY <3>1, <1>2
  <2> QED BY <2>1, <1>1, <1>4, <1>6 DEF InList
<1>7. r # <<>>
  BY <1>1, <1>2
<1> QED BY <1>1, <1>5, <1>6, <1>7 DEF r, Once

\* What it is after a pop.
LEMMA TailFacts ==
  ASSUME NEW S, NEW q \in Seq(S), q # <<>>
  PROVE  /\ Head(q) \in S /\ Tail(q) \in Seq(S) /\ InList(q, Head(q))
         /\ \A p \in S : InList(q, p) <=> p = Head(q) \/ InList(Tail(q), p)
         /\ Once(q) => Once(Tail(q)) /\ ~InList(Tail(q), Head(q))
<1> DEFINE r == Tail(q)
<1>1. /\ Head(q) = q[1] /\ Len(q) \in Nat /\ Len(q) > 0
      /\ r \in Seq(S) /\ Len(r) = Len(q) - 1 /\ \A i \in 1 .. Len(q) - 1 : r[i] = q[i + 1]
  OBVIOUS
<1>2. DOMAIN q = 1 .. Len(q) /\ DOMAIN r = 1 .. Len(q) - 1 /\ Head(q) \in S
  BY <1>1
<1> HIDE DEF r
<1>3. ASSUME NEW i \in DOMAIN r PROVE i + 1 \in DOMAIN q /\ i + 1 # 1 /\ r[i] = q[i + 1]
  BY <1>1, <1>2
<1>4. ASSUME NEW i \in DOMAIN q, i # 1 PROVE i - 1 \in DOMAIN r /\ r[i - 1] = q[i]
  BY <1>1, <1>2, <1>4
<1>5. 1 \in DOMAIN q /\ q[1] = Head(q)
  BY <1>1, <1>2
<1>6. \A p \in S : InList(q, p) <=> p = Head(q) \/ InList(r, p)
  BY <1>3, <1>4, <1>5 DEF InList
<1>7. ASSUME Once(q), NEW i \in DOMAIN r, NEW j \in DOMAIN r, r[i] = r[j] PROVE i = j
  <2>1. i + 1 = j + 1
    BY <1>3, <1>7 DEF Once
  <2> QED BY <2>1, <1>2, <1>1
<1>8. Once(q) => ~InList(r, Head(q))
  BY <1>3, <1>5 DEF Once, InList
<1>9. Head(q) \in S /\ r \in Seq(S) /\ InList(q, Head(q))
  BY <1>1, <1>2, <1>5 DEF InList
<1> QED BY <1>6, <1>7, <1>8, <1>9 DEF r, Once

\* What it is after a removal.
LEMMA UnlinkFacts ==
  ASSUME NEW S, NEW q \in Seq(S), NEW o \in S, Once(q)
  PROVE  /\ Unlink(q, o) \in Seq(S)
         /\ \A p \in S : InList(Unlink(q, o), p) <=> p # o /\ InList(q, p)
         /\ Once(Unlink(q, o))
<1>1. CASE ~InList(q, o)
  BY <1>1 DEF Unlink, Items, InList
<1>2. CASE InList(q, o)
  <2> DEFINE k == Position(q, o)
             r == SubSeq(q, 1, k - 1) \o SubSeq(q, k + 1, Len(q))
  <2>1. Unlink(q, o) = r
    BY <1>2 DEF Unlink, Items, InList
  <2>2. k \in 1 .. Len(q) /\ q[k] = o /\ Len(q) \in Nat /\ DOMAIN q = 1 .. Len(q)
    BY <1>2 DEF InList, Position
  <2> HIDE DEF k
  <2>3. /\ r \in Seq(S) /\ Len(r) = Len(q) - 1
        /\ \A i \in 1 .. Len(q) - 1 : r[i] = IF i < k THEN q[i] ELSE q[i + 1]
    <3> DEFINE b == SubSeq(q, 1, k - 1)
               c == SubSeq(q, k + 1, Len(q))
    <3>1. b \in Seq(S) /\ Len(b) = k - 1 /\ \A i \in 1 .. k - 1 : b[i] = q[i]
      BY <2>2
    <3>2. c \in Seq(S) /\ Len(c) = Len(q) - k /\ \A i \in 1 .. Len(q) - k : c[i] = q[k + i]
      <4>1. \A i \in k + 1 .. Len(q) : q[i] \in S
        BY <2>2
      <4>2. /\ c \in Seq(S) /\ Len(c) = IF k + 1 <= Len(q) THEN Len(q) - (k + 1) + 1 ELSE 0
            /\ \A i \in 1 .. Len(q) - (k + 1) + 1 : c[i] = q[k + 1 + i - 1]
        <5>1. k + 1 \in Int /\ Len(q) \in Int
          BY <2>2
        <5> QED BY <4>1, <5>1, SubSeqProperties
      <4> HIDE DEF c
      <4>3. Len(q) - (k + 1) + 1 = Len(q) - k /\ \A i \in 1 .. Len(q) - k : k + 1 + i - 1 = k + i
        BY <2>2
      <4>4. Len(c) = Len(q) - k
        <5>1. k \in Int /\ Len(q) \in Int /\ k <= Len(q)
          BY <2>2
        <5>2. CASE k + 1 <= Len(q)
          BY <4>2, <4>3, <5>2
        <5>3. CASE ~(k + 1 <= Len(q))
          <6>1. Len(q) - k = 0
            BY <5>1, <5>3
          <6> QED BY <4>2, <5>3, <6>1
        <5> QED BY <5>2, <5>3
      <4>5. ASSUME NEW i \in 1 .. Len(q) - k PROVE c[i] = q[k + i]
        <5>1. c[i] = q[k + 1 + i - 1]
          BY <4>2, <4>3
        <5> QED BY <5>1, <4>3
      <4> QED BY <4>2, <4>4, <4>5
    <3>3. r = b \o c
      OBVIOUS
    <3> HIDE DEF b, c, r
    <3>4. r \in Seq(S) /\ Len(r) = Len(q) - 1
      <4>3. b \in Seq(S) /\ c \in Seq(S)
        BY <3>1, <3>2
      <4>1. b \o c \in Seq(S) /\ Len(b \o c) = Len(b) + Len(c)
        BY <4>3, ConcatProperties
      <4>2. Len(b) + Len(c) = Len(q) - 1
        BY <3>1, <3>2, <2>2
      <4> QED BY <4>1, <4>2, <3>3
    <3>5. ASSUME NEW i \in 1 .. Len(q) - 1 PROVE r[i] = IF i < k THEN q[i] ELSE q[i + 1]
      <4>1. CASE i < k
        BY <3>1, <3>2, <3>3, <2>2, <4>1
      <4>2. CASE ~(i < k)
        <5>1. r[i] = c[i - (k - 1)] /\ i - (k - 1) \in 1 .. Len(q) - k
          BY <3>1, <3>2, <3>3, <2>2, <4>2
        <5>2. k + (i - (k - 1)) = i + 1
          BY <2>2
        <5> QED BY <5>1, <5>2, <3>2, <4>2
      <4> QED BY <4>1, <4>2
    <3> QED BY <3>4, <3>5
  <2> HIDE DEF r
  <2>4. DOMAIN r = 1 .. Len(q) - 1
    BY <2>3, <2>2
  <2>5. \A i \in DOMAIN q : i # k => q[i] # o
    BY <2>2 DEF Once
  <2>6. ASSUME NEW i \in DOMAIN r
        PROVE  LET j == IF i < k THEN i ELSE i + 1 IN j \in DOMAIN q /\ j # k /\ r[i] = q[j]
    BY <2>2, <2>3, <2>4
  <2>7. ASSUME NEW j \in DOMAIN q, j # k
        PROVE  LET i == IF j < k THEN j ELSE j - 1 IN i \in DOMAIN r /\ r[i] = q[j]
    BY <2>2, <2>3, <2>4, <2>7
  <2>8. ASSUME NEW p \in S PROVE InList(r, p) <=> p # o /\ InList(q, p)
    <3>1. InList(r, p) => p # o /\ InList(q, p)
      BY <2>5, <2>6 DEF InList
    <3>2. p # o /\ InList(q, p) => InList(r, p)
      BY <2>2, <2>7 DEF InList
    <3> QED BY <3>1, <3>2
  <2>9. ASSUME NEW i \in DOMAIN r, NEW j \in DOMAIN r, r[i] = r[j] PROVE i = j
    <3>1. (IF i < k THEN i ELSE i + 1) = (IF j < k THEN j ELSE j + 1)
      BY <2>6, <2>9 DEF Once
    <3> QED BY <3>1, <2>2, <2>4
  <2> QED BY <2>1, <2>3, <2>8, <2>9 DEF Once
<1> QED BY <1>1, <1>2

\* A list with an item inserted.
LEMMA LinkFacts ==
  ASSUME NEW S, NEW q \in Seq(S), NEW o \in S, NEW k \in 1 .. Len(q) + 1
  PROVE  /\ Link(q, k, o) \in Seq(S) /\ Len(Link(q, k, o)) = Len(q) + 1
         /\ \A i \in 1 .. Len(q) + 1 :
              Link(q, k, o)[i] = IF i < k THEN q[i] ELSE IF i = k THEN o ELSE q[i - 1]
         /\ \A p \in S : InList(Link(q, k, o), p) <=> p = o \/ InList(q, p)
         /\ Once(q) /\ ~InList(q, o) => Once(Link(q, k, o))
<1> DEFINE r == Link(q, k, o)
           b == SubSeq(q, 1, k - 1)
           c == SubSeq(q, k, Len(q))
<1>0. k \in Int /\ Len(q) \in Nat /\ 1 <= k /\ k <= Len(q) + 1 /\ DOMAIN q = 1 .. Len(q)
  OBVIOUS
<1>1. b \in Seq(S) /\ Len(b) = k - 1 /\ \A i \in 1 .. k - 1 : b[i] = q[i]
  BY <1>0
<1>2. c \in Seq(S) /\ Len(c) = Len(q) - k + 1 /\ \A i \in 1 .. Len(q) - k + 1 : c[i] = q[k + i - 1]
  <2>1. \A i \in k .. Len(q) : q[i] \in S
    BY <1>0
  <2>2. /\ c \in Seq(S) /\ Len(c) = IF k <= Len(q) THEN Len(q) - k + 1 ELSE 0
        /\ \A i \in 1 .. Len(q) - k + 1 : c[i] = q[k + i - 1]
    BY <2>1, <1>0, SubSeqProperties
  <2> HIDE DEF c
  <2>3. Len(c) = Len(q) - k + 1
    BY <1>0, <2>2
  <2> QED BY <2>2, <2>3
<1>3. r = b \o <<o>> \o c
  BY DEF Link
<1> HIDE DEF b, c
<1>4. /\ b \o <<o>> \in Seq(S) /\ Len(b \o <<o>>) = k /\ (b \o <<o>>)[k] = o
      /\ \A i \in 1 .. k - 1 : (b \o <<o>>)[i] = q[i]
  BY <1>0, <1>1
<1> DEFINE d == b \o <<o>>
<1> HIDE DEF d
<1>5. d \in Seq(S) /\ Len(d) = k /\ d[k] = o /\ \A i \in 1 .. k - 1 : d[i] = q[i]
  BY <1>4 DEF d
<1>6. r = d \o c
  BY <1>3 DEF d
<1> HIDE DEF r
<1>7. r \in Seq(S) /\ Len(r) = Len(q) + 1
  <2>1. r \in Seq(S) /\ Len(r) = Len(d) + Len(c)
    BY <1>2, <1>5, <1>6, ConcatProperties
  <2> QED BY <2>1, <1>2, <1>5, <1>0
<1>8. ASSUME NEW i \in 1 .. Len(q) + 1 PROVE r[i] = IF i < k THEN q[i] ELSE IF i = k THEN o ELSE q[i - 1]
  <2>1. CASE i < k
    <3>1. i \in 1 .. Len(d) + Len(c) /\ i <= Len(d)
      BY <2>1, <1>0, <1>2, <1>5
    <3>2. r[i] = d[i]
      BY <3>1, <1>2, <1>5, <1>6, ConcatProperties
    <3> QED BY <3>2, <2>1, <1>0, <1>5
  <2>2. CASE i = k
    BY <2>2, <1>0, <1>2, <1>5, <1>6
  <2>3. CASE i > k
    <3>1. r[i] = c[i - k] /\ i - k \in 1 .. Len(q) - k + 1
      BY <2>3, <1>0, <1>2, <1>5, <1>6
    <3>2. k + (i - k) - 1 = i - 1
      BY <1>0
    <3> QED BY <3>1, <3>2, <1>2, <2>3, <1>0
  <2> QED BY <2>1, <2>2, <2>3, <1>0
<1>9. DOMAIN r = 1 .. Len(q) + 1
  BY <1>7, <1>0
<1>10. ASSUME NEW i \in DOMAIN r, i # k
       PROVE  LET j == IF i < k THEN i ELSE i - 1 IN j \in DOMAIN q /\ r[i] = q[j]
  BY <1>8, <1>9, <1>10, <1>0
<1>11. ASSUME NEW j \in DOMAIN q
       PROVE  LET i == IF j < k THEN j ELSE j + 1 IN i \in DOMAIN r /\ r[i] = q[j] /\ i # k
  BY <1>8, <1>9, <1>0
<1>12. k \in DOMAIN r /\ r[k] = o
  BY <1>8, <1>9, <1>0
<1>13. ASSUME NEW p \in S PROVE InList(r, p) <=> p = o \/ InList(q, p)
  BY <1>10, <1>11, <1>12 DEF InList
<1>14. ASSUME Once(q), ~InList(q, o), NEW i \in DOMAIN r, NEW j \in DOMAIN r, r[i] = r[j] PROVE i = j
  <2>1. CASE i # k /\ j # k
    <3>1. (IF i < k THEN i ELSE i - 1) = (IF j < k THEN j ELSE j - 1)
      BY <1>10, <1>14, <2>1 DEF Once
    <3> QED BY <3>1, <2>1, <1>9, <1>0
  <2> QED BY <2>1, <1>10, <1>12, <1>14 DEF InList
<1> QED BY <1>7, <1>8, <1>13, <1>14 DEF r, Once

\* A list that has another one behind it.
LEMMA ConcatFacts ==
  ASSUME NEW S, NEW q \in Seq(S), NEW r \in Seq(S)
  PROVE  /\ q \o r \in Seq(S)
         /\ \A p \in S : InList(q \o r, p) <=> InList(q, p) \/ InList(r, p)
         /\ Once(q) /\ Once(r) /\ (\A p \in S : ~(InList(q, p) /\ InList(r, p))) => Once(q \o r)
<1> DEFINE c == q \o r
<1>1. /\ c \in Seq(S) /\ Len(c) = Len(q) + Len(r) /\ Len(q) \in Nat /\ Len(r) \in Nat
      /\ \A i \in 1 .. Len(q) + Len(r) : c[i] = IF i <= Len(q) THEN q[i] ELSE r[i - Len(q)]
  BY ConcatProperties
<1>2. DOMAIN q = 1 .. Len(q) /\ DOMAIN r = 1 .. Len(r) /\ DOMAIN c = 1 .. Len(q) + Len(r)
  BY <1>1
<1> HIDE DEF c
<1>3. ASSUME NEW i \in DOMAIN q PROVE i \in DOMAIN c /\ c[i] = q[i]
  BY <1>1, <1>2
<1>4. ASSUME NEW i \in DOMAIN r PROVE i + Len(q) \in DOMAIN c /\ c[i + Len(q)] = r[i]
  <2>1. i + Len(q) \in DOMAIN c /\ ~(i + Len(q) <= Len(q)) /\ i + Len(q) - Len(q) = i
    BY <1>1, <1>2
  <2> QED BY <2>1, <1>1, <1>2
<1>5. ASSUME NEW i \in DOMAIN c
      PROVE  \/ i <= Len(q) /\ i \in DOMAIN q /\ c[i] = q[i]
             \/ i > Len(q) /\ i - Len(q) \in DOMAIN r /\ c[i] = r[i - Len(q)]
  BY <1>1, <1>2
<1>6. \A p \in S : InList(c, p) <=> InList(q, p) \/ InList(r, p)
  BY <1>3, <1>4, <1>5 DEF InList
<1>7. ASSUME Once(q), Once(r), \A p \in S : ~(InList(q, p) /\ InList(r, p)),
             NEW i \in DOMAIN c, NEW j \in DOMAIN c, c[i] = c[j]
      PROVE  i = j
  <2>1. CASE i <= Len(q) /\ j <= Len(q)
    BY <2>1, <1>1, <1>2, <1>5, <1>7 DEF Once
  <2>2. CASE i > Len(q) /\ j > Len(q)
    <3>1. i - Len(q) = j - Len(q)
      BY <2>2, <1>1, <1>2, <1>5, <1>7 DEF Once
    <3> QED BY <3>1, <1>1, <1>2
  <2>3. c[i] \in S /\ c[j] \in S
    BY <1>1, <1>2
  <2>6. ASSUME NEW x \in DOMAIN c, NEW y \in DOMAIN c, c[x] = c[y], x <= Len(q), y > Len(q), c[x] \in S
        PROVE  FALSE
    <3>1. InList(q, c[x])
      BY <2>6, <1>5, <1>1, <1>2 DEF InList
    <3>2. InList(r, c[x])
      BY <2>6, <1>5, <1>1, <1>2 DEF InList
    <3> QED BY <3>1, <3>2, <2>6, <1>7
  <2>4. CASE i <= Len(q) /\ j > Len(q)
    BY <2>3, <2>4, <2>6, <1>7
  <2>5. CASE i > Len(q) /\ j <= Len(q)
    BY <2>3, <2>5, <2>6, <1>7
  <2> QED BY <2>1, <2>2, <2>4, <2>5, <1>1, <1>2
<1> QED BY <1>1, <1>6, <1>7 DEF c, Once

\* An item is in a list as often as Times counts.
LEMMA AtMostOne ==
  ASSUME NEW S, \A x, y \in S : x = y
  PROVE  Cardinality(S) = IF S = {} THEN 0 ELSE 1
<1>1. CASE S = {}
  BY <1>1, FS_EmptySet
<1>2. CASE S # {}
  <2>1. PICK x : S = {x}
    BY <1>2
  <2> QED BY <2>1, FS_Singleton
<1> QED BY <1>1, <1>2

\* How often a list holds an item that it holds at most once.
LEMMA TimesOnce ==
  ASSUME NEW S, NEW q \in Seq(S), NEW o, Once(q)
  PROVE  Cardinality({i \in DOMAIN q : q[i] = o}) = IF InList(q, o) THEN 1 ELSE 0
<1>1. \A i, j \in {k \in DOMAIN q : q[k] = o} : i = j
  BY DEF Once
<1>2. {k \in DOMAIN q : q[k] = o} = {} <=> ~InList(q, o)
  BY DEF InList
<1> QED BY <1>1, <1>2, AtMostOne

-----------------------------------------------------------------------------
\* What the contexts share.
Results == {<<>>, <<"value">>, <<"error">>, <<"done">>}
Callers == Ops \cup Workers \cup IoOps \cup {Nobody, Outside}
Points ==
  {"no", "returned", "enqueue", "try_push", "push", "pushing", "construct", "start", "count", "launch",
   "check", "submit", "submitted", "cancel", "requeue", "destruct", "exchange", "signal", "flag",
   "deregister"}
Operation ==
  [kind : {"schedule", "timed", "read"}, life : {"idle", "started", "completed"}, signals : Results,
   stopped : BOOLEAN, cb : {"none", "set", "running", "ran"}, by : Callers,
   start : Points, stop : Points, due : Int]

\* An operation got its signal if and only if it completed, and done only
\* if it was asked to stop.
Signalled(r) ==
  /\ r.life = "completed" <=> r.signals # <<>>
  /\ r.signals = <<"done">> => r.stopped
Plain(r) == r.kind = "schedule" /\ r.cb = "none" /\ Signalled(r)

Tasks == {<<>>} \cup {<<o>> : o \in Ops}
TaskOfOne(task) == \A v, w \in Workers : task[v] # <<>> /\ task[v] = task[w] => v = w
InTask(task, o) == \E w \in Workers : task[w] = <<o>>

\* The steps of one operation.
LEMMA BegunFacts ==
  ASSUME NEW r \in Operation, NEW by \in Callers, NEW pc \in Points
  PROVE  LET t == Begun(r, by, pc) IN
         /\ t \in Operation
         /\ t.life = "started" /\ t.by = by /\ t.start = pc
         /\ t.kind = r.kind /\ t.signals = r.signals /\ t.stopped = r.stopped /\ t.cb = r.cb
         /\ t.stop = r.stop /\ t.due = r.due
BY DEF Begun, Operation

\* start() returned.
LEMMA ReturnedFacts ==
  ASSUME NEW r \in Operation
  PROVE  LET t == Returned(r) IN
         /\ t \in Operation
         /\ t.by = Nobody /\ t.start = "returned"
         /\ t.life = r.life /\ t.kind = r.kind /\ t.signals = r.signals /\ t.stopped = r.stopped
         /\ t.cb = r.cb /\ t.stop = r.stop /\ t.due = r.due
<1>1. Nobody \in Callers
  BY DEF Callers
<1>2. "returned" \in Points
  BY DEF Points
<1> QED BY <1>1, <1>2 DEF Returned, Operation

\* The operation is completed.
LEMMA CompletedFacts ==
  ASSUME NEW r \in Operation, r.signals = <<>>, NEW signal \in {"value", "error", "done"}
  PROVE  LET t == Completed(r, signal) IN
         /\ t \in Operation
         /\ t.life = "completed" /\ t.signals = <<signal>>
         /\ t.by = r.by /\ t.start = r.start /\ t.kind = r.kind /\ t.stopped = r.stopped
         /\ t.cb = r.cb /\ t.stop = r.stop /\ t.due = r.due
<1>1. Append(r.signals, signal) = <<signal>>
  OBVIOUS
<1>2. <<signal>> \in Results
  BY DEF Results
<1> QED BY <1>1, <1>2 DEF Completed, Operation

\* A scheduled operation is completed: done if a stop was requested.
LEMMA CompletedScheduledFacts ==
  ASSUME NEW r \in Operation, r.signals = <<>>
  PROVE  LET t == CompletedScheduled(r) IN
         /\ t \in Operation
         /\ t.life = "completed" /\ t.signals = <<IF r.stopped THEN "done" ELSE "value">>
         /\ t.by = r.by /\ t.start = r.start /\ t.kind = r.kind /\ t.stopped = r.stopped
         /\ t.cb = r.cb /\ t.stop = r.stop /\ t.due = r.due
<1>1. CASE r.stopped
  BY <1>1, CompletedFacts DEF CompletedScheduled
<1>2. CASE ~r.stopped
  BY <1>2, CompletedFacts DEF CompletedScheduled
<1> QED BY <1>1, <1>2

\* A stop is requested.
LEMMA StoppedFacts ==
  ASSUME NEW r \in Operation
  PROVE  LET t == [r EXCEPT !.stopped = TRUE] IN
         /\ t \in Operation /\ t.stopped
         /\ t.life = r.life /\ t.signals = r.signals /\ t.by = r.by /\ t.start = r.start
         /\ t.kind = r.kind /\ t.cb = r.cb /\ t.stop = r.stop /\ t.due = r.due
BY DEF Operation

\* An operation before start().
LEMMA NewFacts ==
  ASSUME NEW kind \in {"schedule", "timed", "read"}
  PROVE  LET r == NewOp(kind) IN
         /\ r \in Operation
         /\ r.kind = kind /\ r.life = "idle" /\ r.signals = <<>> /\ r.stopped = FALSE /\ r.cb = "none"
         /\ r.by = Nobody /\ r.start = "no" /\ r.stop = "no" /\ r.due = 0
         /\ Signalled(r) /\ (kind = "schedule" => Plain(r))
<1> DEFINE r == NewOp(kind)
<1>1. /\ r.kind = kind /\ r.life = "idle" /\ r.signals = <<>> /\ r.stopped = FALSE /\ r.cb = "none"
      /\ r.by = Nobody /\ r.start = "no" /\ r.stop = "no" /\ r.due = 0
  BY DEF NewOp
<1>2. Nobody \in Callers /\ "no" \in Points /\ <<>> \in Results
  BY DEF Callers, Points, Results
<1>3. r \in Operation
  BY <1>2 DEF NewOp, Operation
<1> HIDE DEF r
<1>5. Signalled(r)
  BY <1>1 DEF Signalled
<1>6. kind = "schedule" => Plain(r)
  BY <1>1, <1>5 DEF Plain
<1> QED BY <1>1, <1>3, <1>5, <1>6 DEF r

\* One operation changes.
LEMMA OneChanges ==
  ASSUME NEW X, NEW f \in [X -> Operation], NEW o \in X, NEW r \in Operation
  PROVE  LET g == [f EXCEPT ![o] = r] IN
         g \in [X -> Operation] /\ g[o] = r /\ \A p \in X : p # o => g[p] = f[p]
OBVIOUS

\* The steps of an operation that takes no time and has no stop callback.
LEMMA PlainBegun ==
  ASSUME NEW r \in Operation, Plain(r), r.life = "idle", NEW by \in Callers, NEW pc \in Points
  PROVE  LET t == Begun(r, by, pc) IN
         t \in Operation /\ Plain(t) /\ t.life = "started" /\ t.by = by /\ t.start = pc
BY BegunFacts DEF Plain, Signalled

\* An operation without a stop callback stays plain when start() returns,
LEMMA PlainReturned ==
  ASSUME NEW r \in Operation, Plain(r)
  PROVE  LET t == Returned(r) IN
         t \in Operation /\ Plain(t) /\ t.life = r.life /\ t.by = Nobody /\ t.start = "returned"
BY ReturnedFacts DEF Plain, Signalled

\* when it is completed,
LEMMA PlainCompleted ==
  ASSUME NEW r \in Operation, Plain(r), r.life # "completed"
  PROVE  /\ LET t == CompletedScheduled(r) IN
            t \in Operation /\ Plain(t) /\ t.life = "completed" /\ t.by = r.by /\ t.start = r.start
         /\ LET t == Completed(r, "error") IN
            t \in Operation /\ Plain(t) /\ t.life = "completed" /\ t.by = r.by /\ t.start = r.start
<1>1. r.signals = <<>>
  BY DEF Plain, Signalled
<1>2. LET t == CompletedScheduled(r) IN
      t \in Operation /\ Plain(t) /\ t.life = "completed" /\ t.by = r.by /\ t.start = r.start
  BY <1>1, CompletedScheduledFacts DEF Plain, Signalled
<1>3. LET t == Completed(r, "error") IN
      t \in Operation /\ Plain(t) /\ t.life = "completed" /\ t.by = r.by /\ t.start = r.start
  BY <1>1, CompletedFacts DEF Plain, Signalled
<1> QED BY <1>2, <1>3

\* when its stop is requested,
LEMMA PlainStopped ==
  ASSUME NEW r \in Operation, Plain(r)
  PROVE  LET t == [r EXCEPT !.stopped = TRUE] IN
         t \in Operation /\ Plain(t) /\ t.life = r.life /\ t.by = r.by /\ t.start = r.start
BY StoppedFacts DEF Plain, Signalled

\* and when start() goes on.
LEMMA PlainMoves ==
  ASSUME NEW r \in Operation, Plain(r), NEW pc \in Points
  PROVE  LET t == [r EXCEPT !.start = pc] IN
         t \in Operation /\ Plain(t) /\ t.life = r.life /\ t.by = r.by /\ t.start = pc
BY DEF Plain, Signalled, Operation

\* One of the operations is asked to stop.
LEMMA PlainStops ==
  ASSUME NEW f \in [Ops -> Operation], \A p \in Ops : Plain(f[p]), NEW o \in Ops
  PROVE  LET g == [f EXCEPT ![o].stopped = TRUE] IN
         /\ g \in [Ops -> Operation]
         /\ \A p \in Ops : /\ Plain(g[p]) /\ g[p].life = f[p].life
                           /\ g[p].start = f[p].start /\ g[p].by = f[p].by
<1> DEFINE r == [f[o] EXCEPT !.stopped = TRUE]
           g == [f EXCEPT ![o] = r]
<1>1. r \in Operation /\ Plain(r) /\ r.life = f[o].life /\ r.by = f[o].by /\ r.start = f[o].start
  BY PlainStopped
<1> HIDE DEF r
<1>2. g \in [Ops -> Operation] /\ g[o] = r /\ \A p \in Ops : p # o => g[p] = f[p]
  BY <1>1, OneChanges
<1> HIDE DEF g
<1>3. \A p \in Ops : Plain(g[p]) /\ g[p].life = f[p].life /\ g[p].start = f[p].start /\ g[p].by = f[p].by
  BY <1>1, <1>2
<1>4. g = [f EXCEPT ![o].stopped = TRUE]
  BY DEF g, r
<1> QED BY <1>2, <1>3, <1>4

\* A thread takes a task, and is done with it.
LEMMA TaskTaken ==
  ASSUME NEW task \in [Workers -> Tasks], TaskOfOne(task), NEW w \in Workers, task[w] = <<>>,
         NEW o \in Ops, ~InTask(task, o)
  PROVE  LET t == [task EXCEPT ![w] = <<o>>] IN
         /\ t \in [Workers -> Tasks] /\ TaskOfOne(t) /\ t[w] = <<o>> /\ \A v \in Workers : v # w => t[v] = task[v]
         /\ \A p \in Ops : InTask(t, p) <=> p = o \/ InTask(task, p)
BY DEF Tasks, TaskOfOne, InTask

\* A thread is through with its item.
LEMMA TaskDone ==
  ASSUME NEW task \in [Workers -> Tasks], TaskOfOne(task), NEW w \in Workers, NEW o \in Ops, task[w] = <<o>>
  PROVE  LET t == [task EXCEPT ![w] = <<>>] IN
         /\ t \in [Workers -> Tasks] /\ TaskOfOne(t) /\ t[w] = <<>> /\ \A v \in Workers : v # w => t[v] = task[v]
         /\ \A p \in Ops : InTask(t, p) <=> p # o /\ InTask(task, p)
BY DEF Tasks, TaskOfOne, InTask

\* The stop callback of an operation.
LEMMA ConstructedFacts ==
  ASSUME NEW r \in Operation
  PROVE  LET t == Constructed(r) IN
         /\ t \in Operation
         /\ t.cb = IF r.stopped THEN "ran" ELSE "set"
         /\ t.life = r.life /\ t.signals = r.signals /\ t.stopped = r.stopped /\ t.by = r.by /\ t.start = r.start
         /\ t.kind = r.kind /\ t.stop = r.stop /\ t.due = r.due
BY DEF Constructed, Operation

\* The stop callback is destroyed.
LEMMA DestructedFacts ==
  ASSUME NEW r \in Operation
  PROVE  LET t == Destructed(r) IN
         /\ t \in Operation
         /\ t.cb = "none"
         /\ t.life = r.life /\ t.signals = r.signals /\ t.stopped = r.stopped /\ t.by = r.by /\ t.start = r.start
         /\ t.kind = r.kind /\ t.stop = r.stop /\ t.due = r.due
BY DEF Destructed, Operation

\* The stop callback begins.
LEMMA StopBegunFacts ==
  ASSUME NEW r \in Operation, NEW pc \in Points
  PROVE  LET t == StopBegun(r, pc) IN
         /\ t \in Operation
         /\ t.stopped
         /\ r.cb = "set" => t.cb = "running" /\ t.stop = pc
         /\ r.cb # "set" => t.cb = r.cb /\ t.stop = r.stop
         /\ t.life = r.life /\ t.signals = r.signals /\ t.by = r.by /\ t.start = r.start
         /\ t.kind = r.kind /\ t.due = r.due
<1>1. CASE r.cb = "set"
  BY <1>1 DEF StopBegun, Operation
<1>2. CASE r.cb # "set"
  BY <1>2 DEF StopBegun, Operation
<1> QED BY <1>1, <1>2

\* The stop callback returns.
LEMMA CallbackReturnedFacts ==
  ASSUME NEW r \in Operation
  PROVE  LET t == CallbackReturned(r) IN
         /\ t \in Operation
         /\ t.cb = "ran" /\ t.stop = "no"
         /\ t.life = r.life /\ t.signals = r.signals /\ t.stopped = r.stopped /\ t.by = r.by /\ t.start = r.start
         /\ t.kind = r.kind /\ t.due = r.due
<1>1. "no" \in Points
  BY DEF Points
<1> QED BY <1>1 DEF CallbackReturned, Operation

\* The callback goes on.
LEMMA MovedFacts ==
  ASSUME NEW r \in Operation, NEW pc \in Points
  PROVE  /\ LET t == [r EXCEPT !.start = pc] IN
            /\ t \in Operation /\ t.start = pc
            /\ t.life = r.life /\ t.signals = r.signals /\ t.stopped = r.stopped /\ t.by = r.by
            /\ t.cb = r.cb /\ t.kind = r.kind /\ t.stop = r.stop /\ t.due = r.due
         /\ LET t == [r EXCEPT !.stop = pc] IN
            /\ t \in Operation /\ t.stop = pc
            /\ t.life = r.life /\ t.signals = r.signals /\ t.stopped = r.stopped /\ t.by = r.by
            /\ t.cb = r.cb /\ t.kind = r.kind /\ t.start = r.start /\ t.due = r.due
BY DEF Operation

\* When a timer is due.
LEMMA DueFacts ==
  ASSUME NEW r \in Operation, NEW due \in Int
  PROVE  LET t == [r EXCEPT !.due = due] IN
         /\ t \in Operation /\ t.due = due
         /\ t.life = r.life /\ t.signals = r.signals /\ t.stopped = r.stopped /\ t.by = r.by /\ t.start = r.start
         /\ t.cb = r.cb /\ t.kind = r.kind /\ t.stop = r.stop
BY DEF Operation

\* Where a list in order of due time takes an item.
LEMMA LeastExists ==
  ASSUME NEW S, S \subseteq Nat, S # {}
  PROVE  \E x \in S : \A y \in S : x <= y
<1>1. IsWellFoundedOn(OpToRel(<, Nat), Nat)
  BY Zenon, NatLessThanWellFounded
<1>2. PICK x \in S : \A y \in S : ~(<<y, x>> \in OpToRel(<, Nat))
  BY Zenon, <1>1, WFMin
<1>3. \A y \in S : <<y, x>> \in OpToRel(<, Nat) <=> y < x
  BY DEF OpToRel
<1>4. \A y \in S : ~(y < x)
  BY Zenon, <1>2, <1>3
<1>5. x \in Nat /\ \A y \in S : y \in Nat
  OBVIOUS
<1>6. \A y \in S : x <= y
  <2> TAKE y \in S
  <2>1. ~(y < x) /\ y \in Nat
    BY <1>4, <1>5
  <2> QED BY <1>5, <2>1
<1> QED BY <1>6

\* The place of a timer is the first one with a later due time, or the end.
LEMMA FirstLaterPlace ==
  ASSUME NEW ops, NEW S, NEW q \in Seq(S), NEW due
  PROVE  FirstLater(ops, q, due) \in 1 .. Len(q) + 1
<1> DEFINE later == {i \in DOMAIN q : ops[q[i]].due > due}
<1>0. Len(q) \in Nat /\ DOMAIN q = 1 .. Len(q) /\ Len(q) + 1 \in 1 .. Len(q) + 1
  OBVIOUS
<1>1. CASE later = {}
  BY <1>0, <1>1 DEF FirstLater
<1>2. CASE later # {}
  <2>1. later \subseteq Nat /\ later \subseteq 1 .. Len(q)
    BY <1>0
  <2> DEFINE least == CHOOSE i \in later : \A j \in later : i <= j
  <2>2. FirstLater(ops, q, due) = least
    BY <1>2 DEF FirstLater
  <2> HIDE DEF later
  <2>3. least \in later
    BY <1>2, <2>1, LeastExists
  <2> HIDE DEF least
  <2>4. least \in 1 .. Len(q)
    BY <2>1, <2>3
  <2> QED BY <1>0, <2>2, <2>4
<1> QED BY <1>1, <1>2

\* A timer is linked at its place.
LEMMA InsertFacts ==
  ASSUME NEW ops, NEW S, NEW q \in Seq(S), NEW o \in S
  PROVE  LET t == InsertByDueTime(ops, q, o) IN
         /\ t \in Seq(S) /\ t # <<>>
         /\ \A p \in S : InList(t, p) <=> p = o \/ InList(q, p)
         /\ Once(q) /\ ~InList(q, o) => Once(t)
<1> DEFINE k == FirstLater(ops, q, ops[o].due)
           t == Link(q, k, o)
<1>1. k \in 1 .. Len(q) + 1
  BY FirstLaterPlace
<1>2. t = InsertByDueTime(ops, q, o)
  BY DEF InsertByDueTime
<1> HIDE DEF k
<1>3. /\ t \in Seq(S) /\ Len(t) = Len(q) + 1
      /\ \A p \in S : InList(t, p) <=> p = o \/ InList(q, p)
      /\ Once(q) /\ ~InList(q, o) => Once(t)
  BY <1>1, LinkFacts
<1> HIDE DEF t
<1>4. t # <<>>
  <2>1. Len(q) + 1 # 0
    OBVIOUS
  <2> QED BY <1>3, <2>1
<1> QED BY <1>2, <1>3, <1>4
-----------------------------------------------------------------------------
\* manual_event_loop.  A started operation is in the queue or with the
\* thread that runs it.
LoopPc == [Workers -> {"run", "waiting", "task", "user", "returned"}]
LoopCtx == [head_ : Seq(Ops), stop_ : BOOLEAN, destroyed : BOOLEAN, pc : LoopPc, task : [Workers -> Tasks]]
LoopHolds(c, o, started) ==
  /\ started <=> InList(c.head_, o) \/ InTask(c.task, o)
  /\ ~(InList(c.head_, o) /\ InTask(c.task, o))
LoopInv ==
  /\ op \in [Ops -> Operation] /\ ctx \in LoopCtx
  /\ Once(ctx.head_) /\ TaskOfOne(ctx.task)
  /\ \A w \in Workers : ctx.pc[w] = "task" <=> ctx.task[w] # <<>>
  /\ \A o \in Ops : Plain(op[o]) /\ LoopHolds(ctx, o, op[o].life = "started")

\* A step that changes nothing the invariant is about.
LEMMA LoopSame ==
  /\ \A r, by, pc : EventLoop!Begun(r, by, pc) = Begun(r, by, pc)
  /\ \A r : EventLoop!Returned(r) = Returned(r)
  /\ \A r : EventLoop!CompletedScheduled(r) = CompletedScheduled(r)
BY DEF EventLoop!Begun, Begun, EventLoop!Returned, Returned, EventLoop!Nobody, Nobody,
       EventLoop!CompletedScheduled, CompletedScheduled, EventLoop!Completed, Completed

\* start().
LEMMA LoopStart ==
  ASSUME LoopInv, NEW o \in Ops, EventLoop!start(o)
  PROVE  LoopInv'
<1>0. op \in [Ops -> Operation] /\ op[o] \in Operation /\ ctx \in LoopCtx
  BY DEF LoopInv
<1> DEFINE r == Returned(Begun(op[o], Outside, "enqueue"))
<1>1. /\ op[o].life = "idle" /\ op' = [op EXCEPT ![o] = r]
  BY LoopSame DEF EventLoop!start, EventLoop!Outside, Outside
<1>2. r \in Operation /\ Plain(r) /\ r.life = "started"
  <2>1. Outside \in Callers /\ "enqueue" \in Points
    BY DEF Callers, Points
  <2>2. Plain(op[o])
    BY DEF LoopInv
  <2> QED BY <1>0, <1>1, <2>1, <2>2, PlainBegun, PlainReturned
<1> HIDE DEF r
<1>3. /\ op' \in [Ops -> Operation] /\ op'[o] = r
      /\ \A p \in Ops : p # o => op'[p] = op[p]
  BY <1>0, <1>1, <1>2, OneChanges
<1>4. PICK pc \in LoopPc : /\ ctx' = [ctx EXCEPT !.head_ = Append(ctx.head_, o), !.pc = pc]
                           /\ \A w \in Workers : pc[w] = "task" <=> ctx.pc[w] = "task"
  <2>1. ctx' \in EventLoop!enqueue(o)
    BY DEF EventLoop!start
  <2> DEFINE pushed == [ctx EXCEPT !.head_ = Append(ctx.head_, o)]
  <2>2. CASE ctx' = pushed
    <3>1. ctx.pc \in LoopPc /\ ctx' = [ctx EXCEPT !.head_ = Append(ctx.head_, o), !.pc = ctx.pc]
      BY <1>0, <2>2 DEF LoopCtx
    <3> QED BY Zenon, <3>1
  <2>3. CASE \E w \in EventLoop!Waiting : ctx' = [pushed EXCEPT !.pc[w] = "run"]
    <3>1. PICK w \in EventLoop!Waiting : ctx' = [pushed EXCEPT !.pc[w] = "run"]
      BY Zenon, <2>3
    <3> DEFINE pc == [ctx.pc EXCEPT ![w] = "run"]
    <3>2. pc \in LoopPc /\ \A v \in Workers : pc[v] = "task" <=> ctx.pc[v] = "task"
      BY <1>0 DEF LoopCtx, LoopPc, EventLoop!Waiting
    <3>3. ctx' = [ctx EXCEPT !.head_ = Append(ctx.head_, o), !.pc = pc]
      BY <1>0, <3>1 DEF LoopCtx
    <3> QED BY Zenon, <3>2, <3>3
  <2> QED BY Zenon, <2>1, <2>2, <2>3 DEF EventLoop!enqueue, EventLoop!NotifyOne
<1>5. ~InList(ctx.head_, o) /\ ~InTask(ctx.task, o)
  BY <1>1 DEF LoopInv, LoopHolds
<1>9. ctx.head_ \in Seq(Ops) /\ Append(ctx.head_, o) \in Seq(Ops)
  BY <1>0, AppendFacts DEF LoopCtx
<1>6. /\ ctx'.head_ = Append(ctx.head_, o) /\ ctx.head_ \in Seq(Ops)
      /\ ctx'.task = ctx.task /\ ctx'.pc = pc
      /\ ctx' \in LoopCtx
  BY <1>0, <1>4, <1>9 DEF LoopCtx
<1>7. /\ ctx'.head_ \in Seq(Ops) /\ Once(ctx'.head_)
      /\ \A p \in Ops : InList(ctx'.head_, p) <=> p = o \/ InList(ctx.head_, p)
  BY <1>5, <1>6, AppendFacts DEF LoopInv
<1>8. \A p \in Ops : Plain(op'[p]) /\ LoopHolds(ctx', p, op'[p].life = "started")
  BY <1>1, <1>2, <1>3, <1>5, <1>6, <1>7 DEF LoopInv, LoopHolds
<1> QED BY <1>3, <1>4, <1>6, <1>7, <1>8 DEF LoopInv

\* run(): the next item, the end, or sleep.
LEMMA LoopRun ==
  ASSUME LoopInv, NEW w \in Workers, EventLoop!run(w)
  PROVE  LoopInv'
<1>0. /\ ctx \in LoopCtx /\ ctx.pc[w] = "run" /\ op' = op
      /\ ctx.head_ \in Seq(Ops) /\ ctx.pc \in LoopPc /\ ctx.task \in [Workers -> Tasks]
  BY DEF LoopInv, LoopCtx, EventLoop!run
<1>1. ctx.task[w] = <<>>
  BY <1>0 DEF LoopInv
<1>2. CASE ctx.head_ = <<>>
  <2>1. PICK to \in {"returned", "waiting"} : ctx' = [ctx EXCEPT !.pc = [ctx.pc EXCEPT ![w] = to]]
    BY <1>0, <1>2 DEF LoopCtx, EventLoop!run
  <2> DEFINE pc == [ctx.pc EXCEPT ![w] = to]
  <2>2. pc \in LoopPc /\ \A v \in Workers : pc[v] = "task" <=> ctx.pc[v] = "task"
    BY <1>0 DEF LoopPc
  <2>3. ctx' = [ctx EXCEPT !.pc = pc]
    BY <2>1
  <2> HIDE DEF pc
  <2>4. ctx' \in LoopCtx /\ ctx'.head_ = ctx.head_ /\ ctx'.task = ctx.task /\ ctx'.pc = pc
    BY <1>0, <2>2, <2>3 DEF LoopCtx
  <2> QED BY <1>0, <2>2, <2>4 DEF LoopInv, LoopHolds
<1>3. CASE ctx.head_ # <<>>
  <2> DEFINE o == Head(ctx.head_)
             task == [ctx.task EXCEPT ![w] = <<o>>]
             pc == [ctx.pc EXCEPT ![w] = "task"]
             rest == Tail(ctx.head_)
  <2>1. /\ o \in Ops /\ rest \in Seq(Ops) /\ InList(ctx.head_, o)
        /\ \A p \in Ops : InList(ctx.head_, p) <=> p = o \/ InList(rest, p)
        /\ Once(rest) /\ ~InList(rest, o)
    BY <1>0, <1>3, TailFacts DEF LoopInv
  <2>2. ~InTask(ctx.task, o)
    BY <2>1 DEF LoopInv, LoopHolds
  <2>3. ctx' = [ctx EXCEPT !.head_ = rest, !.task = task, !.pc = pc]
    BY <1>0, <1>3 DEF LoopCtx, EventLoop!run
  <2> HIDE DEF o, rest
  <2>4. /\ task \in [Workers -> Tasks] /\ TaskOfOne(task) /\ task[w] = <<o>>
        /\ \A v \in Workers : v # w => task[v] = ctx.task[v]
        /\ \A p \in Ops : InTask(task, p) <=> p = o \/ InTask(ctx.task, p)
    BY Zenon, <1>0, <1>1, <2>1, <2>2, TaskTaken DEF LoopInv
  <2>5. pc \in LoopPc /\ pc[w] = "task" /\ \A v \in Workers : v # w => pc[v] = ctx.pc[v]
    BY <1>0 DEF LoopPc
  <2> HIDE DEF task, pc
  <2>6. ctx' \in LoopCtx /\ ctx'.head_ = rest /\ ctx'.task = task /\ ctx'.pc = pc
    BY <1>0, <2>1, <2>3, <2>4, <2>5 DEF LoopCtx
  <2>7. \A v \in Workers : pc[v] = "task" <=> task[v] # <<>>
    BY <2>4, <2>5 DEF LoopInv
  <2>8. \A p \in Ops : LoopHolds(ctx', p, op[p].life = "started")
    BY <2>1, <2>2, <2>4, <2>6 DEF LoopInv, LoopHolds
  <2> QED BY <1>0, <2>1, <2>4, <2>6, <2>7, <2>8 DEF LoopInv
<1> QED BY <1>2, <1>3

\* The operation is completed and leaves.
LEMMA LoopExecute ==
  ASSUME LoopInv, NEW w \in Workers, EventLoop!execute_impl(w)
  PROVE  LoopInv'
<1>0. /\ ctx \in LoopCtx /\ ctx.pc[w] = "task" /\ op \in [Ops -> Operation] /\ \A p \in Ops : Plain(op[p])
      /\ ctx.head_ \in Seq(Ops) /\ ctx.pc \in LoopPc /\ ctx.task \in [Workers -> Tasks]
  BY DEF LoopInv, LoopCtx, EventLoop!execute_impl
<1>1. PICK o \in Ops : ctx.task[w] = <<o>>
  BY <1>0 DEF LoopInv, Tasks
<1>2. op' = [op EXCEPT ![o] = CompletedScheduled(op[o])]
  <2>1. ctx.task[w][1] = o
    BY <1>1
  <2> QED BY <2>1, LoopSame DEF EventLoop!execute_impl
<1>3. InTask(ctx.task, o) /\ op[o].life = "started" /\ ~InList(ctx.head_, o)
  BY <1>1 DEF LoopInv, LoopHolds, InTask
<1>4. /\ op' \in [Ops -> Operation] /\ \A p \in Ops : Plain(op'[p])
      /\ op'[o].life = "completed" /\ \A p \in Ops : p # o => op'[p] = op[p]
  <2> DEFINE r == CompletedScheduled(op[o])
  <2>1. r \in Operation /\ Plain(r) /\ r.life = "completed"
    BY <1>0, <1>3, PlainCompleted
  <2> HIDE DEF r
  <2> QED BY <1>0, <1>2, <2>1, OneChanges DEF r
<1> DEFINE task == [ctx.task EXCEPT ![w] = <<>>]
           pc == [ctx.pc EXCEPT ![w] = "user"]
<1>5. ctx' = [ctx EXCEPT !.task = task, !.pc = pc]
  BY <1>0 DEF LoopCtx, EventLoop!execute_impl
<1>6. /\ task \in [Workers -> Tasks] /\ TaskOfOne(task) /\ task[w] = <<>>
      /\ \A v \in Workers : v # w => task[v] = ctx.task[v]
      /\ \A p \in Ops : InTask(task, p) <=> p # o /\ InTask(ctx.task, p)
  BY <1>0, <1>1, TaskDone DEF LoopInv
<1>7. pc \in LoopPc /\ pc[w] = "user" /\ \A v \in Workers : v # w => pc[v] = ctx.pc[v]
  BY <1>0 DEF LoopPc
<1> HIDE DEF task, pc
<1>8. ctx' \in LoopCtx /\ ctx'.head_ = ctx.head_ /\ ctx'.task = task /\ ctx'.pc = pc
  BY <1>0, <1>5, <1>6, <1>7 DEF LoopCtx
<1>9. \A v \in Workers : pc[v] = "task" <=> task[v] # <<>>
  BY <1>6, <1>7 DEF LoopInv
<1>10. \A p \in Ops : LoopHolds(ctx', p, op'[p].life = "started")
  BY <1>3, <1>4, <1>6, <1>8 DEF LoopInv, LoopHolds
<1> QED BY <1>4, <1>6, <1>8, <1>9, <1>10 DEF LoopInv

\* The steps that leave the queue and the tasks alone.
LEMMA LoopRest ==
  ASSUME LoopInv,
         \/ \E w \in Workers : EventLoop!UserCodeReturns(w)
         \/ EventLoop!stop \/ EventLoop!Join
         \/ \E o \in Ops : EventLoop!RequestStop(o)
  PROVE  LoopInv'
<1>0. /\ ctx \in LoopCtx /\ ctx.pc \in LoopPc
      /\ op \in [Ops -> Operation] /\ \A p \in Ops : Plain(op[p])
  BY DEF LoopInv, LoopCtx
<1>1. ASSUME NEW pc \in LoopPc, \A w \in Workers : pc[w] = "task" <=> ctx.pc[w] = "task",
             NEW b \in BOOLEAN, NEW d \in BOOLEAN, op' = op,
             ctx' = [ctx EXCEPT !.pc = pc, !.stop_ = b, !.destroyed = d]
      PROVE  LoopInv'
  <2>1. ctx' \in LoopCtx /\ ctx'.head_ = ctx.head_ /\ ctx'.task = ctx.task /\ ctx'.pc = pc
    BY <1>0, <1>1 DEF LoopCtx
  <2> QED BY <1>1, <2>1 DEF LoopInv, LoopHolds
<1>2. ASSUME NEW w \in Workers, EventLoop!UserCodeReturns(w)
      PROVE  LoopInv'
  <2> DEFINE pc == [ctx.pc EXCEPT ![w] = "run"]
  <2>1. pc \in LoopPc /\ \A v \in Workers : pc[v] = "task" <=> ctx.pc[v] = "task"
    BY <1>0, <1>2 DEF LoopPc, EventLoop!UserCodeReturns
  <2>2. op' = op /\ ctx' = [ctx EXCEPT !.pc = pc, !.stop_ = ctx.stop_, !.destroyed = ctx.destroyed]
    BY <1>0, <1>2 DEF LoopCtx, EventLoop!UserCodeReturns
  <2>3. ctx.stop_ \in BOOLEAN /\ ctx.destroyed \in BOOLEAN
    BY <1>0 DEF LoopCtx
  <2> HIDE DEF pc
  <2> QED BY Zenon, <1>1, <2>1, <2>2, <2>3
<1>3. CASE EventLoop!stop
  <2> DEFINE pc == [w \in Workers |-> IF ctx.pc[w] = "waiting" THEN "run" ELSE ctx.pc[w]]
  <2>1. pc \in LoopPc /\ \A v \in Workers : pc[v] = "task" <=> ctx.pc[v] = "task"
    BY <1>0 DEF LoopPc
  <2>2. op' = op /\ ctx' = [ctx EXCEPT !.pc = pc, !.stop_ = TRUE, !.destroyed = ctx.destroyed]
    BY <1>0, <1>3 DEF LoopCtx, EventLoop!stop
  <2>3. ctx.destroyed \in BOOLEAN
    BY <1>0 DEF LoopCtx
  <2> HIDE DEF pc
  <2> QED BY Zenon, <1>1, <2>1, <2>2, <2>3
<1>4. CASE EventLoop!Join
  <2>2. op' = op /\ ctx' = [ctx EXCEPT !.pc = ctx.pc, !.stop_ = ctx.stop_, !.destroyed = TRUE]
    BY <1>0, <1>4 DEF LoopCtx, EventLoop!Join
  <2>3. ctx.stop_ \in BOOLEAN
    BY <1>0 DEF LoopCtx
  <2> QED BY Zenon, <1>0, <1>1, <2>2, <2>3
<1>5. ASSUME NEW o \in Ops, EventLoop!RequestStop(o)
      PROVE  LoopInv'
  <2>1. ctx' = ctx /\ op' = [op EXCEPT ![o].stopped = TRUE]
    BY <1>5 DEF EventLoop!RequestStop
  <2>2. op' \in [Ops -> Operation] /\ \A p \in Ops : Plain(op'[p]) /\ op'[p].life = op[p].life
    BY <1>0, <2>1, PlainStops
  <2> QED BY <2>1, <2>2 DEF LoopInv
<1> QED BY <1>2, <1>3, <1>4, <1>5

\* The initial states.
LEMMA LoopStarts == ASSUME EventLoop!Init PROVE LoopInv
<1>1. op \in [Ops -> {NewOp("schedule")}]
  BY DEF EventLoop!Init, EventLoop!NewOp, NewOp, EventLoop!Nobody, Nobody
<1>2. op \in [Ops -> Operation] /\ \A o \in Ops : op[o].life = "idle" /\ Plain(op[o])
  <2>1. NewOp("schedule") \in Operation /\ NewOp("schedule").life = "idle" /\ Plain(NewOp("schedule"))
    BY NewFacts
  <2> QED BY <1>1, <2>1
<1>3. ctx \in LoopCtx /\ ctx.head_ = <<>> /\ \A w \in Workers : ctx.pc[w] = "run" /\ ctx.task[w] = <<>>
  BY DEF EventLoop!Init, LoopCtx, LoopPc, Tasks
<1> QED BY <1>2, <1>3 DEF LoopInv, LoopHolds, Once, InList, TaskOfOne, InTask

\* Every step keeps the invariant.
LEMMA LoopNext == ASSUME LoopInv, EventLoop!Next PROVE LoopInv'
BY LoopStart, LoopRun, LoopExecute, LoopRest DEF EventLoop!Next, EventLoop!System, EventLoop!User
-----------------------------------------------------------------------------
\* trampoline_scheduler.  A started operation waits in the list; those
\* that run are as many as the recursion is deep, at most.
TrampCtx == [current_ : BOOLEAN, recursionDepth_ : Nat, maxRecursionDepth_ : {1, 2}, head_ : Seq(Ops),
             frames : Seq(Ops), destroyed : BOOLEAN]
TrampInv ==
  /\ op \in [Ops -> Operation] /\ ctx \in TrampCtx
  /\ Once(ctx.head_)
  /\ Len(ctx.frames) <= ctx.recursionDepth_ /\ ctx.recursionDepth_ <= ctx.maxRecursionDepth_
  /\ ~ctx.current_ => ctx.frames = <<>>
  /\ \A o \in Ops : Plain(op[o]) /\ (op[o].life = "started" <=> InList(ctx.head_, o))

\* A step that changes nothing the invariant is about.
LEMMA TrampSame ==
  /\ \A r, by, pc : Trampolines!Begun(r, by, pc) = Begun(r, by, pc)
  /\ \A r : Trampolines!Returned(r) = Returned(r)
  /\ \A r : Trampolines!CompletedScheduled(r) = CompletedScheduled(r)
  /\ Trampolines!Outside = Outside
BY DEF Trampolines!Begun, Begun, Trampolines!Returned, Returned, Trampolines!Nobody, Nobody, Trampolines!Outside,
       Outside, Trampolines!CompletedScheduled, CompletedScheduled, Trampolines!Completed, Completed

\* An operation runs, one frame deeper.
LEMMA TrampExecute ==
  ASSUME TrampInv, NEW o \in Ops, NEW r \in Operation, Plain(r), r.life = "started",
         NEW list \in Seq(Ops), Once(list), \A p \in Ops : InList(list, p) <=> p # o /\ InList(ctx.head_, p),
         NEW depth \in Nat, depth <= ctx.maxRecursionDepth_, Len(ctx.frames) + 1 <= depth,
         op' = [op EXCEPT ![o] = CompletedScheduled(r)],
         ctx' = [ctx EXCEPT !.current_ = TRUE, !.head_ = list, !.recursionDepth_ = depth,
                            !.frames = <<o>> \o ctx.frames]
  PROVE  TrampInv'
<1> DEFINE t == CompletedScheduled(r)
           frames == <<o>> \o ctx.frames
<1>0. /\ op \in [Ops -> Operation] /\ ctx \in TrampCtx /\ ctx.frames \in Seq(Ops)
      /\ ctx.maxRecursionDepth_ \in {1, 2}
  BY DEF TrampInv, TrampCtx
<1>1. t \in Operation /\ Plain(t) /\ t.life = "completed"
  BY PlainCompleted
<1>2. op' = [op EXCEPT ![o] = t]
  OBVIOUS
<1>3. frames \in Seq(Ops) /\ Len(frames) = Len(ctx.frames) + 1 /\ Len(ctx.frames) \in Nat
  BY <1>0
<1>4. ctx' = [ctx EXCEPT !.current_ = TRUE, !.head_ = list, !.recursionDepth_ = depth, !.frames = frames]
  OBVIOUS
<1> HIDE DEF t, frames
<1>5. op' \in [Ops -> Operation] /\ op'[o] = t /\ \A p \in Ops : p # o => op'[p] = op[p]
  BY <1>0, <1>1, <1>2, OneChanges
<1>6. /\ ctx' \in TrampCtx /\ ctx'.current_ = TRUE /\ ctx'.head_ = list /\ ctx'.recursionDepth_ = depth
      /\ ctx'.frames = frames /\ ctx'.maxRecursionDepth_ = ctx.maxRecursionDepth_
  BY <1>0, <1>3, <1>4 DEF TrampCtx
<1>7. \A p \in Ops : Plain(op'[p]) /\ (op'[p].life = "started" <=> InList(list, p))
  BY <1>1, <1>5 DEF TrampInv
<1> QED BY <1>3, <1>5, <1>6, <1>7 DEF TrampInv

\* start().
LEMMA TrampStart ==
  ASSUME TrampInv, NEW o \in Ops, Trampolines!start(o)
  PROVE  TrampInv'
<1> DEFINE r == Returned(Begun(op[o], Outside, "start"))
<1>0. /\ op \in [Ops -> Operation] /\ ctx \in TrampCtx /\ ctx.head_ \in Seq(Ops) /\ Once(ctx.head_)
      /\ ctx.maxRecursionDepth_ \in {1, 2} /\ ctx.recursionDepth_ \in Nat /\ ctx.current_ \in BOOLEAN
      /\ Len(ctx.frames) \in Nat /\ Len(ctx.frames) <= ctx.recursionDepth_
  BY DEF TrampInv, TrampCtx
<1>1. op[o].life = "idle" /\ ~InList(ctx.head_, o)
  BY DEF TrampInv, Trampolines!start
<1>2. r \in Operation /\ Plain(r) /\ r.life = "started"
  <2>1. Outside \in Callers /\ "start" \in Points
    BY DEF Callers, Points
  <2> QED BY <1>1, <2>1, PlainBegun, PlainReturned DEF TrampInv
<1>6. \A p \in Ops : InList(ctx.head_, p) <=> p # o /\ InList(ctx.head_, p)
  BY <1>1
<1>3. CASE ~ctx.current_
  <2>1. ctx.frames = <<>> /\ Len(ctx.frames) = 0
    BY <1>3 DEF TrampInv
  <2>2. op' = [op EXCEPT ![o] = CompletedScheduled(r)]
    BY <1>3, TrampSame DEF Trampolines!start, Trampolines!execute
  <2>3. ctx' = [ctx EXCEPT !.current_ = TRUE, !.head_ = ctx.head_, !.recursionDepth_ = 1,
                           !.frames = <<o>> \o ctx.frames]
    BY <1>0, <1>3 DEF TrampCtx, Trampolines!start, Trampolines!execute
  <2> HIDE DEF r
  <2>4. 1 \in Nat /\ 1 <= ctx.maxRecursionDepth_ /\ Len(ctx.frames) + 1 <= 1
    BY <1>0, <2>1
  <2> QED BY Zenon, <1>0, <1>2, <1>6, <2>2, <2>3, <2>4, TrampExecute
<1>4. CASE ctx.current_ /\ ctx.recursionDepth_ < ctx.maxRecursionDepth_
  <2> DEFINE depth == ctx.recursionDepth_ + 1
  <2>2. op' = [op EXCEPT ![o] = CompletedScheduled(r)]
    BY <1>4, TrampSame DEF Trampolines!start, Trampolines!execute
  <2>3. ctx' = [ctx EXCEPT !.current_ = TRUE, !.head_ = ctx.head_, !.recursionDepth_ = depth,
                           !.frames = <<o>> \o ctx.frames]
    BY <1>0, <1>4 DEF TrampCtx, Trampolines!start, Trampolines!execute
  <2>4. depth \in Nat /\ depth <= ctx.maxRecursionDepth_ /\ Len(ctx.frames) + 1 <= depth
    BY <1>0, <1>4
  <2> HIDE DEF r, depth
  <2> QED BY Zenon, <1>0, <1>2, <1>6, <2>2, <2>3, <2>4, TrampExecute
<1>5. CASE ctx.current_ /\ ~(ctx.recursionDepth_ < ctx.maxRecursionDepth_)
  <2> DEFINE list == <<o>> \o ctx.head_
  <2>1. op' = [op EXCEPT ![o] = r] /\ ctx' = [ctx EXCEPT !.head_ = list]
    BY <1>0, <1>5, TrampSame DEF Trampolines!start
  <2>2. list \in Seq(Ops) /\ Once(list) /\ \A p \in Ops : InList(list, p) <=> p = o \/ InList(ctx.head_, p)
    BY <1>0, <1>1, PrependFacts
  <2> HIDE DEF r, list
  <2>3. op' \in [Ops -> Operation] /\ op'[o] = r /\ \A p \in Ops : p # o => op'[p] = op[p]
    BY <1>0, <1>2, <2>1, OneChanges
  <2>4. /\ ctx' \in TrampCtx /\ ctx'.current_ = ctx.current_ /\ ctx'.head_ = list
        /\ ctx'.recursionDepth_ = ctx.recursionDepth_ /\ ctx'.frames = ctx.frames
        /\ ctx'.maxRecursionDepth_ = ctx.maxRecursionDepth_
    BY <1>0, <2>1, <2>2 DEF TrampCtx
  <2>5. \A p \in Ops : Plain(op'[p]) /\ (op'[p].life = "started" <=> InList(list, p))
    BY <1>2, <2>2, <2>3 DEF TrampInv
  <2> QED BY <2>2, <2>3, <2>4, <2>5 DEF TrampInv
<1> QED BY <1>0, <1>3, <1>4, <1>5

\* drain(): the next item of the list.
LEMMA TrampDrain ==
  ASSUME TrampInv, Trampolines!drain
  PROVE  TrampInv'
<1>0. /\ op \in [Ops -> Operation] /\ ctx \in TrampCtx /\ ctx.head_ \in Seq(Ops) /\ Once(ctx.head_)
      /\ ctx.maxRecursionDepth_ \in {1, 2} /\ ctx.current_ = TRUE /\ ctx.frames = <<>> /\ Len(ctx.frames) = 0
  BY DEF TrampInv, TrampCtx, Trampolines!drain
<1>1. CASE ctx.head_ = <<>>
  <2>1. op' = op /\ ctx' = [ctx EXCEPT !.current_ = FALSE, !.recursionDepth_ = 0]
    BY <1>0, <1>1 DEF Trampolines!drain
  <2>2. /\ ctx' \in TrampCtx /\ ctx'.head_ = ctx.head_
        /\ ctx'.recursionDepth_ = 0 /\ ctx'.frames = ctx.frames
        /\ ctx'.maxRecursionDepth_ = ctx.maxRecursionDepth_
    BY <1>0, <2>1 DEF TrampCtx
  <2> QED BY <1>0, <2>1, <2>2 DEF TrampInv
<1>2. CASE ctx.head_ # <<>>
  <2> DEFINE o == Head(ctx.head_)
             list == Tail(ctx.head_)
  <2>1. /\ o \in Ops /\ list \in Seq(Ops) /\ Once(list) /\ InList(ctx.head_, o)
        /\ \A p \in Ops : InList(list, p) <=> p # o /\ InList(ctx.head_, p)
    BY <1>0, <1>2, TailFacts
  <2>2. op' = [op EXCEPT ![o] = CompletedScheduled(op[o])]
    BY <1>2, TrampSame DEF Trampolines!drain, Trampolines!execute
  <2>3. ctx' = [ctx EXCEPT !.current_ = TRUE, !.head_ = list, !.recursionDepth_ = 1,
                           !.frames = <<o>> \o ctx.frames]
    BY <1>0, <1>2 DEF TrampCtx, Trampolines!drain, Trampolines!execute
  <2>5. 1 \in Nat /\ 1 <= ctx.maxRecursionDepth_ /\ Len(ctx.frames) + 1 <= 1
    BY <1>0
  <2>4. op[o] \in Operation /\ Plain(op[o]) /\ op[o].life = "started"
    BY <1>0, <2>1 DEF TrampInv
  <2> HIDE DEF o, list
  <2> QED BY Zenon, <1>0, <2>1, <2>2, <2>3, <2>4, <2>5, TrampExecute
<1> QED BY <1>1, <1>2

\* The other steps.
LEMMA TrampRest ==
  ASSUME TrampInv, Trampolines!UserCodeReturns \/ \E o \in Ops : Trampolines!RequestStop(o)
  PROVE  TrampInv'
<1>0. /\ op \in [Ops -> Operation] /\ ctx \in TrampCtx /\ ctx.frames \in Seq(Ops)
      /\ ctx.recursionDepth_ \in Nat /\ \A p \in Ops : Plain(op[p])
  BY DEF TrampInv, TrampCtx
<1>1. CASE Trampolines!UserCodeReturns
  <2> DEFINE frames == Tail(ctx.frames)
  <2>1. op' = op /\ ctx' = [ctx EXCEPT !.frames = frames] /\ ctx.frames # <<>>
    BY <1>1 DEF Trampolines!UserCodeReturns
  <2>2. frames \in Seq(Ops) /\ Len(frames) = Len(ctx.frames) - 1 /\ Len(ctx.frames) \in Nat
    BY <1>0, <2>1
  <2> HIDE DEF frames
  <2>3. /\ ctx' \in TrampCtx /\ ctx'.head_ = ctx.head_ /\ ctx'.current_ = ctx.current_
        /\ ctx'.recursionDepth_ = ctx.recursionDepth_ /\ ctx'.frames = frames
        /\ ctx'.maxRecursionDepth_ = ctx.maxRecursionDepth_
    BY <1>0, <2>1, <2>2 DEF TrampCtx
  <2>4. ctx.current_
    BY <2>1 DEF TrampInv
  <2>5. Len(frames) <= ctx.recursionDepth_
    BY <1>0, <2>2 DEF TrampInv
  <2> QED BY <2>1, <2>3, <2>4, <2>5 DEF TrampInv
<1>2. ASSUME NEW o \in Ops, Trampolines!RequestStop(o)
      PROVE  TrampInv'
  <2>1. ctx' = ctx /\ op' = [op EXCEPT ![o].stopped = TRUE]
    BY <1>2 DEF Trampolines!RequestStop
  <2>2. op' \in [Ops -> Operation] /\ \A p \in Ops : Plain(op'[p]) /\ op'[p].life = op[p].life
    BY <1>0, <2>1, PlainStops
  <2> QED BY <2>1, <2>2 DEF TrampInv
<1> QED BY <1>1, <1>2

\* The initial states.
LEMMA TrampInit == ASSUME Trampolines!Init PROVE TrampInv
<1>1. op \in [Ops -> {NewOp("schedule")}]
  BY DEF Trampolines!Init, Trampolines!NewOp, NewOp, Trampolines!Nobody, Nobody
<1>2. op \in [Ops -> Operation] /\ \A o \in Ops : op[o].life = "idle" /\ Plain(op[o])
  <2>1. NewOp("schedule") \in Operation /\ NewOp("schedule").life = "idle" /\ Plain(NewOp("schedule"))
    BY NewFacts
  <2> QED BY <1>1, <2>1
<1>3. /\ ctx \in TrampCtx /\ ctx.head_ = <<>> /\ ctx.frames = <<>> /\ ctx.recursionDepth_ = 0
      /\ ctx.maxRecursionDepth_ \in {1, 2}
  <2>1. 1 .. 2 = {1, 2} /\ <<>> \in Seq(Ops) /\ 0 \in Nat
    OBVIOUS
  <2> QED BY <2>1 DEF Trampolines!Init, TrampCtx
<1>4. Len(ctx.frames) = 0
  BY <1>3
<1> QED BY <1>2, <1>3, <1>4 DEF TrampInv, Once, InList

\* Every step keeps the invariant.
LEMMA TrampNext == ASSUME TrampInv, Trampolines!Next PROVE TrampInv'
BY TrampStart, TrampDrain, TrampRest DEF Trampolines!Next, Trampolines!System, Trampolines!User
-----------------------------------------------------------------------------
\* new_thread_context.  A started operation is one whose thread waits for
\* the mutex.
ThreadAt == [Ops -> {"none", "lock", "user", "retired", "exited", "joined"}]
ThreadCtx == [activeThreadCount_ : Int, threadToJoin_ : Tasks, destroyed : BOOLEAN,
              pc : {"no", "counted", "waiting", "joining"}, thread : ThreadAt, prevThread : [Ops -> Tasks]]
ThreadInv ==
  /\ op \in [Ops -> Operation] /\ ctx \in ThreadCtx
  /\ \A o \in Ops : Plain(op[o]) /\ (op[o].life = "started" <=> ctx.thread[o] = "lock")

\* A step that changes nothing the invariant is about.
LEMMA ThreadSame ==
  /\ \A r, by, pc : Thread!Begun(r, by, pc) = Begun(r, by, pc)
  /\ \A r : Thread!Returned(r) = Returned(r)
  /\ \A r : Thread!CompletedScheduled(r) = CompletedScheduled(r)
  /\ \A r, signal : Thread!Completed(r, signal) = Completed(r, signal)
  /\ Thread!Outside = Outside
BY DEF Thread!Begun, Begun, Thread!Returned, Returned, Thread!Nobody, Nobody, Thread!Outside, Outside,
       Thread!CompletedScheduled, CompletedScheduled, Thread!Completed, Completed

\* One operation and its thread move.
LEMMA ThreadMoves ==
  ASSUME ThreadInv, NEW o \in Ops, NEW r \in Operation, Plain(r), op' = [op EXCEPT ![o] = r],
         NEW at \in {"none", "lock", "user", "retired", "exited", "joined"},
         r.life = "started" <=> at = "lock", NEW n \in Int,
         ctx' = [ctx EXCEPT !.activeThreadCount_ = n, !.thread[o] = at]
  PROVE  ThreadInv'
<1> DEFINE thread == [ctx.thread EXCEPT ![o] = at]
<1>0. op \in [Ops -> Operation] /\ ctx \in ThreadCtx /\ ctx.thread \in ThreadAt
  BY DEF ThreadInv, ThreadCtx
<1>1. op' \in [Ops -> Operation] /\ op'[o] = r /\ \A p \in Ops : p # o => op'[p] = op[p]
  BY <1>0, OneChanges
<1>2. thread \in ThreadAt /\ thread[o] = at /\ \A p \in Ops : p # o => thread[p] = ctx.thread[p]
  BY <1>0 DEF ThreadAt
<1>3. ctx' = [ctx EXCEPT !.activeThreadCount_ = n, !.thread = thread]
  BY <1>0 DEF ThreadCtx
<1> HIDE DEF thread
<1>4. ctx' \in ThreadCtx /\ ctx'.thread = thread
  BY <1>0, <1>2, <1>3 DEF ThreadCtx
<1>5. \A p \in Ops : Plain(op'[p]) /\ (op'[p].life = "started" <=> thread[p] = "lock")
  BY <1>1, <1>2 DEF ThreadInv
<1> QED BY <1>1, <1>4, <1>5 DEF ThreadInv

\* start().
LEMMA ThreadStart ==
  ASSUME ThreadInv, NEW o \in Ops, Thread!start(o)
  PROVE  ThreadInv'
<1>0. /\ op \in [Ops -> Operation] /\ ctx \in ThreadCtx /\ ctx.thread \in ThreadAt /\ Plain(op[o])
      /\ op[o] \in Operation /\ op[o].life = "idle" /\ ctx.activeThreadCount_ \in Int
      /\ ctx.thread[o] \in {"none", "lock", "user", "retired", "exited", "joined"} /\ ctx.thread[o] # "lock"
  BY DEF ThreadInv, ThreadCtx, ThreadAt, Thread!start
<1>1. PICK by \in Thread!Starters :
        \/ /\ op' = [op EXCEPT ![o] = Begun(op[o], by, "count")]
           /\ ctx' = [ctx EXCEPT !.thread[o] = "lock"]
        \/ /\ op' = [op EXCEPT ![o] = Returned(Completed(Begun(op[o], by, "launch"), "error"))]
           /\ ctx' = ctx
  BY ThreadSame DEF Thread!start
<1>2. by \in Callers /\ "count" \in Points /\ "launch" \in Points
  BY ThreadSame DEF Callers, Points, Thread!Starters
<1>3. CASE op' = [op EXCEPT ![o] = Begun(op[o], by, "count")] /\ ctx' = [ctx EXCEPT !.thread[o] = "lock"]
  <2>1. ctx' = [ctx EXCEPT !.activeThreadCount_ = ctx.activeThreadCount_, !.thread[o] = "lock"]
    BY <1>0, <1>3 DEF ThreadCtx
  <2> DEFINE r == Begun(op[o], by, "count")
  <2>2. r \in Operation /\ Plain(r) /\ r.life = "started"
    BY <1>0, <1>2, PlainBegun
  <2> HIDE DEF r
  <2> QED BY Zenon, <1>0, <1>3, <2>1, <2>2, ThreadMoves DEF r
<1>4. CASE op' = [op EXCEPT ![o] = Returned(Completed(Begun(op[o], by, "launch"), "error"))] /\ ctx' = ctx
  <2> DEFINE b == Begun(op[o], by, "launch")
             c == Completed(b, "error")
             r == Returned(c)
  <2>1. b \in Operation /\ Plain(b) /\ b.life = "started"
    BY <1>0, <1>2, PlainBegun
  <2>2. c \in Operation /\ Plain(c) /\ c.life = "completed"
    <3> HIDE DEF b
    <3> QED BY <2>1, PlainCompleted
  <2>3. r \in Operation /\ Plain(r) /\ r.life = "completed"
    <3> HIDE DEF c
    <3> QED BY <2>2, PlainReturned
  <2>4. ctx' = [ctx EXCEPT !.activeThreadCount_ = ctx.activeThreadCount_, !.thread[o] = ctx.thread[o]]
    BY <1>0, <1>4 DEF ThreadCtx, ThreadAt
  <2> HIDE DEF b, c, r
  <2>5. op' = [op EXCEPT ![o] = r]
    BY <1>4 DEF b, c, r
  <2> QED BY Zenon, <1>0, <2>3, <2>4, <2>5, ThreadMoves
<1> QED BY <1>1, <1>3, <1>4

\* A new thread is counted, and runs the operation.
LEMMA ThreadCountRun ==
  ASSUME ThreadInv, NEW o \in Ops, Thread!Count(o) \/ Thread!run(o)
  PROVE  ThreadInv'
<1>0. /\ op \in [Ops -> Operation] /\ ctx \in ThreadCtx /\ ctx.thread \in ThreadAt /\ Plain(op[o])
      /\ op[o] \in Operation /\ ctx.activeThreadCount_ \in Int
      /\ ctx.thread[o] \in {"none", "lock", "user", "retired", "exited", "joined"}
      /\ op[o].life = "started" <=> ctx.thread[o] = "lock"
  BY DEF ThreadInv, ThreadCtx, ThreadAt
<1>1. CASE Thread!Count(o)
  <2> DEFINE r == Returned(op[o])
             n == ctx.activeThreadCount_ + 1
             at == ctx.thread[o]
  <2>1. r \in Operation /\ Plain(r) /\ r.life = op[o].life
    BY <1>0, PlainReturned
  <2>2. op' = [op EXCEPT ![o] = r] /\ ctx' = [ctx EXCEPT !.activeThreadCount_ = n]
    BY <1>0, <1>1, ThreadSame DEF Thread!Count
  <2>3. ctx' = [ctx EXCEPT !.activeThreadCount_ = n, !.thread[o] = at]
    BY <1>0, <2>2 DEF ThreadCtx, ThreadAt
  <2>4. n \in Int /\ at \in {"none", "lock", "user", "retired", "exited", "joined"}
    BY <1>0
  <2>5. r.life = "started" <=> at = "lock"
    BY <1>0, <2>1
  <2> HIDE DEF r, n, at
  <2> QED BY Zenon, <2>1, <2>2, <2>3, <2>4, <2>5, ThreadMoves
<1>2. CASE Thread!run(o)
  <2>1. op[o].life = "started"
    BY <1>0, <1>2 DEF Thread!run
  <2>2. PICK r \in {CompletedScheduled(op[o]), Completed(op[o], "error")} : op' = [op EXCEPT ![o] = r]
    BY <1>2, ThreadSame DEF Thread!run
  <2>3. r \in Operation /\ Plain(r) /\ r.life = "completed"
    BY <1>0, <2>1, PlainCompleted
  <2>4. ctx' = [ctx EXCEPT !.activeThreadCount_ = ctx.activeThreadCount_, !.thread[o] = "user"]
    BY <1>0, <1>2 DEF ThreadCtx, Thread!run
  <2> QED BY Zenon, <1>0, <2>2, <2>3, <2>4, ThreadMoves
<1> QED BY <1>1, <1>2

\* The steps after the completion: no thread that waits for its mutex is
\* joined or leaves.
LEMMA ThreadAfter ==
  ASSUME ThreadInv, op' = op, ctx' \in ThreadCtx,
         \A p \in Ops : ctx'.thread[p] = "lock" <=> ctx.thread[p] = "lock"
  PROVE  ThreadInv'
BY DEF ThreadInv

\* The other steps.
LEMMA ThreadRest ==
  ASSUME ThreadInv,
         \/ \E o \in Ops : Thread!retire_thread(o) \/ Thread!JoinPrevious(o) \/ Thread!RequestStop(o)
         \/ Thread!Destroy \/ Thread!Wait \/ Thread!Join
  PROVE  ThreadInv'
<1>0. /\ op \in [Ops -> Operation] /\ ctx \in ThreadCtx /\ ctx.thread \in ThreadAt /\ \A p \in Ops : Plain(op[p])
      /\ ctx.activeThreadCount_ \in Int /\ ctx.prevThread \in [Ops -> Tasks] /\ ctx.threadToJoin_ \in Tasks
      /\ ctx.pc \in {"no", "counted", "waiting", "joining"} /\ <<>> \in Tasks
  BY DEF ThreadInv, ThreadCtx, Tasks
<1>1. ASSUME NEW o \in Ops, Thread!retire_thread(o)
      PROVE  ThreadInv'
  <2> DEFINE n == ctx.activeThreadCount_ - 1
             thread == [ctx.thread EXCEPT ![o] = "retired"]
             prev == [ctx.prevThread EXCEPT ![o] = ctx.threadToJoin_]
             pc == IF ctx.activeThreadCount_ = 1 /\ ctx.pc = "waiting" THEN "counted" ELSE ctx.pc
             handle == <<o>>
  <2>1. ctx' = [ctx EXCEPT !.prevThread = prev, !.threadToJoin_ = handle, !.activeThreadCount_ = n,
                           !.thread = thread, !.pc = pc] /\ op' = op /\ ctx.thread[o] = "user"
    BY Zenon, <1>0, <1>1 DEF Thread!retire_thread, ThreadCtx
  <2>2. /\ n \in Int /\ thread \in ThreadAt /\ prev \in [Ops -> Tasks] /\ handle \in Tasks
        /\ pc \in {"no", "counted", "waiting", "joining"}
    BY <1>0 DEF ThreadAt, Tasks
  <2>3. \A p \in Ops : thread[p] = "lock" <=> ctx.thread[p] = "lock"
    BY <1>0, <2>1 DEF ThreadAt
  <2> HIDE DEF n, thread, prev, pc, handle
  <2>4. ctx' \in ThreadCtx /\ ctx'.thread = thread
    BY <1>0, <2>1, <2>2 DEF ThreadCtx
  <2> QED BY <2>1, <2>3, <2>4, ThreadAfter
<1>2. ASSUME NEW o \in Ops, Thread!JoinPrevious(o)
      PROVE  ThreadInv'
  <2> DEFINE thread == [x \in Ops |-> IF <<x>> = ctx.prevThread[o] THEN "joined"
                                      ELSE IF x = o THEN "exited" ELSE ctx.thread[x]]
             prev == [ctx.prevThread EXCEPT ![o] = <<>>]
  <2>1. ctx' = [ctx EXCEPT !.thread = thread, !.prevThread = prev] /\ op' = op /\ ctx.thread[o] = "retired"
    BY Zenon, <1>0, <1>2 DEF Thread!JoinPrevious, ThreadCtx
  <2>2. thread \in ThreadAt /\ prev \in [Ops -> Tasks]
    BY <1>0 DEF ThreadAt
  <2>3. \A x \in Ops : <<x>> = ctx.prevThread[o] => ctx.thread[x] = "exited"
    <3> SUFFICES ASSUME NEW x \in Ops, <<x>> = ctx.prevThread[o]
                 PROVE  ctx.thread[x] = "exited"
      OBVIOUS
    <3>1. x \in Thread!Items(ctx.prevThread[o])
      BY DEF Thread!Items
    <3> QED BY Zenon, <1>2, <3>1 DEF Thread!JoinPrevious
  <2>4. \A p \in Ops : thread[p] = "lock" <=> ctx.thread[p] = "lock"
    BY <1>0, <2>1, <2>3 DEF ThreadAt
  <2> HIDE DEF thread, prev
  <2>5. ctx' \in ThreadCtx /\ ctx'.thread = thread
    BY <1>0, <2>1, <2>2 DEF ThreadCtx
  <2> QED BY <2>1, <2>4, <2>5, ThreadAfter
<1>3. CASE Thread!Destroy
  <2> DEFINE n == ctx.activeThreadCount_ - 1
  <2>1. ctx' = [ctx EXCEPT !.activeThreadCount_ = n, !.pc = "counted"] /\ op' = op
    BY <1>0, <1>3 DEF Thread!Destroy
  <2>2. n \in Int
    BY <1>0
  <2> HIDE DEF n
  <2>3. ctx' \in ThreadCtx /\ ctx'.thread = ctx.thread
    BY <1>0, <2>1, <2>2 DEF ThreadCtx
  <2> QED BY <2>1, <2>3, ThreadAfter
<1>4. CASE Thread!Wait
  <2>1. ctx' \in ThreadCtx /\ ctx'.thread = ctx.thread /\ op' = op
    BY <1>0, <1>4 DEF Thread!Wait, ThreadCtx
  <2> QED BY <2>1, ThreadAfter
<1>5. CASE Thread!Join
  <2> DEFINE thread == [x \in Ops |-> IF <<x>> = ctx.threadToJoin_ THEN "joined" ELSE ctx.thread[x]]
  <2>1. ctx' = [ctx EXCEPT !.thread = thread, !.destroyed = TRUE] /\ op' = op
    BY <1>0, <1>5 DEF Thread!Join
  <2>2. thread \in ThreadAt
    BY <1>0 DEF ThreadAt
  <2>3. \A x \in Ops : <<x>> = ctx.threadToJoin_ => ctx.thread[x] = "exited"
    <3> SUFFICES ASSUME NEW x \in Ops, <<x>> = ctx.threadToJoin_
                 PROVE  ctx.thread[x] = "exited"
      OBVIOUS
    <3>1. x \in Thread!Items(ctx.threadToJoin_)
      BY DEF Thread!Items
    <3> QED BY <1>5, <3>1 DEF Thread!Join
  <2>4. \A p \in Ops : thread[p] = "lock" <=> ctx.thread[p] = "lock"
    BY <1>0, <2>3 DEF ThreadAt
  <2> HIDE DEF thread
  <2>5. ctx' \in ThreadCtx /\ ctx'.thread = thread
    BY <1>0, <2>1, <2>2 DEF ThreadCtx
  <2> QED BY <2>1, <2>4, <2>5, ThreadAfter
<1>6. ASSUME NEW o \in Ops, Thread!RequestStop(o)
      PROVE  ThreadInv'
  <2>1. ctx' = ctx /\ op' = [op EXCEPT ![o].stopped = TRUE]
    BY <1>6 DEF Thread!RequestStop
  <2>2. op' \in [Ops -> Operation] /\ \A p \in Ops : Plain(op'[p]) /\ op'[p].life = op[p].life
    BY <1>0, <2>1, PlainStops
  <2> QED BY <2>1, <2>2 DEF ThreadInv
<1> QED BY <1>1, <1>2, <1>3, <1>4, <1>5, <1>6

\* The initial states.
LEMMA ThreadStarts == ASSUME Thread!Init PROVE ThreadInv
<1>1. op \in [Ops -> {NewOp("schedule")}]
  BY DEF Thread!Init, Thread!NewOp, NewOp, Thread!Nobody, Nobody
<1>2. op \in [Ops -> Operation] /\ \A o \in Ops : op[o].life = "idle" /\ Plain(op[o])
  <2>1. NewOp("schedule") \in Operation /\ NewOp("schedule").life = "idle" /\ Plain(NewOp("schedule"))
    BY NewFacts
  <2> QED BY <1>1, <2>1
<1>3. ctx \in ThreadCtx /\ \A o \in Ops : ctx.thread[o] = "none"
  BY DEF Thread!Init, ThreadCtx, ThreadAt, Tasks
<1> QED BY <1>2, <1>3 DEF ThreadInv

\* Every step keeps the invariant.
LEMMA ThreadNext == ASSUME ThreadInv, Thread!Next PROVE ThreadInv'
BY ThreadStart, ThreadCountRun, ThreadRest DEF Thread!Next, Thread!System, Thread!User
-----------------------------------------------------------------------------
\* timed_single_thread_context.  A started operation is with the thread
\* that is about to link it, in start() or in the stop callback, in the
\* list, or with the thread that runs it, when it is due.
TimedOp(r, queued, running, now) ==
  /\ r.kind = "timed" /\ Signalled(r)
  /\ r.signals = <<"value">> => r.due <= now
  /\ r.life = "started" <=> r.start \in {"construct", "enqueue"} \/ r.stop = "requeue" \/ queued \/ running
  /\ ~(r.start \in {"construct", "enqueue"} /\ (r.stop = "requeue" \/ queued \/ running))
  /\ ~(r.stop = "requeue" /\ (queued \/ running))
  /\ ~(queued /\ running)
  /\ r.cb = "running" <=> r.stop \in {"cancel", "requeue"}
  /\ r.life # "started" \/ r.start = "construct" => r.cb = "none"
  /\ running => r.due <= now
TimedPc == {"run", "waiting", "sleeping", "task", "returned"}
TimedCtx == [head_ : Seq(Ops), stop_ : BOOLEAN, destroyed : BOOLEAN, now : Int, pc : TimedPc, until : Int,
             task : Tasks]
TimedInv ==
  /\ op \in [Ops -> Operation] /\ ctx \in TimedCtx
  /\ Once(ctx.head_)
  /\ ctx.pc = "task" <=> ctx.task # <<>>
  /\ \A o \in Ops : TimedOp(op[o], InList(ctx.head_, o), ctx.task = <<o>>, ctx.now)

\* A step that changes nothing the invariant is about.
LEMMA TimedSame ==
  /\ \A r, by, pc : Timed!Begun(r, by, pc) = Begun(r, by, pc)
  /\ \A r : Timed!Returned(r) = Returned(r)
  /\ \A r : Timed!CompletedScheduled(r) = CompletedScheduled(r)
  /\ \A r : Timed!Constructed(r) = Constructed(r)
  /\ \A r : Timed!Destructed(r) = Destructed(r)
  /\ \A r, pc : Timed!StopBegun(r, pc) = StopBegun(r, pc)
  /\ \A r : Timed!CallbackReturned(r) = CallbackReturned(r)
  /\ Timed!Outside = Outside
BY DEF Timed!Begun, Begun, Timed!Returned, Returned, Timed!Nobody, Nobody, Timed!Outside, Outside,
       Timed!CompletedScheduled, CompletedScheduled, Timed!Completed, Completed, Timed!Constructed, Constructed,
       Timed!Destructed, Destructed, Timed!StopBegun, StopBegun, Timed!CallbackReturned, CallbackReturned

\* A step that leaves the lists alone.
LEMMA TimedSameLists ==
  /\ \A list, o : Timed!Unlink(list, o) = Unlink(list, o)
  /\ \A ops, list, o : Timed!InsertByDueTime(ops, list, o) = InsertByDueTime(ops, list, o)
<1>1. \A list, o : Timed!Unlink(list, o) = Unlink(list, o)
  BY DEF Timed!Unlink, Unlink, Timed!Items, Items, Timed!Position, Position
<1>2. \A list, k, o : Timed!Link(list, k, o) = Link(list, k, o)
  BY DEF Timed!Link, Link
<1>3. \A ops, list, due : Timed!FirstLater(ops, list, due) = FirstLater(ops, list, due)
  BY DEF Timed!FirstLater, FirstLater
<1>4. \A ops, list, o : Timed!InsertByDueTime(ops, list, o) = InsertByDueTime(ops, list, o)
  BY <1>2, <1>3 DEF Timed!InsertByDueTime, InsertByDueTime
<1> QED BY <1>1, <1>4

\* One operation and its place change.
TimedChange(o, r, list, task, pc) ==
  /\ r \in Operation /\ op' = [op EXCEPT ![o] = r]
  /\ list \in Seq(Ops) /\ Once(list) /\ task \in Tasks /\ pc \in TimedPc /\ (pc = "task" <=> task # <<>>)
  /\ ctx' = [ctx EXCEPT !.head_ = list, !.pc = pc, !.task = task]
  /\ \A p \in Ops : p # o => (InList(list, p) <=> InList(ctx.head_, p)) /\ (task = <<p>> <=> ctx.task = <<p>>)
  /\ TimedOp(r, InList(list, o), task = <<o>>, ctx.now)

\* What has to be shown of a step that changes one operation.
LEMMA TimedChanges ==
  ASSUME TimedInv, NEW o \in Ops, NEW r, NEW list, NEW task, NEW pc, TimedChange(o, r, list, task, pc)
  PROVE  TimedInv'
<1>0. op \in [Ops -> Operation] /\ ctx \in TimedCtx
  BY DEF TimedInv
<1>1. op' \in [Ops -> Operation] /\ op'[o] = r /\ \A p \in Ops : p # o => op'[p] = op[p]
  BY <1>0, OneChanges DEF TimedChange
<1>2. ctx' \in TimedCtx /\ ctx'.head_ = list /\ ctx'.pc = pc /\ ctx'.task = task /\ ctx'.now = ctx.now
  BY <1>0 DEF TimedCtx, TimedChange
<1>3. ASSUME NEW p \in Ops
      PROVE  TimedOp(op'[p], InList(list, p), task = <<p>>, ctx.now)
  <2>1. CASE p = o
    BY <1>1, <2>1 DEF TimedChange
  <2>2. CASE p # o
    <3>1. TimedOp(op[p], InList(ctx.head_, p), ctx.task = <<p>>, ctx.now)
      BY DEF TimedInv
    <3>2. op'[p] = op[p] /\ (InList(list, p) <=> InList(ctx.head_, p)) /\ (task = <<p>> <=> ctx.task = <<p>>)
      BY <1>1, <2>2 DEF TimedChange
    <3> QED BY <3>1, <3>2 DEF TimedOp
  <2> QED BY <2>1, <2>2
<1>4. Once(list) /\ (pc = "task" <=> task # <<>>)
  BY DEF TimedChange
<1> QED BY <1>1, <1>2, <1>3, <1>4 DEF TimedInv

\* Nothing but the operation changes.
LEMMA TimedMoves ==
  ASSUME TimedInv, NEW o \in Ops, NEW r \in Operation, op' = [op EXCEPT ![o] = r], ctx' = ctx,
         TimedOp(r, InList(ctx.head_, o), ctx.task = <<o>>, ctx.now)
  PROVE  TimedInv'
<1>1. /\ ctx \in TimedCtx /\ ctx.head_ \in Seq(Ops) /\ Once(ctx.head_) /\ ctx.task \in Tasks /\ ctx.pc \in TimedPc
      /\ ctx.pc = "task" <=> ctx.task # <<>>
  BY DEF TimedInv, TimedCtx
<1>2. ctx' = [ctx EXCEPT !.head_ = ctx.head_, !.pc = ctx.pc, !.task = ctx.task]
  BY <1>1 DEF TimedCtx
<1>3. TimedChange(o, r, ctx.head_, ctx.task, ctx.pc)
  BY <1>1, <1>2 DEF TimedChange
<1> QED BY <1>3, TimedChanges

\* The operation is linked.
LEMMA TimedEnqueue ==
  ASSUME TimedInv, NEW o \in Ops, NEW r \in Operation, op' = [op EXCEPT ![o] = r], ctx' = Timed!enqueue(o),
         ~InList(ctx.head_, o), TimedOp(r, TRUE, ctx.task = <<o>>, ctx.now)
  PROVE  TimedInv'
<1> DEFINE list == InsertByDueTime(op, ctx.head_, o)
<1>1. /\ ctx \in TimedCtx /\ ctx.head_ \in Seq(Ops) /\ Once(ctx.head_) /\ ctx.task \in Tasks /\ ctx.pc \in TimedPc
      /\ ctx.pc = "task" <=> ctx.task # <<>>
  BY DEF TimedInv, TimedCtx
<1>2. /\ list \in Seq(Ops) /\ Once(list)
      /\ \A p \in Ops : InList(list, p) <=> p = o \/ InList(ctx.head_, p)
  BY <1>1, InsertFacts
<1>3. Timed!InsertByDueTime(op, ctx.head_, o) = list
  BY TimedSameLists
<1> HIDE DEF list
<1>4. PICK pc \in TimedPc : /\ ctx' = [ctx EXCEPT !.head_ = list, !.pc = pc, !.task = ctx.task]
                            /\ pc = "task" <=> ctx.pc = "task"
  <2> DEFINE woken == IF ctx.pc \in {"waiting", "sleeping"} THEN "run" ELSE ctx.pc
  <2>1. woken \in TimedPc /\ (woken = "task" <=> ctx.pc = "task")
    BY <1>1 DEF TimedPc
  <2>2. CASE list[1] = o
    <3>1. ctx' = [ctx EXCEPT !.head_ = list, !.pc = woken, !.task = ctx.task]
      BY <1>1, <1>3, <2>2 DEF Timed!enqueue, Timed!NotifyOne, TimedCtx
    <3> QED BY Zenon, <2>1, <3>1
  <2>3. CASE list[1] # o
    <3>1. ctx' = [ctx EXCEPT !.head_ = list, !.pc = ctx.pc, !.task = ctx.task]
      BY <1>1, <1>3, <2>3 DEF Timed!enqueue, TimedCtx
    <3> QED BY Zenon, <1>1, <3>1
  <2> QED BY Zenon, <2>2, <2>3
<1>5. InList(list, o) /\ (\A p \in Ops : p # o => (InList(list, p) <=> InList(ctx.head_, p)))
  BY <1>2
<1>6. TimedOp(r, InList(list, o), ctx.task = <<o>>, ctx.now)
  BY <1>5 DEF TimedOp
<1>7. TimedChange(o, r, list, ctx.task, pc)
  BY <1>1, <1>2, <1>4, <1>5, <1>6 DEF TimedChange
<1> QED BY <1>7, TimedChanges

\* The operation is due now and not linked any more.
LEMMA TimedUnlink ==
  ASSUME TimedInv, NEW o \in Ops, NEW r \in Operation, op' = [op EXCEPT ![o] = r],
         ctx' = [ctx EXCEPT !.head_ = Timed!Unlink(ctx.head_, o)], TimedOp(r, FALSE, ctx.task = <<o>>, ctx.now)
  PROVE  TimedInv'
<1> DEFINE list == Unlink(ctx.head_, o)
<1>1. /\ ctx \in TimedCtx /\ ctx.head_ \in Seq(Ops) /\ Once(ctx.head_) /\ ctx.task \in Tasks /\ ctx.pc \in TimedPc
      /\ ctx.pc = "task" <=> ctx.task # <<>>
  BY DEF TimedInv, TimedCtx
<1>2. /\ list \in Seq(Ops) /\ Once(list)
      /\ \A p \in Ops : InList(list, p) <=> p # o /\ InList(ctx.head_, p)
  BY <1>1, UnlinkFacts
<1>3. ctx' = [ctx EXCEPT !.head_ = list, !.pc = ctx.pc, !.task = ctx.task]
  BY <1>1, TimedSameLists DEF TimedCtx
<1> HIDE DEF list
<1>5. ~InList(list, o) /\ (\A p \in Ops : p # o => (InList(list, p) <=> InList(ctx.head_, p)))
  BY <1>2
<1>6. TimedOp(r, InList(list, o), ctx.task = <<o>>, ctx.now)
  BY <1>5 DEF TimedOp
<1>7. TimedChange(o, r, list, ctx.task, ctx.pc)
  BY <1>1, <1>2, <1>3, <1>5, <1>6 DEF TimedChange
<1> QED BY <1>7, TimedChanges

\* start().
LEMMA TimedStart ==
  ASSUME TimedInv, NEW o \in Ops, Timed!start(o)
  PROVE  TimedInv'
<1>0. op[o] \in Operation /\ op[o].life = "idle" /\ ctx' = ctx
      /\ TimedOp(op[o], InList(ctx.head_, o), ctx.task = <<o>>, ctx.now)
  BY DEF TimedInv, Timed!start
<1>1. PICK due \in Timed!DueTimes : op' = [op EXCEPT ![o] = [Begun(op[o], Outside, "construct") EXCEPT !.due = due]]
  BY TimedSame DEF Timed!start
<1>2. due \in Int
  <2>1. ctx.now \in Int
    BY DEF TimedInv, TimedCtx
  <2> QED BY <2>1 DEF Timed!DueTimes, Timed!Durations
<1> DEFINE b == Begun(op[o], Outside, "construct")
           r == [b EXCEPT !.due = due]
<1>3. /\ b \in Operation /\ b.life = "started" /\ b.start = "construct" /\ b.kind = op[o].kind
      /\ b.signals = op[o].signals /\ b.stopped = op[o].stopped /\ b.cb = op[o].cb /\ b.stop = op[o].stop
  <2>1. Outside \in Callers /\ "construct" \in Points
    BY DEF Callers, Points
  <2> QED BY <1>0, <2>1, BegunFacts
<1> HIDE DEF b
<1>4. /\ r \in Operation /\ r.life = "started" /\ r.start = "construct" /\ r.kind = op[o].kind
      /\ r.signals = op[o].signals /\ r.stopped = op[o].stopped /\ r.cb = op[o].cb /\ r.stop = op[o].stop
  BY <1>2, <1>3, DueFacts
<1>5. op' = [op EXCEPT ![o] = r]
  BY <1>1 DEF b
<1> HIDE DEF r
<1>6. TimedOp(r, InList(ctx.head_, o), ctx.task = <<o>>, ctx.now)
  <2>1. r.signals = <<>> /\ ~InList(ctx.head_, o) /\ ctx.task # <<o>> /\ r.cb = "none" /\ r.stop # "requeue"
        /\ r.stop # "cancel"
    BY <1>0, <1>4 DEF TimedOp, Signalled
  <2>2. r.kind = "timed"
    BY <1>0, <1>4 DEF TimedOp
  <2> QED BY <1>4, <2>1, <2>2 DEF TimedOp, Signalled
<1> QED BY <1>0, <1>4, <1>5, <1>6, TimedMoves

\* The stop callback is constructed.
LEMMA TimedConstruct ==
  ASSUME TimedInv, NEW o \in Ops, Timed!ConstructCallback(o)
  PROVE  TimedInv'
<1> DEFINE c == Constructed(op[o])
           r == [c EXCEPT !.start = "enqueue"]
           t == [r EXCEPT !.due = ctx.now]
<1>0. op[o] \in Operation /\ op[o].start = "construct" /\ ctx.now \in Int
      /\ TimedOp(op[o], InList(ctx.head_, o), ctx.task = <<o>>, ctx.now)
  BY DEF TimedInv, TimedCtx, Timed!ConstructCallback
<1>1. /\ c \in Operation /\ c.cb # "running" /\ c.life = op[o].life /\ c.stop = op[o].stop /\ c.kind = op[o].kind
      /\ c.signals = op[o].signals /\ c.stopped = op[o].stopped /\ c.due = op[o].due
  BY <1>0, ConstructedFacts
<1>8. Constructed(op[o]) = c
  OBVIOUS
<1> HIDE DEF c
<1>2. /\ r \in Operation /\ r.cb # "running" /\ r.life = op[o].life /\ r.stop = op[o].stop /\ r.kind = op[o].kind
      /\ r.signals = op[o].signals /\ r.stopped = op[o].stopped /\ r.due = op[o].due /\ r.start = "enqueue"
  <2>1. "enqueue" \in Points
    BY DEF Points
  <2> QED BY <1>1, <2>1, MovedFacts
<1>3. TimedOp(r, InList(ctx.head_, o), ctx.task = <<o>>, ctx.now) /\ ~InList(ctx.head_, o)
  <2> HIDE DEF r
  <2> QED BY <1>0, <1>2 DEF TimedOp, Signalled
<1>4. CASE op[o].stopped /\ ctx.now < op[o].due
  <2>1. op' = [op EXCEPT ![o] = t] /\ ctx' = [ctx EXCEPT !.head_ = Timed!Unlink(ctx.head_, o)]
    <3> HIDE DEF r
    <3>1. Timed!cancel_callback(o, r)
      BY <1>4, <1>8, TimedSame DEF Timed!ConstructCallback, r
    <3> QED BY <1>2, <1>4, <3>1 DEF Timed!cancel_callback
  <2> HIDE DEF r
  <2>2. /\ t \in Operation /\ t.cb = r.cb /\ t.life = r.life /\ t.stop = r.stop /\ t.kind = r.kind
        /\ t.signals = r.signals /\ t.stopped = r.stopped /\ t.due = ctx.now /\ t.start = "enqueue"
    BY <1>0, <1>2, DueFacts
  <2> HIDE DEF t
  <2>3. TimedOp(t, FALSE, ctx.task = <<o>>, ctx.now)
    BY <1>0, <1>2, <1>3, <2>2 DEF TimedOp, Signalled
  <2> QED BY <2>1, <2>2, <2>3, TimedUnlink
<1>5. CASE ~(op[o].stopped /\ ctx.now < op[o].due)
  <2>1. op' = [op EXCEPT ![o] = r] /\ ctx' = ctx
    <3> HIDE DEF r
    <3>1. CASE op[o].stopped
      <4>1. Timed!cancel_callback(o, r)
        BY <1>8, <3>1, TimedSame DEF Timed!ConstructCallback, r
      <4> QED BY <1>2, <1>5, <3>1, <4>1 DEF Timed!cancel_callback
    <3>2. CASE ~op[o].stopped
      BY <1>8, <3>2, TimedSame DEF Timed!ConstructCallback, r
    <3> QED BY <3>1, <3>2
  <2> HIDE DEF r
  <2> QED BY <1>2, <1>3, <2>1, TimedMoves
<1> QED BY <1>4, <1>5

\* enqueue() links the timer at its place.
LEMMA TimedLink ==
  ASSUME TimedInv, NEW o \in Ops, Timed!Enqueue(o) \/ Timed!Requeue(o)
  PROVE  TimedInv'
<1>0. op[o] \in Operation /\ TimedOp(op[o], InList(ctx.head_, o), ctx.task = <<o>>, ctx.now)
  BY DEF TimedInv
<1>1. ctx' = Timed!enqueue(o)
  BY DEF Timed!Enqueue, Timed!Requeue
<1>2. CASE Timed!Enqueue(o)
  <2> DEFINE r == Returned(op[o])
  <2>1. /\ r \in Operation /\ r.start = "returned" /\ r.life = op[o].life /\ r.kind = op[o].kind
        /\ r.signals = op[o].signals /\ r.stopped = op[o].stopped /\ r.cb = op[o].cb /\ r.stop = op[o].stop
        /\ r.due = op[o].due
    BY <1>0, ReturnedFacts
  <2>2. op' = [op EXCEPT ![o] = r] /\ op[o].start = "enqueue"
    BY <1>2, TimedSame DEF Timed!Enqueue
  <2> HIDE DEF r
  <2>3. TimedOp(r, TRUE, ctx.task = <<o>>, ctx.now) /\ ~InList(ctx.head_, o)
    BY <1>0, <2>1, <2>2 DEF TimedOp, Signalled
  <2> QED BY <1>1, <2>1, <2>2, <2>3, TimedEnqueue
<1>3. CASE Timed!Requeue(o)
  <2> DEFINE r == CallbackReturned(op[o])
  <2>1. /\ r \in Operation /\ r.start = op[o].start /\ r.life = op[o].life /\ r.kind = op[o].kind
        /\ r.signals = op[o].signals /\ r.stopped = op[o].stopped /\ r.cb = "ran" /\ r.stop = "no"
        /\ r.due = op[o].due
    BY <1>0, CallbackReturnedFacts
  <2>2. op' = [op EXCEPT ![o] = r] /\ op[o].stop = "requeue"
    BY <1>3, TimedSame DEF Timed!Requeue
  <2> HIDE DEF r
  <2>3. TimedOp(r, TRUE, ctx.task = <<o>>, ctx.now) /\ ~InList(ctx.head_, o)
    BY <1>0, <2>1, <2>2 DEF TimedOp, Signalled
  <2> QED BY <1>1, <2>1, <2>2, <2>3, TimedEnqueue
<1> QED BY <1>2, <1>3

\* The stop callback unlinks the timer or leaves it to the thread.
LEMMA TimedCancel ==
  ASSUME TimedInv, NEW o \in Ops, Timed!Cancel(o)
  PROVE  TimedInv'
<1>0. op[o] \in Operation /\ op[o].stop = "cancel" /\ ctx.now \in Int /\ ctx \in TimedCtx /\ ctx.head_ \in Seq(Ops)
      /\ TimedOp(op[o], InList(ctx.head_, o), ctx.task = <<o>>, ctx.now)
  BY DEF TimedInv, TimedCtx, Timed!Cancel
<1>1. Timed!Queued(o) <=> InList(ctx.head_, o)
  BY DEF Timed!Queued, Timed!Items, InList
<1> DEFINE again == [op[o] EXCEPT !.stop = "requeue"]
           done == CallbackReturned(op[o])
           r == IF Timed!Requeues(o) THEN again ELSE done
           t == [r EXCEPT !.due = ctx.now]
<1>2. /\ again \in Operation /\ again.stop = "requeue" /\ again.cb = op[o].cb
      /\ again.life = op[o].life /\ again.signals = op[o].signals /\ again.stopped = op[o].stopped
      /\ again.kind = op[o].kind /\ again.start = op[o].start /\ again.due = op[o].due
  <2>1. "requeue" \in Points
    BY DEF Points
  <2> QED BY <1>0, <2>1, MovedFacts
<1>3. /\ done \in Operation /\ done.stop = "no" /\ done.cb = "ran"
      /\ done.life = op[o].life /\ done.signals = op[o].signals /\ done.stopped = op[o].stopped
      /\ done.kind = op[o].kind /\ done.start = op[o].start /\ done.due = op[o].due
  BY <1>0, CallbackReturnedFacts
<1>4. Timed!cancel_callback(o, r)
  BY TimedSame DEF Timed!Cancel
<1> HIDE DEF again, done
<1>5. /\ r \in Operation /\ r.life = op[o].life /\ r.signals = op[o].signals /\ r.stopped = op[o].stopped
      /\ r.kind = op[o].kind /\ r.start = op[o].start /\ r.due = op[o].due
      /\ Timed!Requeues(o) => r.stop = "requeue" /\ r.cb = op[o].cb
      /\ ~Timed!Requeues(o) => r.stop = "no" /\ r.cb = "ran"
  BY <1>2, <1>3
<1> HIDE DEF r
<1>6. CASE ctx.now < op[o].due
  <2>1. Timed!Requeues(o) <=> InList(ctx.head_, o)
    BY <1>1, <1>6 DEF Timed!Requeues
  <2>2. op' = [op EXCEPT ![o] = t] /\ ctx' = [ctx EXCEPT !.head_ = Timed!Unlink(ctx.head_, o)]
    BY <1>4, <1>5, <1>6 DEF Timed!cancel_callback
  <2>3. /\ t \in Operation /\ t.cb = r.cb /\ t.life = r.life /\ t.stop = r.stop /\ t.kind = r.kind
        /\ t.signals = r.signals /\ t.stopped = r.stopped /\ t.due = ctx.now /\ t.start = r.start
    BY <1>0, <1>5, DueFacts
  <2> HIDE DEF t
  <2>4. TimedOp(t, FALSE, ctx.task = <<o>>, ctx.now)
    BY <1>0, <1>5, <2>1, <2>3 DEF TimedOp, Signalled
  <2> QED BY <2>2, <2>3, <2>4, TimedUnlink
<1>7. CASE ~(ctx.now < op[o].due)
  <2>1. ~Timed!Requeues(o)
    BY <1>7 DEF Timed!Requeues
  <2>2. op' = [op EXCEPT ![o] = r] /\ ctx' = ctx
    BY <1>4, <1>5, <1>7 DEF Timed!cancel_callback
  <2>3. TimedOp(r, InList(ctx.head_, o), ctx.task = <<o>>, ctx.now)
    BY <1>0, <1>5, <2>1 DEF TimedOp, Signalled
  <2> QED BY <1>5, <2>2, <2>3, TimedMoves
<1> QED BY <1>6, <1>7

\* A stop is requested of an operation.
LEMMA TimedStopped ==
  ASSUME TimedInv, NEW o \in Ops, Timed!RequestStop(o)
  PROVE  TimedInv'
<1> DEFINE r == StopBegun(op[o], "cancel")
<1>0. op[o] \in Operation /\ ctx' = ctx /\ TimedOp(op[o], InList(ctx.head_, o), ctx.task = <<o>>, ctx.now)
  BY DEF TimedInv, Timed!RequestStop
<1>1. op' = [op EXCEPT ![o] = r]
  BY TimedSame DEF Timed!RequestStop
<1>2. /\ r \in Operation /\ r.stopped
      /\ op[o].cb = "set" => r.cb = "running" /\ r.stop = "cancel"
      /\ op[o].cb # "set" => r.cb = op[o].cb /\ r.stop = op[o].stop
      /\ r.life = op[o].life /\ r.signals = op[o].signals
      /\ r.kind = op[o].kind /\ r.start = op[o].start /\ r.due = op[o].due
  <2>1. "cancel" \in Points
    BY DEF Points
  <2> QED BY <1>0, <2>1, StopBegunFacts
<1> HIDE DEF r
<1>3. TimedOp(r, InList(ctx.head_, o), ctx.task = <<o>>, ctx.now)
  BY <1>0, <1>2 DEF TimedOp, Signalled
<1> QED BY <1>0, <1>1, <1>2, <1>3, TimedMoves

\* The operation is completed and leaves.
LEMMA TimedExecute ==
  ASSUME TimedInv, Timed!execute_impl
  PROVE  TimedInv'
<1>0. /\ op \in [Ops -> Operation] /\ ctx \in TimedCtx /\ ctx.head_ \in Seq(Ops) /\ Once(ctx.head_)
      /\ ctx.task \in Tasks /\ ctx.task # <<>>
  BY DEF TimedInv, TimedCtx, Timed!execute_impl
<1>1. PICK o \in Ops : ctx.task = <<o>> /\ ctx.task[1] = o
  BY <1>0 DEF Tasks
<1>2. op[o] \in Operation /\ op[o].cb # "running" /\ TimedOp(op[o], InList(ctx.head_, o), TRUE, ctx.now)
  BY <1>0, <1>1 DEF TimedInv, Timed!execute_impl, Timed!MayDestruct
<1> DEFINE d == Destructed(op[o])
           r == CompletedScheduled(d)
<1>3. /\ d \in Operation /\ d.cb = "none"
      /\ d.life = op[o].life /\ d.signals = op[o].signals /\ d.stopped = op[o].stopped
      /\ d.kind = op[o].kind /\ d.start = op[o].start /\ d.due = op[o].due /\ d.stop = op[o].stop
  BY <1>2, DestructedFacts
<1>4. d.signals = <<>>
  BY <1>2, <1>3 DEF TimedOp, Signalled
<1>5. op' = [op EXCEPT ![o] = r] /\ ctx' = [ctx EXCEPT !.pc = "run", !.task = <<>>]
  BY <1>1, TimedSame DEF Timed!execute_impl
<1> HIDE DEF d
<1>6. /\ r \in Operation /\ r.life = "completed" /\ r.signals = <<IF d.stopped THEN "done" ELSE "value">>
      /\ r.start = d.start /\ r.kind = d.kind /\ r.stopped = d.stopped
      /\ r.cb = d.cb /\ r.stop = d.stop /\ r.due = d.due
  BY <1>3, <1>4, CompletedScheduledFacts
<1> HIDE DEF r
<1>7. TimedOp(r, InList(ctx.head_, o), FALSE, ctx.now)
  BY <1>2, <1>3, <1>6 DEF TimedOp, Signalled
<1>8. ctx' = [ctx EXCEPT !.head_ = ctx.head_, !.pc = "run", !.task = <<>>]
  BY <1>0, <1>5 DEF TimedCtx
<1>9. <<>> \in Tasks /\ "run" \in TimedPc /\ \A p \in Ops : <<>> # <<p>> /\ (p # o => ctx.task # <<p>>)
  BY <1>1 DEF Tasks, TimedPc
<1>10. TimedOp(r, InList(ctx.head_, o), <<>> = <<o>>, ctx.now)
  BY <1>7, <1>9 DEF TimedOp
<1>11. TimedChange(o, r, ctx.head_, <<>>, "run")
  BY <1>0, <1>5, <1>6, <1>8, <1>9, <1>10 DEF TimedChange
<1> QED BY <1>11, TimedChanges

\* run(): the next item, the end, or sleep.
LEMMA TimedRun ==
  ASSUME TimedInv, Timed!run
  PROVE  TimedInv'
<1>0. /\ op \in [Ops -> Operation] /\ ctx \in TimedCtx /\ ctx.head_ \in Seq(Ops) /\ Once(ctx.head_)
      /\ ctx.pc = "run" /\ ctx.task = <<>> /\ op' = op
  BY DEF TimedInv, TimedCtx, Timed!run
<1>1. ASSUME NEW pc \in TimedPc, pc # "task", NEW until \in Int, ctx' = [ctx EXCEPT !.pc = pc, !.until = until]
      PROVE  TimedInv'
  <2>1. ctx' \in TimedCtx /\ ctx'.head_ = ctx.head_ /\ ctx'.task = ctx.task /\ ctx'.now = ctx.now /\ ctx'.pc = pc
    BY <1>0, <1>1 DEF TimedCtx
  <2> QED BY <1>0, <1>1, <2>1 DEF TimedInv
<1>2. ctx.until \in Int /\ {"returned", "waiting", "sleeping", "task"} \subseteq TimedPc
  BY <1>0 DEF TimedCtx, TimedPc
<1>3. CASE ctx.stop_
  <2>1. ctx' = [ctx EXCEPT !.pc = "returned", !.until = ctx.until]
    BY <1>0, <1>3 DEF Timed!run, TimedCtx
  <2> QED BY Zenon, <1>1, <1>2, <2>1
<1>4. CASE ~ctx.stop_ /\ ctx.head_ = <<>>
  <2>1. ctx' = [ctx EXCEPT !.pc = "waiting", !.until = ctx.until]
    BY <1>0, <1>4 DEF Timed!run, TimedCtx
  <2> QED BY Zenon, <1>1, <1>2, <2>1
<1>5. CASE ~ctx.stop_ /\ ctx.head_ # <<>>
  <2> DEFINE o == Head(ctx.head_)
             list == Tail(ctx.head_)
  <2>1. /\ o \in Ops /\ list \in Seq(Ops) /\ InList(ctx.head_, o) /\ Once(list) /\ ~InList(list, o)
        /\ \A p \in Ops : InList(ctx.head_, p) <=> p = o \/ InList(list, p)
    BY <1>0, <1>5, TailFacts
  <2>2. op[o] \in Operation /\ op[o].due \in Int
    BY <1>0, <2>1 DEF Operation
  <2>3. CASE op[o].due <= ctx.now
    <3>1. ctx' = [ctx EXCEPT !.head_ = list, !.pc = "task", !.task = <<o>>]
      BY <1>0, <1>5, <2>3 DEF Timed!run, TimedCtx
    <3>2. TimedOp(op[o], TRUE, FALSE, ctx.now)
      <4>1. TimedOp(op[o], InList(ctx.head_, o), ctx.task = <<o>>, ctx.now)
        BY <2>1 DEF TimedInv
      <4> QED BY <1>0, <2>1, <4>1 DEF TimedOp
    <3> HIDE DEF o, list
    <3>3. TimedOp(op[o], InList(list, o), <<o>> = <<o>>, ctx.now)
      BY <2>1, <2>3, <3>2 DEF TimedOp
    <3>4. op' = [op EXCEPT ![o] = op[o]]
      BY <1>0, <2>1
    <3>5. <<o>> \in Tasks /\ <<o>> # <<>> /\ \A p \in Ops : p # o => <<o>> # <<p>> /\ ctx.task # <<p>>
      BY <1>0, <2>1 DEF Tasks
    <3>6. TimedChange(o, op[o], list, <<o>>, "task")
      BY <1>2, <2>1, <2>2, <3>1, <3>3, <3>4, <3>5 DEF TimedChange
    <3> QED BY <2>1, <3>6, TimedChanges
  <2>4. CASE ~(op[o].due <= ctx.now)
    <3>1. ctx' = [ctx EXCEPT !.pc = "sleeping", !.until = op[o].due]
      BY <1>0, <1>5, <2>4 DEF Timed!run
    <3> QED BY Zenon, <1>1, <1>2, <2>2, <3>1
  <2> QED BY <2>3, <2>4
<1> QED BY <1>3, <1>4, <1>5

\* The other steps.
LEMMA TimedRest ==
  ASSUME TimedInv, Timed!WakeUp \/ Timed!Tick \/ Timed!Destroy \/ Timed!Join
  PROVE  TimedInv'
<1>0. op \in [Ops -> Operation] /\ ctx \in TimedCtx /\ ctx.now \in Int /\ ctx.pc \in TimedPc /\ op' = op
  BY DEF TimedInv, TimedCtx, Timed!WakeUp, Timed!Tick, Timed!Destroy, Timed!Join
<1>1. PICK pc \in TimedPc, now \in Int, stop \in BOOLEAN, destroyed \in BOOLEAN :
        /\ ctx' = [ctx EXCEPT !.pc = pc, !.now = now, !.stop_ = stop, !.destroyed = destroyed]
        /\ ctx.now <= now /\ (pc = "task" <=> ctx.pc = "task")
  <2>0. ctx.stop_ \in BOOLEAN /\ ctx.destroyed \in BOOLEAN /\ ctx.now <= ctx.now /\ "run" \in TimedPc
    BY <1>0 DEF TimedCtx, TimedPc
  <2>1. CASE Timed!WakeUp
    <3>1. /\ ctx' = [ctx EXCEPT !.pc = "run", !.now = ctx.now, !.stop_ = ctx.stop_, !.destroyed = ctx.destroyed]
          /\ ctx.pc # "task"
      BY <1>0, <2>1 DEF Timed!WakeUp, TimedCtx
    <3> QED BY Zenon, <1>0, <2>0, <3>1
  <2>2. CASE Timed!Tick
    <3>1. ctx' = [ctx EXCEPT !.pc = ctx.pc, !.now = ctx.now + 1, !.stop_ = ctx.stop_, !.destroyed = ctx.destroyed]
      BY <1>0, <2>2 DEF Timed!Tick, TimedCtx
    <3>2. ctx.now + 1 \in Int /\ ctx.now <= ctx.now + 1
      BY <1>0
    <3> QED BY Zenon, <1>0, <2>0, <3>1, <3>2
  <2>3. CASE Timed!Destroy
    <3> DEFINE woken == IF ctx.pc \in {"waiting", "sleeping"} THEN "run" ELSE ctx.pc
    <3>1. ctx' = [ctx EXCEPT !.pc = woken, !.now = ctx.now, !.stop_ = TRUE, !.destroyed = ctx.destroyed]
      BY <1>0, <2>3 DEF Timed!Destroy, Timed!NotifyOne, TimedCtx
    <3>2. woken \in TimedPc /\ (woken = "task" <=> ctx.pc = "task")
      BY <1>0 DEF TimedPc
    <3> HIDE DEF woken
    <3> QED BY Zenon, <1>0, <2>0, <3>1, <3>2
  <2>4. CASE Timed!Join
    <3>1. ctx' = [ctx EXCEPT !.pc = ctx.pc, !.now = ctx.now, !.stop_ = ctx.stop_, !.destroyed = TRUE]
      BY <1>0, <2>4 DEF Timed!Join, TimedCtx
    <3> QED BY Zenon, <1>0, <2>0, <3>1
  <2> QED BY Zenon, <2>1, <2>2, <2>3, <2>4
<1>2. /\ ctx' \in TimedCtx /\ ctx'.head_ = ctx.head_ /\ ctx'.task = ctx.task /\ ctx'.now = now /\ ctx'.pc = pc
  BY <1>0, <1>1 DEF TimedCtx
<1>3. ASSUME NEW o \in Ops
      PROVE  TimedOp(op[o], InList(ctx.head_, o), ctx.task = <<o>>, now)
  <2>1. TimedOp(op[o], InList(ctx.head_, o), ctx.task = <<o>>, ctx.now) /\ op[o].due \in Int
    BY <1>0 DEF TimedInv, Operation
  <2> QED BY <1>0, <1>1, <2>1 DEF TimedOp
<1> QED BY <1>0, <1>1, <1>2, <1>3 DEF TimedInv

\* The initial states.
LEMMA TimedStarts == ASSUME Timed!Init PROVE TimedInv
<1>1. op \in [Ops -> {NewOp("timed")}]
  BY DEF Timed!Init, Timed!NewOp, NewOp, Timed!Nobody, Nobody
<1> DEFINE new == NewOp("timed")
<1>2. /\ new \in Operation /\ new.life = "idle" /\ Signalled(new) /\ new.kind = "timed" /\ new.cb = "none"
      /\ new.start = "no" /\ new.stop = "no" /\ new.signals = <<>>
  BY NewFacts
<1> HIDE DEF new
<1>3. op \in [Ops -> Operation] /\ \A o \in Ops : op[o] = new
  BY <1>1, <1>2 DEF new
<1>4. /\ ctx.head_ = <<>> /\ ctx.task = <<>> /\ ctx.pc = "run" /\ ctx \in TimedCtx
  BY DEF Timed!Init, TimedCtx, TimedPc, Tasks
<1>5. Once(ctx.head_) /\ \A o \in Ops : ~InList(ctx.head_, o) /\ ctx.task # <<o>>
  BY <1>4 DEF Once, InList
<1>6. \A o \in Ops : TimedOp(op[o], InList(ctx.head_, o), ctx.task = <<o>>, ctx.now)
  BY <1>2, <1>3, <1>5 DEF TimedOp
<1> QED BY <1>3, <1>4, <1>5, <1>6 DEF TimedInv

\* Every step keeps the invariant.
LEMMA TimedNext == ASSUME TimedInv, Timed!Next PROVE TimedInv'
BY TimedStart, TimedConstruct, TimedLink, TimedCancel, TimedStopped, TimedExecute, TimedRun, TimedRest
   DEF Timed!Next, Timed!System, Timed!User
-----------------------------------------------------------------------------
\* thread_unsafe_event_loop.  A started operation is in the list, or it is
\* the item that runs, when it is due.
UnsafeOp(r, queued, running, now) ==
  /\ r.kind = "timed" /\ Signalled(r)
  /\ r.signals = <<"value">> => r.due <= now
  /\ r.life = "started" <=> queued \/ running
  /\ ~(queued /\ running)
  /\ r.life # "started" => r.cb = "none"
  /\ running => r.due <= now
UnsafePc == {"user", "loop", "sleep", "item"}
UnsafeCtx == [head_ : Seq(Ops), now : Int, lastTime : Int, pc : UnsafePc, item : Tasks, running : BOOLEAN,
              destroyed : BOOLEAN]
UnsafeInv ==
  /\ op \in [Ops -> Operation] /\ ctx \in UnsafeCtx
  /\ Once(ctx.head_) /\ ctx.lastTime <= ctx.now
  /\ ctx.pc = "item" <=> ctx.item # <<>>
  /\ ctx.pc = "sleep" => ctx.head_ # <<>>
  /\ \A o \in Ops : UnsafeOp(op[o], InList(ctx.head_, o), ctx.item = <<o>>, ctx.now)

\* A step that changes nothing the invariant is about.
LEMMA UnsafeSame ==
  /\ \A r, by, pc : Unsafe!Begun(r, by, pc) = Begun(r, by, pc)
  /\ \A r : Unsafe!Returned(r) = Returned(r)
  /\ \A r : Unsafe!CompletedScheduled(r) = CompletedScheduled(r)
  /\ \A r : Unsafe!Constructed(r) = Constructed(r)
  /\ \A r : Unsafe!Destructed(r) = Destructed(r)
  /\ \A r, pc : Unsafe!StopBegun(r, pc) = StopBegun(r, pc)
  /\ \A r : Unsafe!CallbackReturned(r) = CallbackReturned(r)
  /\ Unsafe!Outside = Outside
BY DEF Unsafe!Begun, Begun, Unsafe!Returned, Returned, Unsafe!Nobody, Nobody, Unsafe!Outside, Outside,
       Unsafe!CompletedScheduled, CompletedScheduled, Unsafe!Completed, Completed, Unsafe!Constructed, Constructed,
       Unsafe!Destructed, Destructed, Unsafe!StopBegun, StopBegun, Unsafe!CallbackReturned, CallbackReturned

\* A step that leaves the lists alone.
LEMMA UnsafeSameLists ==
  /\ \A list, o : Unsafe!Unlink(list, o) = Unlink(list, o)
  /\ \A ops, list, o : Unsafe!InsertByDueTime(ops, list, o) = InsertByDueTime(ops, list, o)
<1>1. \A list, o : Unsafe!Unlink(list, o) = Unlink(list, o)
  BY DEF Unsafe!Unlink, Unlink, Unsafe!Items, Items, Unsafe!Position, Position
<1>2. \A list, k, o : Unsafe!Link(list, k, o) = Link(list, k, o)
  BY DEF Unsafe!Link, Link
<1>3. \A ops, list, due : Unsafe!FirstLater(ops, list, due) = FirstLater(ops, list, due)
  BY DEF Unsafe!FirstLater, FirstLater
<1>4. \A ops, list, o : Unsafe!InsertByDueTime(ops, list, o) = InsertByDueTime(ops, list, o)
  BY <1>2, <1>3 DEF Unsafe!InsertByDueTime, InsertByDueTime
<1> QED BY <1>1, <1>4

\* One operation and its place change.
UnsafeChange(o, r, list, item, pc, time) ==
  /\ r \in Operation /\ op' = [op EXCEPT ![o] = r]
  /\ list \in Seq(Ops) /\ Once(list) /\ item \in Tasks /\ pc \in UnsafePc
  /\ (pc = "item" <=> item # <<>>) /\ (pc = "sleep" => list # <<>>)
  /\ time \in Int /\ time <= ctx.now
  /\ ctx' = [ctx EXCEPT !.head_ = list, !.pc = pc, !.item = item, !.lastTime = time]
  /\ \A p \in Ops : p # o => (InList(list, p) <=> InList(ctx.head_, p)) /\ (item = <<p>> <=> ctx.item = <<p>>)
  /\ UnsafeOp(r, InList(list, o), item = <<o>>, ctx.now)

\* What has to be shown of a step that changes one operation.
LEMMA UnsafeChanges ==
  ASSUME UnsafeInv, NEW o \in Ops, NEW r, NEW list, NEW item, NEW pc, NEW time,
         UnsafeChange(o, r, list, item, pc, time)
  PROVE  UnsafeInv'
<1>0. op \in [Ops -> Operation] /\ ctx \in UnsafeCtx
  BY DEF UnsafeInv
<1>1. op' \in [Ops -> Operation] /\ op'[o] = r /\ \A p \in Ops : p # o => op'[p] = op[p]
  BY <1>0, OneChanges DEF UnsafeChange
<1>2. /\ ctx' \in UnsafeCtx /\ ctx'.head_ = list /\ ctx'.pc = pc /\ ctx'.item = item /\ ctx'.now = ctx.now
      /\ ctx'.lastTime = time
  BY <1>0 DEF UnsafeCtx, UnsafeChange
<1>3. ASSUME NEW p \in Ops
      PROVE  UnsafeOp(op'[p], InList(list, p), item = <<p>>, ctx.now)
  <2>1. CASE p = o
    BY <1>1, <2>1 DEF UnsafeChange
  <2>2. CASE p # o
    <3>1. UnsafeOp(op[p], InList(ctx.head_, p), ctx.item = <<p>>, ctx.now)
      BY DEF UnsafeInv
    <3>2. op'[p] = op[p] /\ (InList(list, p) <=> InList(ctx.head_, p)) /\ (item = <<p>> <=> ctx.item = <<p>>)
      BY <1>1, <2>2 DEF UnsafeChange
    <3> QED BY <3>1, <3>2 DEF UnsafeOp
  <2> QED BY <2>1, <2>2
<1>4. Once(list) /\ (pc = "item" <=> item # <<>>) /\ (pc = "sleep" => list # <<>>) /\ time <= ctx.now
  BY DEF UnsafeChange
<1> QED BY <1>1, <1>2, <1>3, <1>4 DEF UnsafeInv

\* User code runs, and changes an operation, which it may link as well.
LEMMA UnsafeUser ==
  ASSUME UnsafeInv, ctx.pc = "user"
  PROVE  /\ op \in [Ops -> Operation] /\ ctx \in UnsafeCtx /\ ctx.head_ \in Seq(Ops) /\ Once(ctx.head_)
         /\ ctx.item = <<>> /\ <<>> \in Tasks /\ "user" \in UnsafePc /\ ctx.now \in Int
         /\ ctx.lastTime \in Int /\ ctx.lastTime <= ctx.now
         /\ \A o \in Ops : UnsafeOp(op[o], InList(ctx.head_, o), FALSE, ctx.now)
<1>1. /\ op \in [Ops -> Operation] /\ ctx \in UnsafeCtx /\ ctx.head_ \in Seq(Ops) /\ Once(ctx.head_)
      /\ ctx.item = <<>> /\ <<>> \in Tasks /\ "user" \in UnsafePc /\ ctx.now \in Int
      /\ ctx.lastTime \in Int /\ ctx.lastTime <= ctx.now
  BY DEF UnsafeInv, UnsafeCtx, Tasks, UnsafePc
<1>2. ASSUME NEW o \in Ops
      PROVE  UnsafeOp(op[o], InList(ctx.head_, o), FALSE, ctx.now)
  <2>1. UnsafeOp(op[o], InList(ctx.head_, o), ctx.item = <<o>>, ctx.now)
    BY DEF UnsafeInv
  <2> QED BY <1>1, <2>1 DEF UnsafeOp
<1> QED BY <1>1, <1>2

\* A step of an operation within its phase.
LEMMA UnsafeMoves ==
  ASSUME UnsafeInv, ctx.pc = "user", NEW o \in Ops, NEW r \in Operation, op' = [op EXCEPT ![o] = r], ctx' = ctx,
         UnsafeOp(r, InList(ctx.head_, o), FALSE, ctx.now)
  PROVE  UnsafeInv'
<1>1. ctx' = [ctx EXCEPT !.head_ = ctx.head_, !.pc = "user", !.item = <<>>, !.lastTime = ctx.lastTime]
  BY UnsafeUser DEF UnsafeCtx
<1>2. UnsafeOp(r, InList(ctx.head_, o), <<>> = <<o>>, ctx.now)
  BY DEF UnsafeOp
<1>3. UnsafeChange(o, r, ctx.head_, <<>>, "user", ctx.lastTime)
  BY <1>1, <1>2, UnsafeUser DEF UnsafeChange
<1> QED BY <1>3, UnsafeChanges

\* start() links the timer at its place.
LEMMA UnsafeLink ==
  ASSUME UnsafeInv, ctx.pc = "user", NEW o \in Ops, NEW r \in Operation, op' = [op EXCEPT ![o] = r],
         NEW queue \in Seq(Ops), Once(queue), \A p \in Ops : InList(queue, p) <=> p # o /\ InList(ctx.head_, p),
         Unsafe!enqueue(queue, o), UnsafeOp(r, TRUE, FALSE, ctx.now)
  PROVE  UnsafeInv'
<1> DEFINE list == InsertByDueTime(op', queue, o)
<1>1. list \in Seq(Ops) /\ Once(list) /\ \A p \in Ops : InList(list, p) <=> p = o \/ InList(queue, p)
  BY InsertFacts
<1>2. ctx' = [ctx EXCEPT !.head_ = list, !.pc = "user", !.item = <<>>, !.lastTime = ctx.lastTime]
  BY UnsafeUser, UnsafeSameLists DEF UnsafeCtx, Unsafe!enqueue
<1> HIDE DEF list
<1>3. InList(list, o) /\ \A p \in Ops : p # o => (InList(list, p) <=> InList(ctx.head_, p))
  BY <1>1
<1>4. UnsafeOp(r, InList(list, o), <<>> = <<o>>, ctx.now)
  BY <1>3 DEF UnsafeOp
<1>5. UnsafeChange(o, r, list, <<>>, "user", ctx.lastTime)
  BY <1>1, <1>2, <1>3, <1>4, UnsafeUser DEF UnsafeChange
<1> QED BY <1>5, UnsafeChanges

\* start().
LEMMA UnsafeStart ==
  ASSUME UnsafeInv, NEW o \in Ops, Unsafe!start(o)
  PROVE  UnsafeInv'
<1>0. /\ op[o] \in Operation /\ op[o].life = "idle" /\ ~op[o].stopped /\ ctx.pc = "user"
      /\ UnsafeOp(op[o], InList(ctx.head_, o), FALSE, ctx.now) /\ Unsafe!enqueue(ctx.head_, o)
  BY UnsafeUser DEF Unsafe!start
<1>1. PICK due \in Unsafe!DueTimes :
        op' = [op EXCEPT ![o] = Returned(Constructed([Begun(op[o], Outside, "start") EXCEPT !.due = due]))]
  BY UnsafeSame DEF Unsafe!start
<1>2. due \in Int
  BY <1>0, UnsafeUser DEF Unsafe!DueTimes, Unsafe!Durations
<1> DEFINE b == Begun(op[o], Outside, "start")
           d == [b EXCEPT !.due = due]
           c == Constructed(d)
           r == Returned(c)
<1>3. /\ b \in Operation /\ b.life = "started" /\ b.kind = op[o].kind
      /\ b.signals = op[o].signals /\ b.stopped = op[o].stopped
  <2>1. Outside \in Callers /\ "start" \in Points
    BY DEF Callers, Points
  <2> QED BY <1>0, <2>1, BegunFacts
<1>4. /\ d \in Operation /\ d.life = "started" /\ d.kind = op[o].kind
      /\ d.signals = op[o].signals /\ d.stopped = op[o].stopped
  <2> HIDE DEF b
  <2> QED BY <1>2, <1>3, DueFacts
<1>5. /\ c \in Operation /\ c.life = "started" /\ c.kind = op[o].kind
      /\ c.signals = op[o].signals /\ c.stopped = op[o].stopped
  <2> HIDE DEF d
  <2> QED BY <1>4, ConstructedFacts
<1>6. /\ r \in Operation /\ r.life = "started" /\ r.kind = op[o].kind
      /\ r.signals = op[o].signals /\ r.stopped = op[o].stopped
  <2> HIDE DEF c
  <2> QED BY <1>5, ReturnedFacts
<1>7. op' = [op EXCEPT ![o] = r]
  BY <1>1
<1> HIDE DEF b, d, c, r
<1>8. r.signals = <<>> /\ ~InList(ctx.head_, o) /\ r.kind = "timed"
  BY <1>0, <1>6 DEF UnsafeOp, Signalled
<1>9. UnsafeOp(r, TRUE, FALSE, ctx.now)
  BY <1>6, <1>8 DEF UnsafeOp, Signalled
<1>10. \A p \in Ops : InList(ctx.head_, p) <=> p # o /\ InList(ctx.head_, p)
  BY <1>8
<1>11. ctx.head_ \in Seq(Ops) /\ Once(ctx.head_)
  BY <1>0, UnsafeUser
<1> QED BY <1>0, <1>6, <1>7, <1>9, <1>10, <1>11, UnsafeLink

\* A stop is requested of an operation.
LEMMA UnsafeStopped ==
  ASSUME UnsafeInv, NEW o \in Ops, Unsafe!RequestStop(o)
  PROVE  UnsafeInv'
<1> DEFINE b == StopBegun(op[o], "cancel")
           r == CallbackReturned(b)
           t == [r EXCEPT !.due = ctx.now]
<1>0. /\ op[o] \in Operation /\ ctx.pc = "user" /\ ctx.now \in Int /\ ctx.head_ \in Seq(Ops) /\ Once(ctx.head_)
      /\ UnsafeOp(op[o], InList(ctx.head_, o), FALSE, ctx.now)
  BY UnsafeUser DEF Unsafe!RequestStop
<1>1. /\ b \in Operation /\ b.stopped
      /\ op[o].cb # "set" => b.cb = op[o].cb
      /\ b.life = op[o].life /\ b.signals = op[o].signals /\ b.kind = op[o].kind /\ b.due = op[o].due
  <2>1. "cancel" \in Points
    BY DEF Points
  <2> QED BY <1>0, <2>1, StopBegunFacts
<1>2. /\ op[o].cb = "set" => Unsafe!cancel_callback(o, r)
      /\ op[o].cb # "set" => op' = [op EXCEPT ![o] = b] /\ ctx' = ctx
  BY UnsafeSame DEF Unsafe!RequestStop
<1>3. /\ r \in Operation /\ r.stopped
      /\ r.life = op[o].life /\ r.signals = op[o].signals /\ r.kind = op[o].kind /\ r.due = op[o].due
  <2> HIDE DEF b
  <2> QED BY <1>1, CallbackReturnedFacts
<1> HIDE DEF b, r
<1>4. CASE op[o].cb # "set"
  <2>1. UnsafeOp(b, InList(ctx.head_, o), FALSE, ctx.now)
    BY <1>0, <1>1, <1>4 DEF UnsafeOp, Signalled
  <2> QED BY <1>0, <1>1, <1>2, <1>4, <2>1, UnsafeMoves
<1>5. CASE op[o].cb = "set"
  <2>1. op[o].life = "started" /\ InList(ctx.head_, o)
    BY <1>0, <1>5 DEF UnsafeOp
  <2>2. CASE ctx.now < r.due
    <3>1. op' = [op EXCEPT ![o] = t] /\ Unsafe!enqueue(Unlink(ctx.head_, o), o)
      BY <1>2, <1>5, <2>2, UnsafeSameLists DEF Unsafe!cancel_callback
    <3>2. /\ t \in Operation /\ t.stopped /\ t.due = ctx.now
          /\ t.life = op[o].life /\ t.signals = op[o].signals /\ t.kind = op[o].kind
      BY <1>0, <1>3, DueFacts
    <3> HIDE DEF t
    <3>3. UnsafeOp(t, TRUE, FALSE, ctx.now)
      BY <1>0, <2>1, <3>2 DEF UnsafeOp, Signalled
    <3> DEFINE queue == Unlink(ctx.head_, o)
    <3>4. queue \in Seq(Ops) /\ Once(queue) /\ \A p \in Ops : InList(queue, p) <=> p # o /\ InList(ctx.head_, p)
      BY <1>0, UnlinkFacts
    <3>5. Unsafe!enqueue(queue, o)
      BY <3>1
    <3> HIDE DEF queue
    <3> QED BY <1>0, <3>1, <3>2, <3>3, <3>4, <3>5, UnsafeLink
  <2>3. CASE ~(ctx.now < r.due)
    <3>1. op' = [op EXCEPT ![o] = r] /\ ctx' = ctx
      BY <1>2, <1>5, <2>3 DEF Unsafe!cancel_callback
    <3>2. UnsafeOp(r, InList(ctx.head_, o), FALSE, ctx.now)
      BY <1>0, <1>3, <2>1 DEF UnsafeOp, Signalled
    <3> QED BY <1>0, <1>3, <3>1, <3>2, UnsafeMoves
  <2> QED BY <2>2, <2>3
<1> QED BY <1>4, <1>5

\* The loop takes the first item, which is due.
LEMMA UnsafePop ==
  ASSUME UnsafeInv, op' = op, ctx.pc \in {"loop", "sleep"}, ctx.head_ # <<>>, NEW time \in Int, time <= ctx.now,
         op[Head(ctx.head_)].due <= ctx.now, ctx' = Unsafe!PopHead(time)
  PROVE  UnsafeInv'
<1> DEFINE o == Head(ctx.head_)
           list == Tail(ctx.head_)
<1>0. /\ op \in [Ops -> Operation] /\ ctx \in UnsafeCtx /\ ctx.head_ \in Seq(Ops) /\ Once(ctx.head_)
      /\ ctx.item = <<>>
  BY DEF UnsafeInv, UnsafeCtx
<1>1. /\ o \in Ops /\ list \in Seq(Ops) /\ InList(ctx.head_, o) /\ Once(list) /\ ~InList(list, o)
      /\ \A p \in Ops : InList(ctx.head_, p) <=> p = o \/ InList(list, p)
  BY <1>0, TailFacts
<1>2. ctx' = [ctx EXCEPT !.head_ = list, !.pc = "item", !.item = <<o>>, !.lastTime = time]
  BY <1>0 DEF Unsafe!PopHead, UnsafeCtx
<1>3. UnsafeOp(op[o], InList(ctx.head_, o), ctx.item = <<o>>, ctx.now) /\ op[o] \in Operation
  BY <1>0, <1>1 DEF UnsafeInv
<1>4. op[o].due <= ctx.now
  OBVIOUS
<1> HIDE DEF o, list
<1>5. UnsafeOp(op[o], InList(list, o), <<o>> = <<o>>, ctx.now)
  BY <1>0, <1>1, <1>3, <1>4 DEF UnsafeOp
<1>6. op' = [op EXCEPT ![o] = op[o]]
  BY <1>0, <1>1
<1>7. <<o>> \in Tasks /\ <<o>> # <<>> /\ "item" \in UnsafePc /\ \A p \in Ops : p # o => <<o>> # <<p>> /\ ctx.item # <<p>>
  BY <1>0, <1>1 DEF Tasks, UnsafePc
<1>8. UnsafeChange(o, op[o], list, <<o>>, "item", time)
  BY <1>1, <1>2, <1>3, <1>5, <1>6, <1>7 DEF UnsafeChange
<1> QED BY <1>1, <1>8, UnsafeChanges

\* The loop takes the first timer that is due, or sleeps.
LEMMA UnsafeLoop ==
  ASSUME UnsafeInv, Unsafe!Loop \/ Unsafe!Sleep
  PROVE  UnsafeInv'
<1>0. /\ op \in [Ops -> Operation] /\ ctx \in UnsafeCtx /\ ctx.head_ \in Seq(Ops) /\ Once(ctx.head_)
      /\ ctx.pc \in {"loop", "sleep"} /\ ctx.item = <<>> /\ op' = op /\ ctx.now \in Int
      /\ ctx.lastTime \in Int /\ ctx.lastTime <= ctx.now
  BY DEF UnsafeInv, UnsafeCtx, Unsafe!Loop, Unsafe!Sleep
<1>1. ASSUME NEW pc \in {"user", "sleep"}, pc = "sleep" => ctx.head_ # <<>>, NEW b \in BOOLEAN,
             ctx' = [ctx EXCEPT !.pc = pc, !.running = b]
      PROVE  UnsafeInv'
  <2>0. pc \in UnsafePc
    BY <1>1 DEF UnsafePc
  <2>1. /\ ctx' \in UnsafeCtx /\ ctx'.head_ = ctx.head_ /\ ctx'.item = ctx.item /\ ctx'.now = ctx.now
        /\ ctx'.pc = pc /\ ctx'.lastTime = ctx.lastTime
    BY <1>0, <1>1, <2>0 DEF UnsafeCtx
  <2>2. pc # "item"
    BY <1>1
  <2> QED BY <1>0, <1>1, <2>1, <2>2 DEF UnsafeInv
<1>2. CASE Unsafe!Loop
  <2> DEFINE due == op[Head(ctx.head_)].due
  <2>1. CASE ctx.head_ = <<>>
    <3>1. ctx' = [ctx EXCEPT !.pc = "user", !.running = FALSE]
      BY <1>2, <2>1 DEF Unsafe!Loop
    <3> QED BY Zenon, <1>1, <3>1
  <2>2. CASE ctx.head_ # <<>>
    <3>0. due \in Int
      <4>1. Head(ctx.head_) \in Ops
        BY <1>0, <2>2
      <4> QED BY <1>0, <4>1 DEF Operation
    <3>1. CASE due <= ctx.lastTime
      <4>1. ctx' = Unsafe!PopHead(ctx.lastTime)
        BY <1>2, <2>2, <3>1 DEF Unsafe!Loop
      <4>2. due <= ctx.now
        BY <1>0, <3>0, <3>1
      <4> QED BY <1>0, <2>2, <4>1, <4>2, UnsafePop
    <3>2. CASE ~(due <= ctx.lastTime) /\ due <= ctx.now
      <4>1. ctx' = Unsafe!PopHead(ctx.now)
        BY <1>2, <2>2, <3>2 DEF Unsafe!Loop
      <4>2. ctx.now <= ctx.now
        BY <1>0
      <4> QED BY <1>0, <2>2, <3>2, <4>1, <4>2, UnsafePop
    <3>3. CASE ~(due <= ctx.lastTime) /\ ~(due <= ctx.now)
      <4>1. ctx' = [ctx EXCEPT !.pc = "sleep", !.running = ctx.running] /\ ctx.running \in BOOLEAN
        BY <1>0, <1>2, <2>2, <3>3 DEF Unsafe!Loop, UnsafeCtx
      <4> QED BY Zenon, <1>1, <2>2, <4>1
    <3> QED BY <3>1, <3>2, <3>3
  <2> QED BY <2>1, <2>2
<1>3. CASE Unsafe!Sleep
  <2>1. ctx.head_ # <<>> /\ op[Head(ctx.head_)].due <= ctx.now /\ ctx' = Unsafe!PopHead(ctx.now) /\ ctx.now <= ctx.now
    BY <1>0, <1>3 DEF UnsafeInv, Unsafe!Sleep
  <2> QED BY <1>0, <2>1, UnsafePop
<1> QED BY <1>2, <1>3

\* The operation is completed and leaves.
LEMMA UnsafeExecute ==
  ASSUME UnsafeInv, Unsafe!execute_impl
  PROVE  UnsafeInv'
<1>0. /\ op \in [Ops -> Operation] /\ ctx \in UnsafeCtx /\ ctx.head_ \in Seq(Ops) /\ Once(ctx.head_)
      /\ ctx.item \in Tasks /\ ctx.item # <<>> /\ ctx.lastTime \in Int /\ ctx.lastTime <= ctx.now
  BY DEF UnsafeInv, UnsafeCtx, Unsafe!execute_impl
<1>1. PICK o \in Ops : ctx.item = <<o>> /\ ctx.item[1] = o
  BY <1>0 DEF Tasks
<1>2. op[o] \in Operation /\ UnsafeOp(op[o], InList(ctx.head_, o), TRUE, ctx.now)
  BY <1>0, <1>1 DEF UnsafeInv
<1> DEFINE d == Destructed(op[o])
           r == CompletedScheduled(d)
<1>3. /\ d \in Operation /\ d.cb = "none"
      /\ d.life = op[o].life /\ d.signals = op[o].signals /\ d.stopped = op[o].stopped
      /\ d.kind = op[o].kind /\ d.due = op[o].due
  BY <1>2, DestructedFacts
<1>4. d.signals = <<>>
  BY <1>2, <1>3 DEF UnsafeOp, Signalled
<1>5. op' = [op EXCEPT ![o] = r] /\ ctx' = [ctx EXCEPT !.pc = "user", !.item = <<>>]
  BY <1>1, UnsafeSame DEF Unsafe!execute_impl
<1> HIDE DEF d
<1>6. /\ r \in Operation /\ r.life = "completed" /\ r.signals = <<IF d.stopped THEN "done" ELSE "value">>
      /\ r.kind = d.kind /\ r.stopped = d.stopped /\ r.cb = d.cb /\ r.due = d.due
  BY <1>3, <1>4, CompletedScheduledFacts
<1> HIDE DEF r
<1>7. UnsafeOp(r, InList(ctx.head_, o), FALSE, ctx.now)
  BY <1>2, <1>3, <1>6 DEF UnsafeOp, Signalled
<1>8. ctx' = [ctx EXCEPT !.head_ = ctx.head_, !.pc = "user", !.item = <<>>, !.lastTime = ctx.lastTime]
  BY <1>0, <1>5 DEF UnsafeCtx
<1>9. <<>> \in Tasks /\ "user" \in UnsafePc /\ \A p \in Ops : <<>> # <<p>> /\ (p # o => ctx.item # <<p>>)
  BY <1>1 DEF Tasks, UnsafePc
<1>10. UnsafeOp(r, InList(ctx.head_, o), <<>> = <<o>>, ctx.now)
  BY <1>7, <1>9 DEF UnsafeOp
<1>11. UnsafeChange(o, r, ctx.head_, <<>>, "user", ctx.lastTime)
  BY <1>0, <1>5, <1>6, <1>8, <1>9, <1>10 DEF UnsafeChange
<1> QED BY <1>11, UnsafeChanges

\* The other steps.
LEMMA UnsafeRest ==
  ASSUME UnsafeInv, Unsafe!run \/ Unsafe!UserCodeReturns \/ Unsafe!Tick \/ Unsafe!Destroy
  PROVE  UnsafeInv'
<1>0. /\ op \in [Ops -> Operation] /\ ctx \in UnsafeCtx /\ ctx.now \in Int /\ ctx.pc \in UnsafePc /\ op' = op
      /\ ctx.lastTime \in Int /\ ctx.lastTime <= ctx.now /\ ctx.running \in BOOLEAN /\ ctx.destroyed \in BOOLEAN
      /\ "loop" \in UnsafePc /\ ctx.now <= ctx.now
  BY DEF UnsafeInv, UnsafeCtx, UnsafePc, Unsafe!run, Unsafe!UserCodeReturns, Unsafe!Tick, Unsafe!Destroy
<1>1. PICK pc \in UnsafePc, now \in Int, time \in Int, running \in BOOLEAN, destroyed \in BOOLEAN :
        /\ ctx' = [ctx EXCEPT !.pc = pc, !.now = now, !.lastTime = time, !.running = running,
                              !.destroyed = destroyed]
        /\ ctx.now <= now /\ time <= now /\ (pc = "item" <=> ctx.pc = "item") /\ (pc = "sleep" <=> ctx.pc = "sleep")
  <2>1. CASE Unsafe!run
    <3>1. /\ ctx' = [ctx EXCEPT !.pc = "loop", !.now = ctx.now, !.lastTime = ctx.now, !.running = TRUE,
                                !.destroyed = ctx.destroyed]
          /\ ctx.pc = "user"
      BY <1>0, <2>1 DEF Unsafe!run, UnsafeCtx
    <3> QED BY Zenon, <1>0, <3>1
  <2>2. CASE Unsafe!UserCodeReturns
    <3>1. /\ ctx' = [ctx EXCEPT !.pc = "loop", !.now = ctx.now, !.lastTime = ctx.lastTime, !.running = ctx.running,
                                !.destroyed = ctx.destroyed]
          /\ ctx.pc = "user"
      BY <1>0, <2>2 DEF Unsafe!UserCodeReturns, UnsafeCtx
    <3> QED BY Zenon, <1>0, <3>1
  <2>3. CASE Unsafe!Tick
    <3>1. ctx' = [ctx EXCEPT !.pc = ctx.pc, !.now = ctx.now + 1, !.lastTime = ctx.lastTime,
                             !.running = ctx.running, !.destroyed = ctx.destroyed]
      BY <1>0, <2>3 DEF Unsafe!Tick, UnsafeCtx
    <3>2. ctx.now + 1 \in Int /\ ctx.now <= ctx.now + 1 /\ ctx.lastTime <= ctx.now + 1
      BY <1>0
    <3> QED BY Zenon, <1>0, <3>1, <3>2
  <2>4. CASE Unsafe!Destroy
    <3>1. ctx' = [ctx EXCEPT !.pc = ctx.pc, !.now = ctx.now, !.lastTime = ctx.lastTime,
                             !.running = ctx.running, !.destroyed = TRUE]
      BY <1>0, <2>4 DEF Unsafe!Destroy, UnsafeCtx
    <3> QED BY Zenon, <1>0, <3>1
  <2> QED BY Zenon, <2>1, <2>2, <2>3, <2>4
<1>2. /\ ctx' \in UnsafeCtx /\ ctx'.head_ = ctx.head_ /\ ctx'.item = ctx.item /\ ctx'.now = now /\ ctx'.pc = pc
      /\ ctx'.lastTime = time
  BY <1>0, <1>1 DEF UnsafeCtx
<1>3. ASSUME NEW o \in Ops
      PROVE  UnsafeOp(op[o], InList(ctx.head_, o), ctx.item = <<o>>, now)
  <2>1. UnsafeOp(op[o], InList(ctx.head_, o), ctx.item = <<o>>, ctx.now) /\ op[o].due \in Int
    BY <1>0 DEF UnsafeInv, Operation
  <2> QED BY <1>0, <1>1, <2>1 DEF UnsafeOp
<1> QED BY <1>0, <1>1, <1>2, <1>3 DEF UnsafeInv

\* The initial states.
LEMMA UnsafeStarts == ASSUME Unsafe!Init PROVE UnsafeInv
<1>1. op \in [Ops -> {NewOp("timed")}]
  BY DEF Unsafe!Init, Unsafe!NewOp, NewOp, Unsafe!Nobody, Nobody
<1> DEFINE new == NewOp("timed")
<1>2. /\ new \in Operation /\ new.life = "idle" /\ Signalled(new) /\ new.kind = "timed" /\ new.cb = "none"
      /\ new.signals = <<>>
  BY NewFacts
<1> HIDE DEF new
<1>3. op \in [Ops -> Operation] /\ \A o \in Ops : op[o] = new
  BY <1>1, <1>2 DEF new
<1>4. /\ ctx.head_ = <<>> /\ ctx.item = <<>> /\ ctx.pc = "user" /\ ctx \in UnsafeCtx /\ ctx.lastTime <= ctx.now
  BY DEF Unsafe!Init, UnsafeCtx, UnsafePc, Tasks
<1>5. Once(ctx.head_) /\ \A o \in Ops : ~InList(ctx.head_, o) /\ ctx.item # <<o>>
  BY <1>4 DEF Once, InList
<1>6. \A o \in Ops : UnsafeOp(op[o], InList(ctx.head_, o), ctx.item = <<o>>, ctx.now)
  BY <1>2, <1>3, <1>5 DEF UnsafeOp
<1> QED BY <1>3, <1>4, <1>5, <1>6 DEF UnsafeInv

\* Every step keeps the invariant.
LEMMA UnsafeNext == ASSUME UnsafeInv, Unsafe!Next PROVE UnsafeInv'
BY UnsafeStart, UnsafeStopped, UnsafeLoop, UnsafeExecute, UnsafeRest DEF Unsafe!Next, Unsafe!System, Unsafe!User
-----------------------------------------------------------------------------
\* static_thread_pool.  A started operation is with the start() that is
\* about to push it, in one of the queues, or with the thread that runs it.
Queued(queues, o) == \E q \in Workers : InList(queues[q], o)
OneQueue(queues) ==
  /\ \A q \in Workers : Once(queues[q])
  /\ \A q, v \in Workers, o \in Ops : InList(queues[q], o) /\ InList(queues[v], o) => q = v
Pushes == {"try_push", "push", "pushing"}
PoolQueues == [Workers -> Seq(Ops)]
PoolPc == [Workers -> {"try", "trying", "pop", "task", "user", "waiting", "returned"}]
PoolCtx ==
  [mut_ : [Workers -> {0} \cup Workers \cup Ops], queue_ : PoolQueues, stopRequested_ : [Workers -> BOOLEAN],
   stopper : Nat, nextThread_ : Int, destroyed : BOOLEAN, push : [Ops -> [index : Int, i : Int]],
   pc : PoolPc, i : [Workers -> Int], task : [Workers -> Tasks]]
PoolOp(r, queued, running) ==
  /\ Plain(r)
  /\ r.life = "started" <=> r.start \in Pushes \/ queued \/ running
  /\ ~(r.start \in Pushes /\ (queued \/ running)) /\ ~(queued /\ running)
PoolInv ==
  /\ op \in [Ops -> Operation] /\ ctx \in PoolCtx
  /\ OneQueue(ctx.queue_) /\ TaskOfOne(ctx.task)
  /\ \A w \in Workers : ctx.pc[w] = "task" <=> ctx.task[w] # <<>>
  /\ \A o \in Ops : PoolOp(op[o], Queued(ctx.queue_, o), InTask(ctx.task, o))

\* A step that changes nothing the invariant is about.
LEMMA PoolSame ==
  /\ \A r, by, pc : Pool!Begun(r, by, pc) = Begun(r, by, pc)
  /\ \A r : Pool!Returned(r) = Returned(r)
  /\ \A r : Pool!CompletedScheduled(r) = CompletedScheduled(r)
  /\ Pool!Outside = Outside
BY DEF Pool!Begun, Begun, Pool!Returned, Returned, Pool!Nobody, Nobody, Pool!Outside, Outside,
       Pool!CompletedScheduled, CompletedScheduled, Pool!Completed, Completed

\* The queue that a thread looks at next is one of the queues.
LEMMA PoolAt ==
  /\ Pool!N \in Nat \ {0} /\ Workers = 1 .. Pool!N
  /\ \A index, i \in Int : Pool!At(index, i) \in Workers
  /\ \A i \in Int : i % Pool!N \in Int
<1>0. Pool!N = Cardinality(Workers)
  BY DEF Pool!N, Pool!Cardinality, Cardinality
<1>1. Pool!N \in Nat /\ Workers = 1 .. Pool!N
  BY <1>0, ContextsAssumption, FS_CardinalityType
<1>2. Pool!N # 0
  BY <1>1, ContextsAssumption
<1>3. \A i \in Int : i % Pool!N \in 0 .. Pool!N - 1
  BY <1>1, <1>2
<1>4. ASSUME NEW index \in Int, NEW i \in Int
      PROVE  Pool!At(index, i) \in Workers
  <2>1. index + i - 1 \in Int
    OBVIOUS
  <2> DEFINE k == (index + i - 1) % Pool!N
  <2>2. k \in 0 .. Pool!N - 1
    BY <1>3, <2>1
  <2>3. Pool!At(index, i) = k + 1
    BY DEF Pool!At
  <2> HIDE DEF k
  <2>4. k + 1 \in 1 .. Pool!N
    BY <1>1, <2>2
  <2> QED BY <1>1, <2>3, <2>4
<1> QED BY <1>1, <1>2, <1>3, <1>4

\* What the queues are after a push and after a pop.
LEMMA QueuePush ==
  ASSUME NEW queues \in PoolQueues, OneQueue(queues), NEW q \in Workers, NEW o \in Ops, ~Queued(queues, o)
  PROVE  LET t == [queues EXCEPT ![q] = Append(queues[q], o)] IN
         t \in PoolQueues /\ OneQueue(t) /\ \A p \in Ops : Queued(t, p) <=> p = o \/ Queued(queues, p)
<1> DEFINE list == Append(queues[q], o)
           t == [queues EXCEPT ![q] = list]
<1>1. queues[q] \in Seq(Ops) /\ Once(queues[q]) /\ ~InList(queues[q], o)
  BY DEF PoolQueues, OneQueue, Queued
<1>2. list \in Seq(Ops) /\ Once(list) /\ \A p \in Ops : InList(list, p) <=> p = o \/ InList(queues[q], p)
  BY <1>1, AppendFacts
<1> HIDE DEF list
<1>3. t \in PoolQueues /\ t[q] = list /\ \A v \in Workers : v # q => t[v] = queues[v]
  BY <1>2 DEF PoolQueues
<1> HIDE DEF t
<1>4. \A p \in Ops : Queued(t, p) <=> p = o \/ Queued(queues, p)
  BY <1>2, <1>3 DEF Queued
<1>5. \A v \in Workers : Once(t[v])
  BY <1>2, <1>3 DEF OneQueue
<1>6. ASSUME NEW u \in Workers, NEW v \in Workers, NEW p \in Ops, InList(t[u], p), InList(t[v], p)
      PROVE  u = v
  <2>1. CASE p = o
    BY <1>3, <1>6, <2>1 DEF Queued
  <2>2. CASE p # o
    <3>1. InList(queues[u], p) /\ InList(queues[v], p)
      BY <1>2, <1>3, <1>6, <2>2
    <3> QED BY <3>1 DEF OneQueue
  <2> QED BY <2>1, <2>2
<1>7. OneQueue(t)
  BY <1>5, <1>6 DEF OneQueue
<1> QED BY <1>3, <1>4, <1>7 DEF t, list

\* Taking the first item of a queue.
LEMMA QueuePop ==
  ASSUME NEW queues \in PoolQueues, OneQueue(queues), NEW q \in Workers, queues[q] # <<>>
  PROVE  LET o == Head(queues[q])
             t == [queues EXCEPT ![q] = Tail(queues[q])] IN
         /\ o \in Ops /\ Queued(queues, o)
         /\ t \in PoolQueues /\ OneQueue(t) /\ \A p \in Ops : Queued(t, p) <=> p # o /\ Queued(queues, p)
<1> DEFINE o == Head(queues[q])
           list == Tail(queues[q])
           t == [queues EXCEPT ![q] = list]
<1>1. queues[q] \in Seq(Ops) /\ Once(queues[q])
  BY DEF PoolQueues, OneQueue
<1>2. /\ o \in Ops /\ list \in Seq(Ops) /\ Once(list) /\ InList(queues[q], o) /\ ~InList(list, o)
      /\ \A p \in Ops : InList(queues[q], p) <=> p = o \/ InList(list, p)
  BY <1>1, TailFacts
<1> HIDE DEF o, list
<1>3. t \in PoolQueues /\ t[q] = list /\ \A v \in Workers : v # q => t[v] = queues[v]
  BY <1>2 DEF PoolQueues
<1> HIDE DEF t
<1>4. Queued(queues, o)
  BY <1>2 DEF Queued
<1>5. \A v \in Workers : InList(t[v], o) => FALSE
  BY <1>2, <1>3 DEF OneQueue
<1>6. \A p \in Ops : p # o => (Queued(t, p) <=> Queued(queues, p))
  <2> TAKE p \in Ops
  <2> HAVE p # o
  <2>1. \A v \in Workers : InList(t[v], p) <=> InList(queues[v], p)
    BY <1>2, <1>3
  <2> QED BY <2>1 DEF Queued
<1>7. OneQueue(t)
  <2>1. \A v \in Workers : Once(t[v])
    BY <1>2, <1>3 DEF OneQueue
  <2>2. \A v \in Workers, p \in Ops : InList(t[v], p) => InList(queues[v], p)
    BY <1>2, <1>3
  <2> QED BY <2>1, <2>2 DEF OneQueue
<1>8. \A p \in Ops : Queued(t, p) <=> p # o /\ Queued(queues, p)
  BY <1>5, <1>6 DEF Queued
<1> QED BY <1>2, <1>3, <1>4, <1>7, <1>8 DEF t, list, o

\* One operation and its place change.
PoolChange(o, r) ==
  /\ r \in Operation /\ op' = [op EXCEPT ![o] = r]
  /\ ctx' \in PoolCtx /\ OneQueue(ctx'.queue_) /\ TaskOfOne(ctx'.task)
  /\ \A w \in Workers : ctx'.pc[w] = "task" <=> ctx'.task[w] # <<>>
  /\ \A p \in Ops : p # o => /\ Queued(ctx'.queue_, p) <=> Queued(ctx.queue_, p)
                             /\ InTask(ctx'.task, p) <=> InTask(ctx.task, p)
  /\ PoolOp(r, Queued(ctx'.queue_, o), InTask(ctx'.task, o))

\* What has to be shown of a step that changes one operation.
LEMMA PoolChanges ==
  ASSUME PoolInv, NEW o \in Ops, NEW r, PoolChange(o, r)
  PROVE  PoolInv'
<1>0. op \in [Ops -> Operation]
  BY DEF PoolInv
<1>1. op' \in [Ops -> Operation] /\ op'[o] = r /\ \A p \in Ops : p # o => op'[p] = op[p]
  BY <1>0, OneChanges DEF PoolChange
<1>2. ASSUME NEW p \in Ops
      PROVE  PoolOp(op'[p], Queued(ctx'.queue_, p), InTask(ctx'.task, p))
  <2>1. CASE p = o
    BY <1>1, <2>1 DEF PoolChange
  <2>2. CASE p # o
    <3>1. PoolOp(op[p], Queued(ctx.queue_, p), InTask(ctx.task, p))
      BY DEF PoolInv
    <3>2. /\ op'[p] = op[p] /\ (Queued(ctx'.queue_, p) <=> Queued(ctx.queue_, p))
          /\ (InTask(ctx'.task, p) <=> InTask(ctx.task, p))
      BY <1>1, <2>2 DEF PoolChange
    <3> QED BY <3>1, <3>2 DEF PoolOp
  <2> QED BY <2>1, <2>2
<1>3. /\ ctx' \in PoolCtx /\ OneQueue(ctx'.queue_) /\ TaskOfOne(ctx'.task)
      /\ \A w \in Workers : ctx'.pc[w] = "task" <=> ctx'.task[w] # <<>>
  BY DEF PoolChange
<1> QED BY <1>1, <1>2, <1>3 DEF PoolInv

\* The operation moves on in start().
LEMMA PoolMoves ==
  ASSUME PoolInv, NEW o \in Ops, NEW r \in Operation, op' = [op EXCEPT ![o] = r],
         ctx' \in PoolCtx, ctx'.queue_ = ctx.queue_, ctx'.task = ctx.task, ctx'.pc = ctx.pc,
         Plain(r), r.life = "started", r.start \in Pushes,
         op[o].life = "idle" \/ op[o].start \in Pushes
  PROVE  PoolInv'
<1>1. ~Queued(ctx.queue_, o) /\ ~InTask(ctx.task, o)
  BY DEF PoolInv, PoolOp, Plain, Pushes
<1>2. OneQueue(ctx.queue_) /\ TaskOfOne(ctx.task) /\ \A w \in Workers : ctx.pc[w] = "task" <=> ctx.task[w] # <<>>
  BY DEF PoolInv
<1>3. PoolOp(r, Queued(ctx.queue_, o), InTask(ctx.task, o))
  BY <1>1 DEF PoolOp
<1>4. PoolChange(o, r)
  BY <1>2, <1>3 DEF PoolChange
<1> QED BY <1>4, PoolChanges

\* Nothing happens to the operations and their places.
LEMMA PoolStays ==
  ASSUME PoolInv, op' = op, ctx' \in PoolCtx, ctx'.queue_ = ctx.queue_, ctx'.task = ctx.task,
         \A w \in Workers : ctx'.pc[w] = "task" <=> ctx.pc[w] = "task"
  PROVE  PoolInv'
BY DEF PoolInv

\* start().
LEMMA PoolStart ==
  ASSUME PoolInv, NEW o \in Ops, Pool!start(o)
  PROVE  PoolInv'
<1>0. /\ op[o] \in Operation /\ Plain(op[o]) /\ op[o].life = "idle" /\ ctx \in PoolCtx /\ ctx.nextThread_ \in Int
      /\ ctx.push \in [Ops -> [index : Int, i : Int]]
  BY DEF PoolInv, PoolCtx, PoolOp, Pool!start
<1>1. PICK by \in Pool!Starters : op' = [op EXCEPT ![o] = Begun(op[o], by, "try_push")]
  BY PoolSame DEF Pool!start
<1> DEFINE r == Begun(op[o], by, "try_push")
<1>2. r \in Operation /\ Plain(r) /\ r.life = "started" /\ r.start = "try_push"
  <2>1. by \in Callers /\ "try_push" \in Points
    BY PoolSame DEF Callers, Points, Pool!Starters
  <2> QED BY <1>0, <2>1, PlainBegun
<1> DEFINE position == [index |-> ctx.nextThread_ + 1, i |-> 0]
           push == [ctx.push EXCEPT ![o] = position]
           next == (ctx.nextThread_ + 1) % Pool!N
<1>3. push \in [Ops -> [index : Int, i : Int]] /\ next \in Int
  <2>1. ctx.nextThread_ + 1 \in Int /\ position \in [index : Int, i : Int]
    BY <1>0
  <2> HIDE DEF position
  <2> QED BY <1>0, <2>1, PoolAt
<1>4. ctx' = [ctx EXCEPT !.push = push, !.nextThread_ = next]
  BY <1>0 DEF Pool!start, PoolCtx
<1> HIDE DEF push, next
<1>5. ctx' \in PoolCtx /\ ctx'.queue_ = ctx.queue_ /\ ctx'.task = ctx.task /\ ctx'.pc = ctx.pc
  BY <1>0, <1>3, <1>4 DEF PoolCtx
<1>6. op' = [op EXCEPT ![o] = r]
  BY <1>1
<1> HIDE DEF r
<1>7. r.start \in Pushes
  BY <1>2 DEF Pushes
<1> QED BY <1>0, <1>2, <1>5, <1>6, <1>7, PoolMoves

\* try_push(): the queue is locked by another thread, or takes the item.
LEMMA PoolTryPush ==
  ASSUME PoolInv, NEW o \in Ops, Pool!try_push(o) \/ Pool!push(o)
  PROVE  PoolInv'
<1>0. /\ op \in [Ops -> Operation] /\ op[o] \in Operation /\ ctx \in PoolCtx /\ ctx.push \in [Ops -> [index : Int, i : Int]]
      /\ ctx.mut_ \in [Workers -> {0} \cup Workers \cup Ops] /\ PoolOp(op[o], Queued(ctx.queue_, o), InTask(ctx.task, o))
  BY DEF PoolInv, PoolCtx
<1>1. op[o].start \in Pushes
  BY DEF Pushes, Pool!try_push, Pool!push
<1>2. Plain(op[o]) /\ op[o].life = "started"
  BY <1>0, <1>1 DEF PoolOp
<1>3. ASSUME NEW pc \in Pushes, op' = [op EXCEPT ![o].start = pc],
             ctx' \in PoolCtx, ctx'.queue_ = ctx.queue_, ctx'.task = ctx.task, ctx'.pc = ctx.pc
      PROVE  PoolInv'
  <2> DEFINE r == [op[o] EXCEPT !.start = pc]
  <2>1. r \in Operation /\ Plain(r) /\ r.life = "started" /\ r.start = pc
    <3>1. pc \in Points
      BY DEF Points, Pushes
    <3> QED BY <1>0, <1>2, <3>1, PlainMoves
  <2>2. op' = [op EXCEPT ![o] = r]
    BY <1>3
  <2> HIDE DEF r
  <2> QED BY <1>1, <1>3, <2>1, <2>2, PoolMoves
<1>4. \A q \in Workers : LET c == [ctx EXCEPT !.mut_[q] = o] IN
        c \in PoolCtx /\ c.queue_ = ctx.queue_ /\ c.task = ctx.task /\ c.pc = ctx.pc
  <2> TAKE q \in Workers
  <2> DEFINE mut == [ctx.mut_ EXCEPT ![q] = o]
             c == [ctx EXCEPT !.mut_ = mut]
  <2>1. mut \in [Workers -> {0} \cup Workers \cup Ops]
    BY <1>0
  <2> HIDE DEF mut
  <2>2. c \in PoolCtx /\ c.queue_ = ctx.queue_ /\ c.task = ctx.task /\ c.pc = ctx.pc
    BY <1>0, <2>1 DEF PoolCtx
  <2>3. [ctx EXCEPT !.mut_[q] = o] = c
    BY <1>0 DEF PoolCtx, mut
  <2> QED BY <2>2, <2>3
<1>5. \A i \in Int : LET c == [ctx EXCEPT !.push[o].i = i] IN
        c \in PoolCtx /\ c.queue_ = ctx.queue_ /\ c.task = ctx.task /\ c.pc = ctx.pc
  <2> TAKE i \in Int
  <2> DEFINE position == [ctx.push[o] EXCEPT !.i = i]
             push == [ctx.push EXCEPT ![o] = position]
             c == [ctx EXCEPT !.push = push]
  <2>1. position \in [index : Int, i : Int]
    BY <1>0
  <2> HIDE DEF position
  <2>2. push \in [Ops -> [index : Int, i : Int]]
    BY <1>0, <2>1
  <2> HIDE DEF push
  <2>3. c \in PoolCtx /\ c.queue_ = ctx.queue_ /\ c.task = ctx.task /\ c.pc = ctx.pc
    BY <1>0, <2>2 DEF PoolCtx
  <2>4. [ctx EXCEPT !.push[o].i = i] = c
    BY <1>0 DEF PoolCtx, push, position
  <2> QED BY <2>3, <2>4
<1>6. CASE Pool!try_push(o)
  <2> DEFINE q == Pool!At(ctx.push[o].index, ctx.push[o].i)
  <2>0. q \in Workers /\ ctx.push[o].i + 1 \in Int /\ 0 \in Int /\ "push" \in Pushes /\ "pushing" \in Pushes
    <3>1. ctx.push[o].index \in Int /\ ctx.push[o].i \in Int
      BY <1>0
    <3>2. ctx.push[o].i + 1 \in Int
      BY <3>1
    <3>3. "push" \in Pushes /\ "pushing" \in Pushes
      BY DEF Pushes
    <3>4. q \in Workers
      BY <3>1, PoolAt
    <3> HIDE DEF q
    <3> QED BY <3>2, <3>3, <3>4
  <2>1. \/ op' = [op EXCEPT ![o].start = "pushing"] /\ ctx' = [ctx EXCEPT !.mut_[q] = o]
        \/ ctx' = [ctx EXCEPT !.push[o].i = ctx.push[o].i + 1] /\ op' = op
        \/ op' = [op EXCEPT ![o].start = "push"] /\ ctx' = [ctx EXCEPT !.push[o].i = 0]
    BY <1>6 DEF Pool!try_push
  <2> HIDE DEF q
  <2>2. CASE op' = [op EXCEPT ![o].start = "pushing"] /\ ctx' = [ctx EXCEPT !.mut_[q] = o]
    BY <1>3, <1>4, <2>0, <2>2
  <2>3. CASE ctx' = [ctx EXCEPT !.push[o].i = ctx.push[o].i + 1] /\ op' = op
    <3>1. ctx' \in PoolCtx /\ ctx'.queue_ = ctx.queue_ /\ ctx'.task = ctx.task /\ ctx'.pc = ctx.pc
      BY <1>5, <2>0, <2>3
    <3> QED BY <2>3, <3>1, PoolStays
  <2>4. CASE op' = [op EXCEPT ![o].start = "push"] /\ ctx' = [ctx EXCEPT !.push[o].i = 0]
    <3>1. ctx' \in PoolCtx /\ ctx'.queue_ = ctx.queue_ /\ ctx'.task = ctx.task /\ ctx'.pc = ctx.pc
      BY <1>5, <2>0, <2>4
    <3> QED BY <1>3, <2>0, <2>4, <3>1
  <2> QED BY <2>1, <2>2, <2>3, <2>4
<1>7. CASE Pool!push(o)
  <2> DEFINE q == Pool!At(ctx.push[o].index, 0)
  <2>0. q \in Workers /\ "pushing" \in Pushes
    <3>1. ctx.push[o].index \in Int /\ 0 \in Int
      BY <1>0
    <3>2. "pushing" \in Pushes
      BY DEF Pushes
    <3> QED BY <3>1, <3>2, PoolAt
  <2>1. op' = [op EXCEPT ![o].start = "pushing"] /\ ctx' = [ctx EXCEPT !.mut_[q] = o]
    BY <1>7 DEF Pool!push
  <2> HIDE DEF q
  <2> QED BY <1>3, <1>4, <2>0, <2>1
<1> QED BY <1>6, <1>7

\* The push that waits for the lock.
LEMMA PoolPushBack ==
  ASSUME PoolInv, NEW o \in Ops, Pool!push_back(o)
  PROVE  PoolInv'
<1> DEFINE q == Pool!At(ctx.push[o].index, ctx.push[o].i)
           r == Returned(op[o])
           mut == [ctx.mut_ EXCEPT ![q] = 0]
           queues == [ctx.queue_ EXCEPT ![q] = Append(ctx.queue_[q], o)]
           position == [index |-> 0, i |-> 0]
           push == [ctx.push EXCEPT ![o] = position]
           pc == [ctx.pc EXCEPT ![q] = IF ctx.pc[q] = "waiting" /\ ctx.queue_[q] = <<>> THEN "pop" ELSE ctx.pc[q]]
<1>0. /\ op \in [Ops -> Operation] /\ op[o] \in Operation /\ ctx \in PoolCtx /\ ctx.push \in [Ops -> [index : Int, i : Int]]
      /\ ctx.mut_ \in [Workers -> {0} \cup Workers \cup Ops] /\ ctx.queue_ \in PoolQueues /\ OneQueue(ctx.queue_)
      /\ ctx.pc \in PoolPc /\ TaskOfOne(ctx.task)
      /\ PoolOp(op[o], Queued(ctx.queue_, o), InTask(ctx.task, o)) /\ op[o].start \in Pushes
  BY DEF PoolInv, PoolCtx, Pushes, Pool!push_back
<1>1. Plain(op[o]) /\ op[o].life = "started" /\ ~Queued(ctx.queue_, o) /\ ~InTask(ctx.task, o)
  BY <1>0 DEF PoolOp
<1>2. q \in Workers
  BY <1>0, PoolAt
<1>3. r \in Operation /\ Plain(r) /\ r.life = "started" /\ r.start \notin Pushes
  BY <1>0, <1>1, PlainReturned DEF Pushes
<1>4. op' = [op EXCEPT ![o] = r]
  BY PoolSame DEF Pool!push_back
<1>5. ctx' = [ctx EXCEPT !.mut_ = mut, !.queue_ = queues, !.push = push, !.pc = pc]
  BY <1>0, <1>2 DEF Pool!push_back, PoolCtx, Pool!None
<1> HIDE DEF q, r
<1>6. mut \in [Workers -> {0} \cup Workers \cup Ops]
  BY <1>0, <1>2
<1>7. queues \in PoolQueues /\ OneQueue(queues) /\ \A p \in Ops : Queued(queues, p) <=> p = o \/ Queued(ctx.queue_, p)
  BY <1>0, <1>1, <1>2, QueuePush
<1>8. push \in [Ops -> [index : Int, i : Int]]
  BY <1>0
<1>9. pc \in PoolPc /\ \A w \in Workers : pc[w] = "task" <=> ctx.pc[w] = "task"
  BY <1>0, <1>2 DEF PoolPc
<1> HIDE DEF mut, queues, push, pc
<1>10. ctx' \in PoolCtx /\ ctx'.queue_ = queues /\ ctx'.task = ctx.task /\ ctx'.pc = pc
  BY <1>0, <1>5, <1>6, <1>7, <1>8, <1>9 DEF PoolCtx
<1>11. \A w \in Workers : pc[w] = "task" <=> ctx.task[w] # <<>>
  BY <1>9 DEF PoolInv
<1>12. PoolOp(r, Queued(queues, o), InTask(ctx.task, o))
  BY <1>1, <1>3, <1>7 DEF PoolOp
<1>13. PoolChange(o, r)
  BY <1>0, <1>3, <1>4, <1>7, <1>10, <1>11, <1>12 DEF PoolChange
<1> QED BY <1>13, PoolChanges

\* A thread takes the first operation of a queue.
LEMMA PoolTakes ==
  ASSUME PoolInv, op' = op, NEW w \in Workers, ctx.pc[w] # "task", NEW q \in Workers, ctx.queue_[q] # <<>>,
         NEW mut \in [Workers -> {0} \cup Workers \cup Ops], NEW i \in [Workers -> Int],
         ctx' = [ctx EXCEPT !.mut_ = mut, !.i = i, !.queue_ = [ctx.queue_ EXCEPT ![q] = Tail(ctx.queue_[q])],
                            !.task = [ctx.task EXCEPT ![w] = <<Head(ctx.queue_[q])>>],
                            !.pc = [ctx.pc EXCEPT ![w] = "task"]]
  PROVE  PoolInv'
<1> DEFINE o == Head(ctx.queue_[q])
           queues == [ctx.queue_ EXCEPT ![q] = Tail(ctx.queue_[q])]
           task == [ctx.task EXCEPT ![w] = <<o>>]
           pc == [ctx.pc EXCEPT ![w] = "task"]
<1>0. /\ op \in [Ops -> Operation] /\ ctx \in PoolCtx /\ ctx.queue_ \in PoolQueues /\ OneQueue(ctx.queue_)
      /\ ctx.pc \in PoolPc /\ TaskOfOne(ctx.task) /\ ctx.task \in [Workers -> Tasks] /\ ctx.task[w] = <<>>
  BY DEF PoolInv, PoolCtx
<1>1. /\ o \in Ops /\ Queued(ctx.queue_, o)
      /\ queues \in PoolQueues /\ OneQueue(queues) /\ \A p \in Ops : Queued(queues, p) <=> p # o /\ Queued(ctx.queue_, p)
  BY <1>0, QueuePop
<1>2. ctx' = [ctx EXCEPT !.mut_ = mut, !.i = i, !.queue_ = queues, !.task = task, !.pc = pc]
  OBVIOUS
<1> HIDE DEF o, queues
<1>3. op[o] \in Operation /\ PoolOp(op[o], Queued(ctx.queue_, o), InTask(ctx.task, o))
  BY <1>0, <1>1 DEF PoolInv
<1>4. ~InTask(ctx.task, o)
  BY <1>1, <1>3 DEF PoolOp
<1>5. /\ task \in [Workers -> Tasks] /\ TaskOfOne(task) /\ task[w] = <<o>>
      /\ \A v \in Workers : v # w => task[v] = ctx.task[v]
      /\ \A p \in Ops : InTask(task, p) <=> p = o \/ InTask(ctx.task, p)
  BY Zenon, <1>0, <1>1, <1>4, TaskTaken
<1>6. pc \in PoolPc /\ pc[w] = "task" /\ \A v \in Workers : v # w => pc[v] = ctx.pc[v]
  BY <1>0 DEF PoolPc
<1> HIDE DEF task, pc
<1>7. ctx' \in PoolCtx /\ ctx'.queue_ = queues /\ ctx'.task = task /\ ctx'.pc = pc
  BY <1>0, <1>1, <1>2, <1>5, <1>6 DEF PoolCtx
<1>8. \A v \in Workers : pc[v] = "task" <=> task[v] # <<>>
  <2>1. <<o>> # <<>> /\ \A v \in Workers : ctx.pc[v] = "task" <=> ctx.task[v] # <<>>
    BY DEF PoolInv
  <2> QED BY <1>5, <1>6, <2>1
<1>9. PoolOp(op[o], Queued(queues, o), InTask(task, o))
  BY <1>1, <1>3, <1>5 DEF PoolOp
<1>10. op' = [op EXCEPT ![o] = op[o]]
  BY <1>0, <1>1
<1>11. PoolChange(o, op[o])
  BY <1>1, <1>3, <1>5, <1>7, <1>8, <1>9, <1>10 DEF PoolChange
<1> QED BY <1>1, <1>11, PoolChanges

\* A thread goes on without one.
LEMMA PoolPasses ==
  ASSUME PoolInv, op' = op, NEW w \in Workers, ctx.pc[w] # "task",
         NEW to \in {"try", "trying", "pop", "user", "waiting", "returned"},
         NEW mut \in [Workers -> {0} \cup Workers \cup Ops], NEW i \in [Workers -> Int],
         ctx' = [ctx EXCEPT !.mut_ = mut, !.i = i, !.pc = [ctx.pc EXCEPT ![w] = to]]
  PROVE  PoolInv'
<1> DEFINE pc == [ctx.pc EXCEPT ![w] = to]
<1>0. ctx \in PoolCtx /\ ctx.pc \in PoolPc
  BY DEF PoolInv, PoolCtx
<1>1. pc \in PoolPc /\ \A v \in Workers : pc[v] = "task" <=> ctx.pc[v] = "task"
  BY <1>0 DEF PoolPc
<1>2. ctx' = [ctx EXCEPT !.mut_ = mut, !.i = i, !.pc = pc]
  OBVIOUS
<1> HIDE DEF pc
<1>3. ctx' \in PoolCtx /\ ctx'.queue_ = ctx.queue_ /\ ctx'.task = ctx.task /\ ctx'.pc = pc
  BY <1>0, <1>1, <1>2 DEF PoolCtx
<1> QED BY <1>1, <1>3, PoolStays

\* A thread looks for work.
LEMMA PoolThread ==
  ASSUME PoolInv, NEW w \in Workers,
         Pool!try_pop(w) \/ Pool!try_pop_locked(w) \/ Pool!pop(w) \/ Pool!UserCodeReturns(w)
  PROVE  PoolInv'
<1>0. /\ ctx \in PoolCtx /\ op' = op /\ ctx.pc \in PoolPc /\ ctx.i \in [Workers -> Int] /\ ctx.i[w] \in Int /\ w \in Int
      /\ ctx.mut_ \in [Workers -> {0} \cup Workers \cup Ops] /\ ctx.pc[w] # "task"
      /\ ctx.queue_ \in PoolQueues /\ ctx.task \in [Workers -> Tasks]
  <2>1. w \in Int
    BY PoolAt
  <2> QED BY <2>1 DEF PoolInv, PoolCtx, Pool!try_pop, Pool!try_pop_locked, Pool!pop, Pool!UserCodeReturns
<1> DEFINE q == Pool!At(w, ctx.i[w])
           i == [ctx.i EXCEPT ![w] = (ctx.i[w] + 1) % Pool!N]
           zero == [ctx.i EXCEPT ![w] = 0]
           taken == [ctx.mut_ EXCEPT ![q] = w]
           free == [ctx.mut_ EXCEPT ![q] = 0]
           next == IF ctx.i[w] + 1 < Pool!N THEN "try" ELSE "pop"
<1>1. /\ q \in Workers /\ i \in [Workers -> Int] /\ zero \in [Workers -> Int]
      /\ taken \in [Workers -> {0} \cup Workers \cup Ops] /\ free \in [Workers -> {0} \cup Workers \cup Ops]
      /\ next \in {"try", "trying", "pop", "user", "waiting", "returned"}
  <2>0. ctx.i[w] + 1 \in Int
    BY <1>0
  <2>1. q \in Workers /\ (ctx.i[w] + 1) % Pool!N \in Int
    <3>1. q \in Workers
      BY <1>0, PoolAt
    <3> HIDE DEF q
    <3> QED BY <2>0, <3>1, PoolAt
  <2> HIDE DEF q
  <2> QED BY <1>0, <2>1
<1>2. CASE Pool!try_pop(w)
  <2>1. \/ ctx' = [ctx EXCEPT !.mut_ = taken, !.i = ctx.i, !.pc = [ctx.pc EXCEPT ![w] = "trying"]]
        \/ ctx' = [ctx EXCEPT !.mut_ = ctx.mut_, !.i = i, !.pc = [ctx.pc EXCEPT ![w] = next]]
    BY <1>0, <1>1, <1>2 DEF Pool!try_pop, PoolCtx
  <2> HIDE DEF q, i, zero, taken, free, next
  <2> QED BY Zenon, <1>0, <1>1, <2>1, PoolPasses
<1>3. CASE Pool!try_pop_locked(w)
  <2>1. CASE ctx.queue_[q] # <<>>
    <3>1. ctx' = [ctx EXCEPT !.mut_ = free, !.i = zero, !.queue_ = [ctx.queue_ EXCEPT ![q] = Tail(ctx.queue_[q])],
                             !.task = [ctx.task EXCEPT ![w] = <<Head(ctx.queue_[q])>>],
                             !.pc = [ctx.pc EXCEPT ![w] = "task"]]
      BY <1>0, <1>1, <1>3, <2>1 DEF Pool!try_pop_locked, PoolCtx, Pool!None
    <3> HIDE DEF q, i, zero, taken, free, next
    <3> QED BY Zenon, <1>0, <1>1, <2>1, <3>1, PoolTakes
  <2>2. CASE ctx.queue_[q] = <<>>
    <3>1. ctx' = [ctx EXCEPT !.mut_ = free, !.i = i, !.pc = [ctx.pc EXCEPT ![w] = next]]
      BY <1>0, <1>1, <1>3, <2>2 DEF Pool!try_pop_locked, PoolCtx, Pool!None
    <3> HIDE DEF q, i, zero, taken, free, next
    <3> QED BY Zenon, <1>0, <1>1, <3>1, PoolPasses
  <2> QED BY <2>1, <2>2
<1>4. CASE Pool!pop(w)
  <2>1. CASE ctx.queue_[w] # <<>>
    <3>1. ctx' = [ctx EXCEPT !.mut_ = ctx.mut_, !.i = ctx.i, !.queue_ = [ctx.queue_ EXCEPT ![w] = Tail(ctx.queue_[w])],
                             !.task = [ctx.task EXCEPT ![w] = <<Head(ctx.queue_[w])>>],
                             !.pc = [ctx.pc EXCEPT ![w] = "task"]]
      BY <1>0, <1>4, <2>1 DEF Pool!pop, PoolCtx
    <3> QED BY Zenon, <1>0, <2>1, <3>1, PoolTakes
  <2>2. CASE ctx.queue_[w] = <<>>
    <3>1. \/ ctx' = [ctx EXCEPT !.mut_ = ctx.mut_, !.i = ctx.i, !.pc = [ctx.pc EXCEPT ![w] = "returned"]]
          \/ ctx' = [ctx EXCEPT !.mut_ = ctx.mut_, !.i = ctx.i, !.pc = [ctx.pc EXCEPT ![w] = "waiting"]]
      BY <1>0, <1>4, <2>2 DEF Pool!pop, PoolCtx
    <3> QED BY Zenon, <1>0, <3>1, PoolPasses
  <2> QED BY <2>1, <2>2
<1>5. CASE Pool!UserCodeReturns(w)
  <2>1. ctx' = [ctx EXCEPT !.mut_ = ctx.mut_, !.i = ctx.i, !.pc = [ctx.pc EXCEPT ![w] = "try"]]
    BY <1>0, <1>5 DEF Pool!UserCodeReturns, PoolCtx
  <2> QED BY Zenon, <1>0, <2>1, PoolPasses
<1> QED BY <1>2, <1>3, <1>4, <1>5

\* The operation is completed and leaves.
LEMMA PoolExecute ==
  ASSUME PoolInv, NEW w \in Workers, Pool!execute(w)
  PROVE  PoolInv'
<1>0. /\ op \in [Ops -> Operation] /\ ctx \in PoolCtx /\ ctx.pc[w] = "task" /\ OneQueue(ctx.queue_)
      /\ ctx.pc \in PoolPc /\ TaskOfOne(ctx.task) /\ ctx.task \in [Workers -> Tasks]
  BY DEF PoolInv, PoolCtx, Pool!execute
<1>1. PICK o \in Ops : ctx.task[w] = <<o>> /\ ctx.task[w][1] = o
  BY <1>0 DEF PoolInv, Tasks
<1> DEFINE r == CompletedScheduled(op[o])
           task == [ctx.task EXCEPT ![w] = <<>>]
           pc == [ctx.pc EXCEPT ![w] = "user"]
<1>2. op[o] \in Operation /\ PoolOp(op[o], Queued(ctx.queue_, o), InTask(ctx.task, o)) /\ InTask(ctx.task, o)
  BY <1>0, <1>1 DEF PoolInv, InTask
<1>3. Plain(op[o]) /\ op[o].life = "started" /\ ~Queued(ctx.queue_, o) /\ op[o].start \notin Pushes
  BY <1>2 DEF PoolOp
<1>4. r \in Operation /\ Plain(r) /\ r.life = "completed" /\ r.start = op[o].start
  BY <1>2, <1>3, PlainCompleted
<1>5. op' = [op EXCEPT ![o] = r] /\ ctx' = [ctx EXCEPT !.task = task, !.pc = pc]
  BY <1>0, <1>1, PoolSame DEF Pool!execute, PoolCtx
<1> HIDE DEF r
<1>6. /\ task \in [Workers -> Tasks] /\ TaskOfOne(task) /\ task[w] = <<>>
      /\ \A v \in Workers : v # w => task[v] = ctx.task[v]
      /\ \A p \in Ops : InTask(task, p) <=> p # o /\ InTask(ctx.task, p)
  BY <1>0, <1>1, TaskDone
<1>7. pc \in PoolPc /\ pc[w] = "user" /\ \A v \in Workers : v # w => pc[v] = ctx.pc[v]
  BY <1>0 DEF PoolPc
<1> HIDE DEF task, pc
<1>8. ctx' \in PoolCtx /\ ctx'.queue_ = ctx.queue_ /\ ctx'.task = task /\ ctx'.pc = pc
  BY <1>0, <1>5, <1>6, <1>7 DEF PoolCtx
<1>9. \A v \in Workers : pc[v] = "task" <=> task[v] # <<>>
  BY <1>6, <1>7 DEF PoolInv
<1>10. PoolOp(r, Queued(ctx.queue_, o), InTask(task, o))
  BY <1>3, <1>4, <1>6 DEF PoolOp
<1>11. PoolChange(o, r)
  BY <1>0, <1>4, <1>5, <1>6, <1>8, <1>9, <1>10 DEF PoolChange
<1> QED BY <1>11, PoolChanges

\* The other steps.
LEMMA PoolRest ==
  ASSUME PoolInv, Pool!request_stop \/ Pool!join \/ \E o \in Ops : Pool!RequestStop(o)
  PROVE  PoolInv'
<1>0. /\ op \in [Ops -> Operation] /\ ctx \in PoolCtx /\ ctx.pc \in PoolPc /\ ctx.stopper \in Nat
      /\ ctx.stopRequested_ \in [Workers -> BOOLEAN] /\ \A o \in Ops : Plain(op[o])
  BY DEF PoolInv, PoolCtx, PoolOp
<1>1. CASE Pool!request_stop
  <2> DEFINE q == ctx.stopper + 1
             stops == [ctx.stopRequested_ EXCEPT ![q] = TRUE]
             pc == [ctx.pc EXCEPT ![q] = IF ctx.pc[q] = "waiting" THEN "pop" ELSE ctx.pc[q]]
  <2>1. q \in Nat /\ q \in Workers
    BY <1>0, <1>1, PoolAt DEF Pool!request_stop
  <2>2. ctx' = [ctx EXCEPT !.stopper = q, !.stopRequested_ = stops, !.pc = pc] /\ op' = op
    BY <1>0, <1>1, <2>1 DEF Pool!request_stop, PoolCtx
  <2> HIDE DEF q
  <2>3. stops \in [Workers -> BOOLEAN] /\ pc \in PoolPc /\ \A v \in Workers : pc[v] = "task" <=> ctx.pc[v] = "task"
    BY <1>0, <2>1 DEF PoolPc
  <2> HIDE DEF stops, pc
  <2>4. ctx' \in PoolCtx /\ ctx'.queue_ = ctx.queue_ /\ ctx'.task = ctx.task /\ ctx'.pc = pc
    BY <1>0, <2>1, <2>2, <2>3 DEF PoolCtx
  <2> QED BY <2>2, <2>3, <2>4, PoolStays
<1>2. CASE Pool!join
  <2>1. ctx' = [ctx EXCEPT !.destroyed = TRUE] /\ op' = op
    BY <1>2 DEF Pool!join
  <2>2. ctx' \in PoolCtx /\ ctx'.queue_ = ctx.queue_ /\ ctx'.task = ctx.task /\ ctx'.pc = ctx.pc
    BY <1>0, <2>1 DEF PoolCtx
  <2> QED BY <2>1, <2>2, PoolStays
<1>3. ASSUME NEW o \in Ops, Pool!RequestStop(o)
      PROVE  PoolInv'
  <2>1. ctx' = ctx /\ op' = [op EXCEPT ![o].stopped = TRUE]
    BY <1>3 DEF Pool!RequestStop
  <2>2. /\ op' \in [Ops -> Operation]
        /\ \A p \in Ops : Plain(op'[p]) /\ op'[p].life = op[p].life /\ op'[p].start = op[p].start
    BY <1>0, <2>1, PlainStops
  <2>3. \A p \in Ops : PoolOp(op'[p], Queued(ctx.queue_, p), InTask(ctx.task, p))
    BY <2>2 DEF PoolInv, PoolOp
  <2> QED BY <2>1, <2>2, <2>3 DEF PoolInv
<1> QED BY <1>1, <1>2, <1>3

\* The initial states.
LEMMA PoolStarts == ASSUME Pool!Init PROVE PoolInv
<1>1. op \in [Ops -> {NewOp("schedule")}]
  BY DEF Pool!Init, Pool!NewOp, NewOp, Pool!Nobody, Nobody
<1> DEFINE new == NewOp("schedule")
<1>2. new \in Operation /\ new.life = "idle" /\ Plain(new) /\ new.start = "no"
  BY NewFacts
<1> HIDE DEF new
<1>3. op \in [Ops -> Operation] /\ \A o \in Ops : op[o] = new
  BY <1>1, <1>2 DEF new
<1>4. /\ ctx \in PoolCtx /\ ctx.queue_ = [q \in Workers |-> <<>>] /\ ctx.task = [w \in Workers |-> <<>>]
      /\ ctx.pc = [w \in Workers |-> "try"]
  BY DEF Pool!Init, PoolCtx, PoolPc, PoolQueues, Tasks, Pool!None
<1>5. \A q \in Workers : ctx.queue_[q] = <<>> /\ ctx.task[q] = <<>> /\ ctx.pc[q] = "try"
  BY <1>4
<1>6. \A o \in Ops : ~Queued(ctx.queue_, o) /\ ~InTask(ctx.task, o)
  BY <1>5 DEF Queued, InList, InTask
<1>7. OneQueue(ctx.queue_) /\ TaskOfOne(ctx.task)
  BY <1>5 DEF OneQueue, Once, InList, TaskOfOne
<1>8. \A o \in Ops : PoolOp(op[o], Queued(ctx.queue_, o), InTask(ctx.task, o))
  BY <1>2, <1>3, <1>6 DEF PoolOp, Pushes
<1> QED BY <1>3, <1>4, <1>5, <1>7, <1>8 DEF PoolInv

\* Every step keeps the invariant.
LEMMA PoolNext == ASSUME PoolInv, Pool!Next PROVE PoolInv'
BY PoolStart, PoolTryPush, PoolPushBack, PoolThread, PoolExecute, PoolRest DEF Pool!Next, Pool!System, Pool!User
-----------------------------------------------------------------------------
\* windows_thread_pool.  How far an operation has come, with the flags of
\* its state, who deletes that state, and where its work item is.
Flags == {"submit_complete", "stop_requested", "starting", "running"}
WinMemory == {"op", "start", "freed"}
WinWork == {"none", "queued", "deregister", "registered", "running", "returned"}
WinCtx == [state_ : [IoOps -> SUBSET Flags], memory : [IoOps -> WinMemory], work : [IoOps -> WinWork], now : Int]

\* The stop callback: not requested, under way in its exchange, or over.
CallbackSet(r) == r.cb = "set" /\ r.stop = "no"
CallbackRuns(r) == r.cb = "running" /\ r.stop = "exchange" /\ r.stopped
CallbackOver(r) == r.cb = "ran" /\ r.stop = "no" /\ r.stopped
NoCallback(r) == r.cb = "none" /\ r.stop = "no"

WinIdle(r, st, mem, work) ==
  r.life = "idle" /\ r.start = "no" /\ NoCallback(r) /\ ~r.stopped /\ st = {} /\ mem = "op" /\ work = "none"
WinCheck(r, st, mem, work) ==
  r.life = "started" /\ r.start \in {"check", "construct"} /\ NoCallback(r) /\ st = {} /\ mem = "op" /\ work = "none"
WinSubmit(r, st, mem, work) ==
  /\ r.life = "started" /\ r.start = "submit" /\ mem = "op" /\ work = "none"
  /\ "starting" \notin st /\ "submit_complete" \notin st /\ "running" \notin st
  /\ \/ (CallbackSet(r) \/ CallbackRuns(r)) /\ "stop_requested" \notin st
     \/ CallbackOver(r) /\ "stop_requested" \in st
\* The item is queued, and whoever comes first gets the operation.
WinPending(stoppable, r, st, mem, work) ==
  /\ r.life = "started" /\ mem = "op" /\ work = "queued"
  /\ "stop_requested" \notin st /\ "starting" \notin st /\ "running" \notin st
  /\ IF stoppable THEN /\ r.start \in {"submitted", "returned"}
                       /\ r.start = "returned" <=> "submit_complete" \in st
                       /\ CallbackSet(r) \/ CallbackRuns(r)
     ELSE r.start = "returned" /\ NoCallback(r) /\ ~r.stopped
\* A stop request came first, before start() was over or after it.
WinStopping(r, st, mem, work) ==
  /\ r.life = "started" /\ mem = "op" /\ "stop_requested" \in st
  /\ \/ r.start \in {"submitted", "cancel"} /\ CallbackOver(r) /\ work \in {"queued", "returned"} /\ "running" \notin st
     \/ r.start = "destruct" /\ CallbackOver(r) /\ work = "none"
     \/ r.start = "returned" /\ r.cb = "running" /\ r.stop = "cancel" /\ work \in {"queued", "returned"}
  /\ r.stopped
\* The item's callback came first.
WinRuns(now, r, st, mem, work) ==
  /\ r.life = "started" /\ r.due <= now /\ r.start \in {"submitted", "returned"}
  /\ "stop_requested" \notin st /\ "starting" \in st /\ (r.start = "returned" <=> "submit_complete" \in st)
  /\ \/ /\ work = "deregister" /\ mem = "op" /\ "running" \notin st
        /\ CallbackSet(r) \/ CallbackRuns(r) \/ CallbackOver(r)
     \/ work = "registered" /\ mem = "op" /\ "running" \notin st /\ NoCallback(r)
     \/ /\ work = "running" /\ "running" \in st /\ NoCallback(r)
        /\ IF r.start = "submitted" THEN mem = "start" ELSE mem \in {"op", "freed"}
WinCompleted(r, st, mem, work) ==
  /\ r.life = "completed" /\ NoCallback(r) /\ work = "none"
  /\ \/ r.start = "returned" /\ mem = "freed"
     \/ r.start = "submitted" /\ mem = "start" /\ "stop_requested" \notin st /\ "running" \in st

WinPhase(now, stoppable, r, st, mem, work) ==
  \/ WinIdle(r, st, mem, work) \/ WinPending(stoppable, r, st, mem, work) \/ WinCompleted(r, st, mem, work)
  \/ stoppable /\ (WinCheck(r, st, mem, work) \/ WinSubmit(r, st, mem, work)
                     \/ WinStopping(r, st, mem, work) \/ WinRuns(now, r, st, mem, work))
WinOp(stoppable, r, st, mem, work, now) ==
  /\ Signalled(r) /\ (r.signals = <<"value">> => r.due <= now)
  /\ WinPhase(now, stoppable, r, st, mem, work)
WinInv ==
  /\ op \in [IoOps -> Operation] /\ ctx \in WinCtx
  /\ \A o \in IoOps : WinOp(o \in StopOps, op[o], ctx.state_[o], ctx.memory[o], ctx.work[o], ctx.now)

\* A step that changes nothing the invariant is about.
LEMMA WinSame ==
  /\ \A r, by, pc : Windows!Begun(r, by, pc) = Begun(r, by, pc)
  /\ \A r : Windows!Returned(r) = Returned(r)
  /\ \A r, signal : Windows!Completed(r, signal) = Completed(r, signal)
  /\ \A r : Windows!Constructed(r) = Constructed(r)
  /\ \A r : Windows!Destructed(r) = Destructed(r)
  /\ \A r, pc : Windows!StopBegun(r, pc) = StopBegun(r, pc)
  /\ \A r : Windows!CallbackReturned(r) = CallbackReturned(r)
  /\ Windows!Outside = Outside
BY DEF Windows!Begun, Begun, Windows!Returned, Returned, Windows!Nobody, Nobody, Windows!Outside, Outside,
       Windows!Completed, Completed, Windows!Constructed, Constructed,
       Windows!Destructed, Destructed, Windows!StopBegun, StopBegun, Windows!CallbackReturned, CallbackReturned

\* One operation changes, and its part of the state.
WinChange(o, r, st, mem, work) ==
  /\ r \in Operation /\ op' = [op EXCEPT ![o] = r]
  /\ st \subseteq Flags /\ mem \in WinMemory /\ work \in WinWork
  /\ ctx' = [ctx EXCEPT !.state_ = [ctx.state_ EXCEPT ![o] = st], !.memory = [ctx.memory EXCEPT ![o] = mem],
                        !.work = [ctx.work EXCEPT ![o] = work]]
  /\ WinOp(o \in StopOps, r, st, mem, work, ctx.now)

\* What has to be shown of a step that changes one operation.
LEMMA WinChanges ==
  ASSUME WinInv, NEW o \in IoOps, NEW r, NEW st, NEW mem, NEW work, WinChange(o, r, st, mem, work)
  PROVE  WinInv'
<1> DEFINE states == [ctx.state_ EXCEPT ![o] = st]
           memory == [ctx.memory EXCEPT ![o] = mem]
           works == [ctx.work EXCEPT ![o] = work]
<1>0. /\ op \in [IoOps -> Operation] /\ ctx \in WinCtx /\ ctx.state_ \in [IoOps -> SUBSET Flags]
      /\ ctx.memory \in [IoOps -> WinMemory] /\ ctx.work \in [IoOps -> WinWork]
  BY DEF WinInv, WinCtx
<1>1. op' \in [IoOps -> Operation] /\ op'[o] = r /\ \A p \in IoOps : p # o => op'[p] = op[p]
  BY <1>0, OneChanges DEF WinChange
<1>2. /\ states \in [IoOps -> SUBSET Flags] /\ states[o] = st /\ \A p \in IoOps : p # o => states[p] = ctx.state_[p]
      /\ memory \in [IoOps -> WinMemory] /\ memory[o] = mem /\ \A p \in IoOps : p # o => memory[p] = ctx.memory[p]
      /\ works \in [IoOps -> WinWork] /\ works[o] = work /\ \A p \in IoOps : p # o => works[p] = ctx.work[p]
  BY <1>0 DEF WinChange
<1>3. ctx' = [ctx EXCEPT !.state_ = states, !.memory = memory, !.work = works]
  BY DEF WinChange
<1> HIDE DEF states, memory, works
<1>4. ctx' \in WinCtx /\ ctx'.state_ = states /\ ctx'.memory = memory /\ ctx'.work = works /\ ctx'.now = ctx.now
  BY <1>0, <1>2, <1>3 DEF WinCtx
<1>5. ASSUME NEW p \in IoOps
      PROVE  WinOp(p \in StopOps, op'[p], states[p], memory[p], works[p], ctx.now)
  <2>1. CASE p = o
    BY <1>1, <1>2, <2>1 DEF WinChange
  <2>2. CASE p # o
    BY <1>1, <1>2, <2>2 DEF WinInv
  <2> QED BY <2>1, <2>2
<1> QED BY <1>1, <1>4, <1>5 DEF WinInv

\* What the members are.
LEMMA WinTypes ==
  ASSUME WinInv, NEW o \in IoOps
  PROVE  /\ op[o] \in Operation /\ ctx \in WinCtx /\ ctx.state_ \in [IoOps -> SUBSET Flags]
         /\ ctx.memory \in [IoOps -> WinMemory] /\ ctx.work \in [IoOps -> WinWork]
         /\ ctx.state_[o] \subseteq Flags /\ ctx.memory[o] \in WinMemory /\ ctx.work[o] \in WinWork
         /\ ctx.now \in Int
         /\ WinOp(o \in StopOps, op[o], ctx.state_[o], ctx.memory[o], ctx.work[o], ctx.now)
         /\ op[o].life # "completed" <=> op[o].signals = <<>>
BY DEF WinInv, WinCtx, WinOp, Signalled

\* Nothing but the operation changes.
LEMMA WinMoves ==
  ASSUME WinInv, NEW o \in IoOps, NEW r \in Operation, op' = [op EXCEPT ![o] = r], ctx' = ctx,
         WinOp(o \in StopOps, r, ctx.state_[o], ctx.memory[o], ctx.work[o], ctx.now)
  PROVE  WinInv'
<1>1. ctx' = [ctx EXCEPT !.state_ = [ctx.state_ EXCEPT ![o] = ctx.state_[o]],
                         !.memory = [ctx.memory EXCEPT ![o] = ctx.memory[o]],
                         !.work = [ctx.work EXCEPT ![o] = ctx.work[o]]]
  BY WinTypes DEF WinCtx
<1>2. WinChange(o, r, ctx.state_[o], ctx.memory[o], ctx.work[o])
  BY <1>1, WinTypes DEF WinChange
<1> QED BY <1>2, WinChanges

\* Nothing has been signalled, and the operation moves to another phase.
LEMMA WinStarted ==
  ASSUME NEW stoppable, NEW r \in Operation, r.signals = <<>>, r.life # "completed", NEW st, NEW mem, NEW work, NEW now,
         WinPhase(now, stoppable, r, st, mem, work)
  PROVE  WinOp(stoppable, r, st, mem, work, now)
BY DEF WinOp, Signalled

\* The receiver is completed.
LEMMA WinFinish ==
  ASSUME WinInv, NEW o \in IoOps, NEW r \in Operation, r.signals = <<>>, NoCallback(r),
         NEW signal \in {"value", "error", "done"}, signal = "done" => r.stopped, signal = "value" => r.due <= ctx.now,
         Windows!Finish(o, r, signal, "none"),
         \/ r.start = "returned" /\ ctx.memory[o] \in {"op", "freed"}
         \/ /\ r.start = "submitted" /\ ctx.memory[o] = "start" /\ "stop_requested" \notin ctx.state_[o]
            /\ "running" \in ctx.state_[o]
  PROVE  WinInv'
<1> DEFINE t == Completed(r, signal)
           mem == IF ctx.memory[o] = "op" THEN "freed" ELSE ctx.memory[o]
           st == ctx.state_[o]
<1>1. /\ t \in Operation /\ t.life = "completed" /\ t.signals = <<signal>> /\ t.start = r.start
      /\ t.stopped = r.stopped /\ t.cb = r.cb /\ t.stop = r.stop /\ t.due = r.due
  BY CompletedFacts
<1>2. op' = [op EXCEPT ![o] = t]
  BY WinSame DEF Windows!Finish
<1>3. ctx' = [ctx EXCEPT !.state_ = [ctx.state_ EXCEPT ![o] = st], !.memory = [ctx.memory EXCEPT ![o] = mem],
                         !.work = [ctx.work EXCEPT ![o] = "none"]]
  BY WinTypes DEF WinCtx, Windows!Finish
<1>4. mem \in WinMemory /\ "none" \in WinWork /\ st \subseteq Flags
  BY WinTypes DEF WinMemory, WinWork
<1>5. \/ t.start = "returned" /\ mem = "freed"
      \/ t.start = "submitted" /\ mem = "start" /\ "stop_requested" \notin st /\ "running" \in st
  BY <1>1
<1> HIDE DEF t, mem, st
<1>6. WinCompleted(t, st, mem, "none")
  BY <1>1, <1>5 DEF WinCompleted, NoCallback
<1>7. Signalled(t) /\ (t.signals = <<"value">> => t.due <= ctx.now)
  BY <1>1 DEF Signalled
<1>8. WinOp(o \in StopOps, t, st, mem, "none", ctx.now)
  BY <1>6, <1>7 DEF WinOp, WinPhase
<1>9. WinChange(o, t, st, mem, "none")
  BY <1>1, <1>2, <1>3, <1>4, <1>8 DEF WinChange
<1> QED BY <1>9, WinChanges

\* start().
LEMMA WinStart ==
  ASSUME WinInv, NEW o \in IoOps, Windows!start(o)
  PROVE  WinInv'
<1> DEFINE st == ctx.state_[o]
           mem == ctx.memory[o]
           work == ctx.work[o]
<1>0. op[o].life = "idle" /\ WinIdle(op[o], st, mem, work) /\ op[o].signals = <<>>
  BY WinTypes DEF Windows!start, WinOp, WinPhase, WinPending, WinCompleted, WinCheck, WinSubmit, WinStopping, WinRuns
<1>1. PICK due \in Windows!DueTimes(o) :
        LET r == [Begun(op[o], Outside, "check") EXCEPT !.due = due] IN
        IF o \in StopOps THEN op' = [op EXCEPT ![o] = r] /\ ctx' = ctx
        ELSE op' = [op EXCEPT ![o] = Returned(r)] /\ ctx' = [ctx EXCEPT !.work[o] = "queued"]
  BY WinSame DEF Windows!start, Windows!StopPossible, Windows!Step
<1> DEFINE b == Begun(op[o], Outside, "check")
           r == [b EXCEPT !.due = due]
           t == Returned(r)
<1>2. due \in Int
  BY WinTypes DEF Windows!DueTimes, Windows!Durations
<1>3. /\ b \in Operation /\ b.life = "started" /\ b.start = "check" /\ b.signals = <<>>
      /\ b.stopped = op[o].stopped /\ b.cb = op[o].cb /\ b.stop = op[o].stop
  <2>1. Outside \in Callers /\ "check" \in Points
    BY DEF Callers, Points
  <2> QED BY <1>0, <2>1, WinTypes, BegunFacts
<1>4. /\ r \in Operation /\ r.life = "started" /\ r.start = "check" /\ r.signals = <<>>
      /\ r.stopped = op[o].stopped /\ r.cb = op[o].cb /\ r.stop = op[o].stop
  <2> HIDE DEF b
  <2> QED BY <1>2, <1>3, DueFacts
<1>5. /\ t \in Operation /\ t.life = "started" /\ t.start = "returned" /\ t.signals = <<>>
      /\ t.stopped = op[o].stopped /\ t.cb = op[o].cb /\ t.stop = op[o].stop
  <2> HIDE DEF r
  <2> QED BY <1>4, ReturnedFacts
<1>6. CASE o \in StopOps
  <2>1. op' = [op EXCEPT ![o] = r] /\ ctx' = ctx
    BY <1>1, <1>6
  <2> HIDE DEF r, st, mem, work
  <2>2. WinCheck(r, st, mem, work)
    BY <1>0, <1>4 DEF WinCheck, WinIdle, NoCallback
  <2>3. WinOp(o \in StopOps, r, st, mem, work, ctx.now)
    BY <1>4, <1>6, <2>2, WinStarted DEF WinPhase
  <2> QED BY <1>4, <2>1, <2>3, WinMoves DEF st, mem, work
<1>7. CASE o \notin StopOps
  <2>1. op' = [op EXCEPT ![o] = t] /\ ctx' = [ctx EXCEPT !.work[o] = "queued"]
    BY <1>1, <1>7
  <2>2. ctx' = [ctx EXCEPT !.state_ = [ctx.state_ EXCEPT ![o] = st], !.memory = [ctx.memory EXCEPT ![o] = mem],
                           !.work = [ctx.work EXCEPT ![o] = "queued"]]
    BY <2>1, WinTypes DEF WinCtx
  <2>3. st \subseteq Flags /\ mem \in WinMemory /\ "queued" \in WinWork
    BY WinTypes DEF WinWork
  <2> HIDE DEF t, st, mem, work
  <2>4. WinPending(o \in StopOps, t, st, mem, "queued")
    BY <1>0, <1>5, <1>7 DEF WinPending, WinIdle, NoCallback
  <2>5. WinOp(o \in StopOps, t, st, mem, "queued", ctx.now)
    BY <1>5, <2>4, WinStarted DEF WinPhase
  <2>6. WinChange(o, t, st, mem, "queued")
    BY <1>5, <2>1, <2>2, <2>3, <2>5 DEF WinChange
  <2> QED BY <2>6, WinChanges
<1> QED BY <1>6, <1>7

\* start() of an operation that may be stopped.
LEMMA WinBegins ==
  ASSUME WinInv, NEW o \in IoOps, Windows!CheckStop(o) \/ Windows!ConstructCallback(o) \/ Windows!Submit(o)
  PROVE  WinInv'
<1> DEFINE st == ctx.state_[o]
           mem == ctx.memory[o]
           work == ctx.work[o]
<1>1. CASE Windows!CheckStop(o)
  <2>0. o \in StopOps /\ WinCheck(op[o], st, mem, work) /\ op[o].signals = <<>> /\ op[o] \in Operation
    BY <1>1, WinTypes
       DEF Windows!CheckStop, WinOp, WinPhase, WinIdle, WinPending, WinCompleted, WinCheck, WinSubmit, WinStopping, WinRuns
  <2>1. CASE op[o].stopped
    <3> DEFINE r == Returned(op[o])
    <3>1. /\ r \in Operation /\ r.start = "returned" /\ r.signals = <<>>
          /\ r.stopped = op[o].stopped /\ r.cb = op[o].cb /\ r.stop = op[o].stop
      BY <2>0, ReturnedFacts
    <3>2. NoCallback(r) /\ mem = "op" /\ work = "none"
      <4> HIDE DEF r
      <4> QED BY <2>0, <3>1 DEF WinCheck, NoCallback
    <3>3. Windows!Finish(o, r, "done", "none")
      BY <1>1, <2>1, <3>2, WinSame DEF Windows!CheckStop
    <3> HIDE DEF r
    <3> QED BY <2>1, <3>1, <3>2, <3>3, WinFinish
  <2>2. CASE ~op[o].stopped
    <3> DEFINE r == [op[o] EXCEPT !.start = "construct"]
    <3>1. /\ r \in Operation /\ r.life = op[o].life /\ r.start = "construct" /\ r.signals = <<>>
          /\ r.stopped = op[o].stopped /\ r.cb = op[o].cb /\ r.stop = op[o].stop
      <4>1. "construct" \in Points
        BY DEF Points
      <4> QED BY <2>0, <4>1, MovedFacts
    <3>2. op' = [op EXCEPT ![o] = r] /\ ctx' = ctx
      BY <1>1, <2>2 DEF Windows!CheckStop, Windows!Step
    <3> HIDE DEF r, st, mem, work
    <3>3. WinCheck(r, st, mem, work) /\ r.life # "completed"
      BY <2>0, <3>1 DEF WinCheck, NoCallback
    <3>4. WinOp(o \in StopOps, r, st, mem, work, ctx.now)
      BY <2>0, <3>1, <3>3, WinStarted DEF WinPhase
    <3> QED BY <3>1, <3>2, <3>4, WinMoves DEF st, mem, work
  <2> QED BY <2>1, <2>2
<1>2. CASE Windows!ConstructCallback(o)
  <2>0. o \in StopOps /\ WinCheck(op[o], st, mem, work) /\ op[o].signals = <<>> /\ op[o] \in Operation
    BY <1>2, WinTypes
       DEF Windows!ConstructCallback, WinOp, WinPhase, WinIdle, WinPending, WinCompleted, WinCheck, WinSubmit, WinStopping,
           WinRuns
  <2> DEFINE c == Constructed(op[o])
             r == [c EXCEPT !.start = "submit"]
             new == IF op[o].stopped THEN st \cup {"stop_requested"} ELSE st
  <2>1. /\ c \in Operation /\ c.cb = (IF op[o].stopped THEN "ran" ELSE "set") /\ c.life = op[o].life
        /\ c.signals = <<>> /\ c.stopped = op[o].stopped /\ c.stop = op[o].stop
    BY <2>0, ConstructedFacts
  <2>2. /\ r \in Operation /\ r.cb = (IF op[o].stopped THEN "ran" ELSE "set") /\ r.life = op[o].life
        /\ r.signals = <<>> /\ r.stopped = op[o].stopped /\ r.stop = op[o].stop /\ r.start = "submit"
    <3>1. "submit" \in Points
      BY DEF Points
    <3>2. /\ r \in Operation /\ r.start = "submit" /\ r.cb = c.cb /\ r.life = c.life /\ r.signals = c.signals
          /\ r.stopped = c.stopped /\ r.stop = c.stop
      <4> HIDE DEF c
      <4> QED BY <2>1, <3>1, MovedFacts
    <3> HIDE DEF r, c
    <3> QED BY <2>1, <3>2
  <2>3. op' = [op EXCEPT ![o] = r]
    BY <1>2, WinSame DEF Windows!ConstructCallback, Windows!Step
  <2>4. ctx' = [ctx EXCEPT !.state_ = [ctx.state_ EXCEPT ![o] = new], !.memory = [ctx.memory EXCEPT ![o] = mem],
                           !.work = [ctx.work EXCEPT ![o] = work]]
    BY <1>2, WinTypes DEF WinCtx, Windows!ConstructCallback, Windows!Fetch
  <2>5. new \subseteq Flags /\ mem \in WinMemory /\ work \in WinWork
    BY WinTypes DEF Flags
  <2>6. /\ "stop_requested" \in new <=> op[o].stopped
        /\ "starting" \notin new /\ "submit_complete" \notin new /\ "running" \notin new
    BY <2>0 DEF WinCheck
  <2>7. op[o].stopped \in BOOLEAN
    BY <2>0 DEF Operation
  <2> HIDE DEF r, new, st, mem, work
  <2>8. WinSubmit(r, new, mem, work) /\ r.life # "completed"
    BY <2>0, <2>2, <2>6, <2>7 DEF WinSubmit, WinCheck, NoCallback, CallbackOver, CallbackSet
  <2>9. WinOp(o \in StopOps, r, new, mem, work, ctx.now)
    BY <2>0, <2>2, <2>8, WinStarted DEF WinPhase
  <2>10. WinChange(o, r, new, mem, work)
    BY <2>2, <2>3, <2>4, <2>5, <2>9 DEF WinChange
  <2> QED BY <2>10, WinChanges
<1>3. CASE Windows!Submit(o)
  <2>0. o \in StopOps /\ WinSubmit(op[o], st, mem, work) /\ op[o].signals = <<>> /\ op[o] \in Operation
    BY <1>3, WinTypes
       DEF Windows!Submit, WinOp, WinPhase, WinIdle, WinPending, WinCompleted, WinCheck, WinSubmit, WinStopping, WinRuns
  <2> DEFINE r == [op[o] EXCEPT !.start = "submitted"]
  <2>1. /\ r \in Operation /\ r.life = op[o].life /\ r.start = "submitted" /\ r.signals = <<>>
        /\ r.stopped = op[o].stopped /\ r.cb = op[o].cb /\ r.stop = op[o].stop
    <3>1. "submitted" \in Points
      BY DEF Points
    <3> QED BY <2>0, <3>1, MovedFacts
  <2>2. op' = [op EXCEPT ![o] = r]
    BY <1>3 DEF Windows!Submit, Windows!Step
  <2>3. ctx' = [ctx EXCEPT !.state_ = [ctx.state_ EXCEPT ![o] = st], !.memory = [ctx.memory EXCEPT ![o] = mem],
                           !.work = [ctx.work EXCEPT ![o] = "queued"]]
    BY <1>3, WinTypes DEF WinCtx, Windows!Submit
  <2>4. st \subseteq Flags /\ mem \in WinMemory /\ "queued" \in WinWork
    BY WinTypes DEF WinWork
  <2> HIDE DEF r, st, mem, work
  <2>5. WinPending(TRUE, r, st, mem, "queued") \/ WinStopping(r, st, mem, "queued")
    BY <2>0, <2>1 DEF WinSubmit, WinPending, WinStopping, CallbackOver, CallbackSet, CallbackRuns
  <2>6. WinOp(o \in StopOps, r, st, mem, "queued", ctx.now)
    <3>1. r.life # "completed" /\ WinPhase(ctx.now, o \in StopOps, r, st, mem, "queued")
      BY <2>0, <2>1, <2>5 DEF WinPhase, WinPending, WinSubmit
    <3> QED BY <2>1, <3>1, WinStarted
  <2>7. WinChange(o, r, st, mem, "queued")
    BY <2>1, <2>2, <2>3, <2>4, <2>6 DEF WinChange
  <2> QED BY <2>7, WinChanges
<1> QED BY <1>1, <1>2, <1>3

\* The submission is over.
LEMMA WinSubmitComplete ==
  ASSUME WinInv, NEW o \in IoOps, Windows!SubmitComplete(o)
  PROVE  WinInv'
<1> DEFINE st == ctx.state_[o]
           mem == ctx.memory[o]
           work == ctx.work[o]
           all == st \cup {"submit_complete"}
           kept == IF "stop_requested" \notin st /\ "running" \in st THEN "freed" ELSE mem
           moved == [op[o] EXCEPT !.start = "cancel"]
           returned == Returned(op[o])
           r == IF "stop_requested" \in st THEN moved ELSE returned
<1>0. /\ op[o] \in Operation /\ op[o].start = "submitted"
      /\ \/ o \in StopOps /\ WinPending(TRUE, op[o], st, mem, work)
         \/ o \in StopOps /\ WinStopping(op[o], st, mem, work)
         \/ o \in StopOps /\ WinRuns(ctx.now, op[o], st, mem, work)
         \/ WinCompleted(op[o], st, mem, work)
  BY WinTypes
     DEF Windows!SubmitComplete, WinOp, WinPhase, WinIdle, WinPending, WinCompleted, WinCheck, WinSubmit, WinStopping, WinRuns
<1>1. /\ moved \in Operation /\ moved.life = op[o].life /\ moved.start = "cancel" /\ moved.signals = op[o].signals
      /\ moved.stopped = op[o].stopped /\ moved.cb = op[o].cb /\ moved.stop = op[o].stop /\ moved.due = op[o].due
      /\ returned \in Operation /\ returned.life = op[o].life /\ returned.start = "returned"
      /\ returned.signals = op[o].signals /\ returned.stopped = op[o].stopped /\ returned.cb = op[o].cb
      /\ returned.stop = op[o].stop /\ returned.due = op[o].due
  <2>1. "cancel" \in Points
    BY DEF Points
  <2> QED BY Zenon, <1>0, <2>1, MovedFacts, ReturnedFacts
<1>2. op' = [op EXCEPT ![o] = r]
  BY WinSame DEF Windows!SubmitComplete, Windows!Step
<1>3. ctx' = [ctx EXCEPT !.state_ = [ctx.state_ EXCEPT ![o] = all], !.memory = [ctx.memory EXCEPT ![o] = kept],
                         !.work = [ctx.work EXCEPT ![o] = work]]
  <2>1. ctx' = [ctx EXCEPT !.state_ = [ctx.state_ EXCEPT ![o] = all], !.memory = [ctx.memory EXCEPT ![o] = kept]]
    BY DEF Windows!SubmitComplete, Windows!Fetch
  <2>2. ctx.work = [ctx.work EXCEPT ![o] = work]
    BY WinTypes
  <2> HIDE DEF all, kept
  <2> QED BY <2>1, <2>2, WinTypes DEF WinCtx
<1>4. all \subseteq Flags /\ kept \in WinMemory /\ work \in WinWork
  BY WinTypes DEF Flags, WinMemory
<1>5. \A f \in Flags : f \in all <=> f = "submit_complete" \/ f \in st
  OBVIOUS
<1>6. /\ "submit_complete" \in all /\ ("stop_requested" \in all <=> "stop_requested" \in st)
      /\ ("starting" \in all <=> "starting" \in st) /\ ("running" \in all <=> "running" \in st)
  BY <1>5 DEF Flags
<1>7. Signalled(op[o]) /\ (op[o].signals = <<"value">> => op[o].due <= ctx.now)
  BY WinTypes DEF WinOp
<1> HIDE DEF moved, returned, st, mem, work, all
<1>8. /\ r \in Operation /\ Signalled(r) /\ (r.signals = <<"value">> => r.due <= ctx.now)
  BY <1>1, <1>7 DEF Signalled
<1>9. WinPhase(ctx.now, o \in StopOps, r, all, kept, work)
  <2>1. CASE o \in StopOps /\ WinPending(TRUE, op[o], st, mem, work)
    <3>1. WinPending(o \in StopOps, r, all, kept, work)
      BY <1>0, <1>1, <1>6, <2>1 DEF WinPending, CallbackSet, CallbackRuns
    <3> QED BY <2>1, <3>1 DEF WinPhase
  <2>2. CASE o \in StopOps /\ WinStopping(op[o], st, mem, work)
    <3>1. WinStopping(r, all, kept, work)
      BY <1>0, <1>1, <1>6, <2>2 DEF WinStopping, CallbackOver
    <3> QED BY <2>2, <3>1 DEF WinPhase
  <2>3. CASE o \in StopOps /\ WinRuns(ctx.now, op[o], st, mem, work)
    <3>1. WinRuns(ctx.now, r, all, kept, work)
      BY <1>0, <1>1, <1>6, <2>3 DEF WinRuns, CallbackOver, CallbackSet, CallbackRuns, NoCallback
    <3> QED BY <2>3, <3>1 DEF WinPhase
  <2>4. CASE WinCompleted(op[o], st, mem, work)
    <3>1. WinCompleted(r, all, kept, work)
      BY <1>0, <1>1, <1>6, <2>4 DEF WinCompleted, NoCallback
    <3> QED BY <2>4, <3>1 DEF WinPhase
  <2> QED BY <1>0, <2>1, <2>2, <2>3, <2>4
<1> HIDE DEF r, kept
<1>10. WinOp(o \in StopOps, r, all, kept, work, ctx.now)
  BY <1>8, <1>9 DEF WinOp
<1>11. WinChange(o, r, all, kept, work)
  BY <1>2, <1>3, <1>4, <1>8, <1>10 DEF WinChange
<1> QED BY <1>11, WinChanges

\* The work item's callback.
LEMMA WinCallback ==
  ASSUME WinInv, NEW o \in IoOps, Windows!work_callback(o)
  PROVE  WinInv'
<1> DEFINE st == ctx.state_[o]
           mem == ctx.memory[o]
           work == ctx.work[o]
           all == st \cup {"starting"}
           next == IF "stop_requested" \in st THEN "returned" ELSE "deregister"
<1>0. /\ op[o] \in Operation /\ work = "queued" /\ op[o].due <= ctx.now
      /\ \/ WinPending(o \in StopOps, op[o], st, mem, work)
         \/ o \in StopOps /\ WinStopping(op[o], st, mem, work)
  BY WinTypes
     DEF Windows!work_callback, WinOp, WinPhase, WinIdle, WinCompleted, WinCheck, WinSubmit, WinStopping, WinRuns
<1>1. op[o].signals = <<>> /\ op[o].life = "started"
  BY <1>0, WinTypes DEF WinPending, WinStopping
<1>2. CASE o \in StopOps
  <2>1. ctx' = [ctx EXCEPT !.state_ = [ctx.state_ EXCEPT ![o] = all], !.memory = [ctx.memory EXCEPT ![o] = mem],
                           !.work = [ctx.work EXCEPT ![o] = next]]
    <3>1. ctx' = [ctx EXCEPT !.state_ = [ctx.state_ EXCEPT ![o] = all], !.work = [ctx.work EXCEPT ![o] = next]]
      BY <1>2 DEF Windows!work_callback, Windows!Fetch, Windows!StopPossible
    <3>2. ctx.memory = [ctx.memory EXCEPT ![o] = mem]
      BY WinTypes
    <3> HIDE DEF all, next
    <3> QED BY <3>1, <3>2, WinTypes DEF WinCtx
  <2>2. op' = [op EXCEPT ![o] = op[o]]
    BY <1>2 DEF WinInv, Windows!work_callback, Windows!StopPossible
  <2>3. all \subseteq Flags /\ mem \in WinMemory /\ next \in WinWork
    BY WinTypes DEF Flags, WinWork
  <2>4. /\ "starting" \in all /\ ("stop_requested" \in all <=> "stop_requested" \in st)
        /\ ("submit_complete" \in all <=> "submit_complete" \in st) /\ ("running" \in all <=> "running" \in st)
    OBVIOUS
  <2> HIDE DEF st, mem, work, all
  <2>5. WinRuns(ctx.now, op[o], all, mem, next) \/ WinStopping(op[o], all, mem, next)
    BY <1>0, <1>2, <2>4 DEF WinRuns, WinStopping, WinPending
  <2> HIDE DEF next
  <2>6. WinOp(o \in StopOps, op[o], all, mem, next, ctx.now)
    BY <1>0, <1>1, <1>2, <2>5, WinStarted DEF WinPhase
  <2>7. WinChange(o, op[o], all, mem, next)
    BY <1>0, <2>1, <2>2, <2>3, <2>6 DEF WinChange
  <2> QED BY <2>7, WinChanges
<1>3. CASE o \notin StopOps
  <2>1. WinPending(FALSE, op[o], st, mem, work)
    BY <1>0, <1>3 DEF WinPending
  <2>2. PICK signal \in {"value", "error"} : Windows!Finish(o, op[o], signal, "none")
    BY <1>3 DEF Windows!work_callback, Windows!StopPossible, Windows!Signals
  <2>3. NoCallback(op[o]) /\ op[o].start = "returned" /\ mem = "op"
    BY <2>1 DEF WinPending
  <2> QED BY <1>0, <1>1, <2>2, <2>3, WinFinish
<1> QED BY <1>2, <1>3

\* The work callback runs.
LEMMA WinRunning ==
  ASSUME WinInv, NEW o \in IoOps, Windows!DeregisterCallback(o) \/ Windows!MarkRunning(o) \/ Windows!set_value_impl(o)
  PROVE  WinInv'
<1> DEFINE st == ctx.state_[o]
           mem == ctx.memory[o]
           work == ctx.work[o]
<1>0. /\ op[o] \in Operation /\ o \in StopOps /\ WinRuns(ctx.now, op[o], st, mem, work) /\ work \in {"deregister", "registered", "running"}
  BY WinTypes
     DEF Windows!DeregisterCallback, Windows!MarkRunning, Windows!set_value_impl,
         WinOp, WinPhase, WinIdle, WinCompleted, WinCheck, WinSubmit, WinStopping, WinPending
<1>1. op[o].signals = <<>> /\ op[o].life = "started"
  BY <1>0, WinTypes DEF WinRuns
<1>2. CASE Windows!DeregisterCallback(o)
  <2> DEFINE r == Destructed(op[o])
  <2>1. /\ r \in Operation /\ r.cb = "none" /\ r.life = op[o].life /\ r.signals = op[o].signals
        /\ r.stopped = op[o].stopped /\ r.start = op[o].start /\ r.stop = op[o].stop /\ r.due = op[o].due
    BY <1>0, DestructedFacts
  <2>2. op' = [op EXCEPT ![o] = r] /\ op[o].cb # "running" /\ work = "deregister"
    BY <1>2, WinSame DEF Windows!DeregisterCallback, Windows!Step, Windows!MayDestruct
  <2>3. ctx' = [ctx EXCEPT !.state_ = [ctx.state_ EXCEPT ![o] = st], !.memory = [ctx.memory EXCEPT ![o] = mem],
                           !.work = [ctx.work EXCEPT ![o] = "registered"]]
    BY <1>2, WinTypes DEF WinCtx, Windows!DeregisterCallback
  <2>4. st \subseteq Flags /\ mem \in WinMemory /\ "registered" \in WinWork
    BY WinTypes DEF WinWork
  <2> HIDE DEF r, st, mem, work
  <2>5. WinRuns(ctx.now, r, st, mem, "registered")
    BY <1>0, <2>1, <2>2 DEF WinRuns, CallbackOver, CallbackSet, CallbackRuns, NoCallback
  <2>6. WinOp(o \in StopOps, r, st, mem, "registered", ctx.now)
    BY <1>0, <1>1, <2>1, <2>5, WinStarted DEF WinPhase
  <2>7. WinChange(o, r, st, mem, "registered")
    BY <2>1, <2>2, <2>3, <2>4, <2>6 DEF WinChange
  <2> QED BY <2>7, WinChanges
<1>3. CASE Windows!MarkRunning(o)
  <2> DEFINE all == st \cup {"running"}
             kept == IF st = {"starting"} THEN "start" ELSE mem
  <2>1. ctx' = [ctx EXCEPT !.state_ = [ctx.state_ EXCEPT ![o] = all], !.memory = [ctx.memory EXCEPT ![o] = kept],
                           !.work = [ctx.work EXCEPT ![o] = "running"]]
    BY <1>3, WinTypes DEF WinCtx, Windows!MarkRunning, Windows!Fetch
  <2>2. op' = [op EXCEPT ![o] = op[o]] /\ work = "registered"
    BY <1>3 DEF WinInv, Windows!MarkRunning
  <2>3. all \subseteq Flags /\ kept \in WinMemory /\ "running" \in WinWork
    BY WinTypes DEF Flags, WinWork, WinMemory
  <2>4. /\ "running" \in all /\ ("stop_requested" \in all <=> "stop_requested" \in st)
        /\ ("submit_complete" \in all <=> "submit_complete" \in st) /\ ("starting" \in all <=> "starting" \in st)
    OBVIOUS
  <2>5. st = {"starting"} <=> "submit_complete" \notin st
    <3>1. "running" \notin st /\ "starting" \in st /\ "stop_requested" \notin st /\ st \subseteq Flags
      BY <1>0, <2>2, WinTypes DEF WinRuns
    <3> QED BY <3>1 DEF Flags
  <2> HIDE DEF st, mem, work, all
  <2>6. WinRuns(ctx.now, op[o], all, kept, "running")
    BY <1>0, <2>2, <2>4, <2>5 DEF WinRuns
  <2> HIDE DEF kept
  <2>7. WinOp(o \in StopOps, op[o], all, kept, "running", ctx.now)
    BY <1>0, <1>1, <2>6, WinStarted DEF WinPhase
  <2>8. WinChange(o, op[o], all, kept, "running")
    BY <1>0, <2>1, <2>2, <2>3, <2>7 DEF WinChange
  <2> QED BY <2>8, WinChanges
<1>4. CASE Windows!set_value_impl(o)
  <2>1. PICK signal \in {"value", "error"} : Windows!Finish(o, op[o], signal, "none")
    BY <1>4 DEF Windows!set_value_impl, Windows!Signals
  <2>2. work = "running"
    BY <1>4 DEF Windows!set_value_impl
  <2>3. /\ NoCallback(op[o])
        /\ \/ op[o].start = "returned" /\ mem \in {"op", "freed"}
           \/ op[o].start = "submitted" /\ mem = "start" /\ "stop_requested" \notin st /\ "running" \in st
    BY <1>0, <2>2 DEF WinRuns
  <2>4. op[o].due <= ctx.now
    BY <1>0 DEF WinRuns
  <2> QED BY <1>0, <1>1, <2>1, <2>3, <2>4, WinFinish
<1> QED BY <1>2, <1>3, <1>4
\* A stop request, and what it does.
LEMMA WinStopped ==
  ASSUME WinInv, NEW o \in IoOps, Windows!RequestStop(o)
  PROVE  WinInv'
<1> DEFINE st == ctx.state_[o]
           mem == ctx.memory[o]
           work == ctx.work[o]
           r == StopBegun(op[o], "exchange")
<1>0. /\ op[o] \in Operation /\ o \in StopOps /\ ~op[o].stopped /\ op[o].life # "idle"
      /\ Signalled(op[o]) /\ (op[o].signals = <<"value">> => op[o].due <= ctx.now)
      /\ WinPhase(ctx.now, TRUE, op[o], st, mem, work)
  BY WinTypes DEF Windows!RequestStop, Windows!MayRequestStop, WinOp
<1>1. /\ r \in Operation /\ r.stopped
      /\ op[o].cb = "set" => r.cb = "running" /\ r.stop = "exchange"
      /\ op[o].cb # "set" => r.cb = op[o].cb /\ r.stop = op[o].stop
      /\ r.life = op[o].life /\ r.signals = op[o].signals /\ r.start = op[o].start /\ r.due = op[o].due
  <2>1. "exchange" \in Points
    BY DEF Points
  <2> QED BY <1>0, <2>1, StopBegunFacts
<1>2. op' = [op EXCEPT ![o] = r] /\ ctx' = ctx
  BY WinSame DEF Windows!RequestStop, Windows!Step
<1> HIDE DEF r, st, mem, work
<1>3. WinPhase(ctx.now, TRUE, r, st, mem, work)
  <2>1. CASE WinCheck(op[o], st, mem, work)
    <3>1. WinCheck(r, st, mem, work)
      BY <1>1, <2>1 DEF WinCheck, NoCallback
    <3> QED BY <3>1 DEF WinPhase
  <2>2. CASE WinSubmit(op[o], st, mem, work)
    <3>1. WinSubmit(r, st, mem, work)
      BY <1>0, <1>1, <2>2 DEF WinSubmit, CallbackSet, CallbackRuns, CallbackOver
    <3> QED BY <3>1 DEF WinPhase
  <2>3. CASE WinPending(TRUE, op[o], st, mem, work)
    <3>1. WinPending(TRUE, r, st, mem, work)
      BY <1>0, <1>1, <2>3 DEF WinPending, CallbackSet, CallbackRuns
    <3> QED BY <3>1 DEF WinPhase
  <2>4. CASE WinRuns(ctx.now, op[o], st, mem, work)
    <3>1. WinRuns(ctx.now, r, st, mem, work)
      BY <1>0, <1>1, <2>4 DEF WinRuns, CallbackOver, CallbackSet, CallbackRuns, NoCallback
    <3> QED BY <3>1 DEF WinPhase
  <2>5. CASE WinCompleted(op[o], st, mem, work)
    <3>1. WinCompleted(r, st, mem, work)
      BY <1>1, <2>5 DEF WinCompleted, NoCallback
    <3> QED BY <3>1 DEF WinPhase
  <2> QED BY <1>0, <2>1, <2>2, <2>3, <2>4, <2>5 DEF WinPhase, WinIdle, WinStopping
<1>4. WinOp(o \in StopOps, r, st, mem, work, ctx.now)
  BY <1>0, <1>1, <1>3 DEF WinOp, Signalled
<1> QED BY <1>1, <1>2, <1>4, WinMoves DEF st, mem, work

\* A stop is requested of an operation.
LEMMA WinRequestStop ==
  ASSUME WinInv, NEW o \in IoOps, Windows!request_stop(o)
  PROVE  WinInv'
<1> DEFINE st == ctx.state_[o]
           mem == ctx.memory[o]
           work == ctx.work[o]
           cancels == "starting" \notin st /\ "submit_complete" \in st
           all == IF "starting" \in st THEN st ELSE st \cup {"stop_requested"}
           moved == [op[o] EXCEPT !.stop = "cancel"]
           returned == CallbackReturned(op[o])
           r == IF cancels THEN moved ELSE returned
<1>0. /\ op[o] \in Operation /\ o \in StopOps /\ CallbackRuns(op[o]) /\ op[o].signals = <<>> /\ op[o].life = "started"
      /\ \/ WinSubmit(op[o], st, mem, work) \/ WinPending(TRUE, op[o], st, mem, work)
         \/ WinRuns(ctx.now, op[o], st, mem, work)
  <2>1. op[o].stop = "exchange" /\ op[o] \in Operation /\ WinPhase(ctx.now, o \in StopOps, op[o], st, mem, work)
    BY WinTypes DEF Windows!request_stop, WinOp
  <2>2. /\ o \in StopOps /\ CallbackRuns(op[o]) /\ op[o].life = "started"
        /\ \/ WinSubmit(op[o], st, mem, work) \/ WinPending(TRUE, op[o], st, mem, work)
           \/ WinRuns(ctx.now, op[o], st, mem, work)
    BY <2>1 DEF WinPhase, WinIdle, WinCheck, WinSubmit, WinPending, WinStopping, WinRuns, WinCompleted, CallbackSet,
                CallbackRuns, CallbackOver, NoCallback
  <2> QED BY <2>1, <2>2, WinTypes
<1>1. /\ moved \in Operation /\ moved.life = op[o].life /\ moved.stop = "cancel" /\ moved.signals = op[o].signals
      /\ moved.stopped = op[o].stopped /\ moved.cb = op[o].cb /\ moved.start = op[o].start /\ moved.due = op[o].due
      /\ returned \in Operation /\ returned.life = op[o].life /\ returned.stop = "no" /\ returned.cb = "ran"
      /\ returned.signals = op[o].signals /\ returned.stopped = op[o].stopped
      /\ returned.start = op[o].start /\ returned.due = op[o].due
  <2>1. "cancel" \in Points
    BY DEF Points
  <2> QED BY <1>0, <2>1, MovedFacts, CallbackReturnedFacts
<1>2. op' = [op EXCEPT ![o] = r]
  BY WinSame DEF Windows!request_stop, Windows!Step
<1>3. ctx' = [ctx EXCEPT !.state_ = [ctx.state_ EXCEPT ![o] = all], !.memory = [ctx.memory EXCEPT ![o] = mem],
                         !.work = [ctx.work EXCEPT ![o] = work]]
  <2>1. /\ ctx.memory = [ctx.memory EXCEPT ![o] = mem] /\ ctx.work = [ctx.work EXCEPT ![o] = work]
        /\ ctx.state_ = [ctx.state_ EXCEPT ![o] = st]
    BY WinTypes
  <2>2. CASE "starting" \in st
    <3>1. ctx' = ctx
      BY <2>2 DEF Windows!request_stop
    <3> QED BY <2>1, <2>2, <3>1, WinTypes DEF WinCtx
  <2>3. CASE "starting" \notin st
    <3>1. ctx' = [ctx EXCEPT !.state_ = [ctx.state_ EXCEPT ![o] = all]]
      BY <2>3 DEF Windows!request_stop, Windows!Fetch
    <3> HIDE DEF all, st, mem, work
    <3> QED BY <2>1, <3>1, WinTypes DEF WinCtx
  <2> QED BY <2>2, <2>3
<1>4. all \subseteq Flags /\ mem \in WinMemory /\ work \in WinWork
  BY WinTypes DEF Flags
<1>5. \A f \in Flags : f \in all <=> (f = "stop_requested" /\ "starting" \notin st) \/ f \in st
  BY <1>4 DEF Flags
<1>6. /\ "stop_requested" \in all <=> ("starting" \notin st \/ "stop_requested" \in st)
      /\ ("submit_complete" \in all <=> "submit_complete" \in st)
      /\ ("starting" \in all <=> "starting" \in st) /\ ("running" \in all <=> "running" \in st)
  BY <1>5 DEF Flags
<1> HIDE DEF moved, returned, st, mem, work, all
<1>7. r \in Operation /\ r.signals = <<>> /\ r.life = "started" /\ WinPhase(ctx.now, TRUE, r, all, mem, work)
  <2>1. CASE WinSubmit(op[o], st, mem, work)
    <3>1. WinSubmit(r, all, mem, work)
      BY <1>0, <1>1, <1>6, <2>1 DEF WinSubmit, CallbackRuns, CallbackSet, CallbackOver
    <3> QED BY <1>0, <1>1, <3>1 DEF WinPhase
  <2>2. CASE WinPending(TRUE, op[o], st, mem, work)
    <3>1. WinStopping(r, all, mem, work)
      BY <1>0, <1>1, <1>6, <2>2 DEF WinPending, WinStopping, CallbackRuns, CallbackOver
    <3> QED BY <1>0, <1>1, <3>1 DEF WinPhase
  <2>3. CASE WinRuns(ctx.now, op[o], st, mem, work)
    <3>1. WinRuns(ctx.now, r, all, mem, work)
      BY <1>0, <1>1, <1>6, <2>3 DEF WinRuns, CallbackRuns, CallbackOver, NoCallback
    <3> QED BY <1>0, <1>1, <3>1 DEF WinPhase
  <2> QED BY <1>0, <2>1, <2>2, <2>3
<1> HIDE DEF r
<1>8. WinOp(o \in StopOps, r, all, mem, work, ctx.now)
  BY <1>0, <1>7, WinStarted
<1>9. WinChange(o, r, all, mem, work)
  BY <1>2, <1>3, <1>4, <1>7, <1>8 DEF WinChange
<1> QED BY <1>9, WinChanges

\* complete_with_done().
LEMMA WinCancel ==
  ASSUME WinInv, NEW o \in IoOps, Windows!complete_with_done(o)
  PROVE  WinInv'
<1> DEFINE st == ctx.state_[o]
           mem == ctx.memory[o]
           work == ctx.work[o]
<1>0. /\ op[o] \in Operation /\ o \in StopOps /\ WinStopping(op[o], st, mem, work)
  BY WinTypes
     DEF Windows!complete_with_done, WinOp, WinPhase, WinIdle, WinCheck, WinSubmit, WinRuns, WinPending, WinCompleted,
         CallbackSet, CallbackRuns, CallbackOver, NoCallback
<1>1. op[o].signals = <<>> /\ op[o].life = "started" /\ op[o].stopped /\ mem = "op"
  BY <1>0, WinTypes DEF WinStopping
<1>2. CASE op[o].start = "cancel" /\ Windows!Cancelled(o) /\ Windows!Step(o, [op[o] EXCEPT !.start = "destruct"])
           /\ ctx' = [ctx EXCEPT !.work[o] = "none"]
  <2> DEFINE r == [op[o] EXCEPT !.start = "destruct"]
  <2>1. /\ r \in Operation /\ r.start = "destruct" /\ r.life = op[o].life /\ r.signals = op[o].signals
        /\ r.stopped = op[o].stopped /\ r.cb = op[o].cb /\ r.stop = op[o].stop
    <3>1. "destruct" \in Points
      BY DEF Points
    <3> QED BY <1>0, <3>1, MovedFacts
  <2>2. op' = [op EXCEPT ![o] = r]
    BY <1>2 DEF Windows!Step
  <2>3. ctx' = [ctx EXCEPT !.state_ = [ctx.state_ EXCEPT ![o] = st], !.memory = [ctx.memory EXCEPT ![o] = mem],
                           !.work = [ctx.work EXCEPT ![o] = "none"]]
    BY <1>2, WinTypes DEF WinCtx
  <2>4. st \subseteq Flags /\ mem \in WinMemory /\ "none" \in WinWork
    BY WinTypes DEF WinWork
  <2> HIDE DEF r, st, mem, work
  <2>5. WinStopping(r, st, mem, "none")
    BY <1>0, <1>2, <2>1 DEF WinStopping, CallbackOver
  <2>6. WinOp(o \in StopOps, r, st, mem, "none", ctx.now)
    BY <1>0, <1>1, <2>1, <2>5, WinStarted DEF WinPhase
  <2>7. WinChange(o, r, st, mem, "none")
    BY <2>1, <2>2, <2>3, <2>4, <2>6 DEF WinChange
  <2> QED BY <2>7, WinChanges
<1>3. CASE op[o].start = "destruct" /\ Windows!Finish(o, Returned(Destructed(op[o])), "done", ctx.work[o])
  <2> DEFINE d == Destructed(op[o])
             r == Returned(d)
  <2>1. /\ d \in Operation /\ d.cb = "none" /\ d.signals = <<>> /\ d.stopped = op[o].stopped /\ d.stop = op[o].stop
    BY <1>0, <1>1, DestructedFacts
  <2>2. /\ r \in Operation /\ r.cb = "none" /\ r.signals = <<>> /\ r.stopped = op[o].stopped /\ r.stop = op[o].stop
        /\ r.start = "returned"
    <3> HIDE DEF d
    <3> QED BY <2>1, ReturnedFacts
  <2>3. work = "none" /\ op[o].stop = "no"
    BY <1>0, <1>3 DEF WinStopping, CallbackOver
  <2>4. Windows!Finish(o, r, "done", "none")
    BY <1>3, <2>3
  <2> HIDE DEF d, r
  <2>5. NoCallback(r)
    BY <2>2, <2>3 DEF NoCallback
  <2> QED BY <1>1, <2>2, <2>4, <2>5, WinFinish
<1>4. CASE op[o].stop = "cancel" /\ Windows!Finish(o, [Destructed(op[o]) EXCEPT !.stop = "no"], "done", "none")
  <2> DEFINE d == Destructed(op[o])
             r == [d EXCEPT !.stop = "no"]
  <2>1. /\ d \in Operation /\ d.cb = "none" /\ d.signals = <<>> /\ d.stopped = op[o].stopped /\ d.start = op[o].start
    BY <1>0, <1>1, DestructedFacts
  <2>2. /\ r \in Operation /\ r.cb = "none" /\ r.signals = <<>> /\ r.stopped = op[o].stopped /\ r.stop = "no"
        /\ r.start = op[o].start
    <3>1. "no" \in Points
      BY DEF Points
    <3>2. /\ r \in Operation /\ r.cb = d.cb /\ r.signals = d.signals /\ r.stopped = d.stopped /\ r.stop = "no"
          /\ r.start = d.start
      <4> HIDE DEF d
      <4> QED BY <2>1, <3>1, MovedFacts
    <3> HIDE DEF d, r
    <3> QED BY <2>1, <3>2
  <2>3. op[o].start = "returned"
    BY <1>0, <1>4 DEF WinStopping, CallbackOver
  <2>4. Windows!Finish(o, r, "done", "none")
    BY <1>4
  <2> HIDE DEF d, r
  <2>5. NoCallback(r)
    BY <2>2 DEF NoCallback
  <2> QED BY <1>1, <2>2, <2>3, <2>4, <2>5, WinFinish
<1> QED BY <1>2, <1>3, <1>4, WinSame DEF Windows!complete_with_done

\* Time passes.
LEMMA WinTick ==
  ASSUME WinInv, Windows!Tick
  PROVE  WinInv'
<1>1. ctx \in WinCtx /\ ctx.now \in Int /\ op' = op /\ ctx' = [ctx EXCEPT !.now = ctx.now + 1]
  BY DEF WinInv, WinCtx, Windows!Tick
<1>2. /\ ctx' \in WinCtx /\ ctx'.now = ctx.now + 1
      /\ ctx'.state_ = ctx.state_ /\ ctx'.memory = ctx.memory /\ ctx'.work = ctx.work
  BY <1>1 DEF WinCtx
<1>3. ASSUME NEW o \in IoOps
      PROVE  WinOp(o \in StopOps, op[o], ctx.state_[o], ctx.memory[o], ctx.work[o], ctx.now + 1)
  <2>1. op[o].due \in Int
    BY DEF WinInv, Operation
  <2> QED BY <1>1, <2>1, WinTypes DEF WinOp, WinPhase, WinRuns
<1> QED BY <1>1, <1>2, <1>3 DEF WinInv

\* The initial states.
LEMMA WinStarts ==
  ASSUME Windows!Init
  PROVE  WinInv
<1>1. /\ op \in [IoOps -> {NewOp("schedule"), NewOp("timed")}]
      /\ ctx = [state_ |-> [o \in IoOps |-> {}], memory |-> [o \in IoOps |-> "op"],
                work |-> [o \in IoOps |-> "none"], now |-> 0]
  BY DEF Windows!Init, Windows!NewOp, NewOp, Windows!Nobody, Nobody
<1>2. ctx \in WinCtx
  BY <1>1 DEF WinCtx, WinMemory, WinWork
<1>3. op \in [IoOps -> Operation]
  BY <1>1, NewFacts
<1>4. ASSUME NEW o \in IoOps
      PROVE  WinOp(o \in StopOps, op[o], ctx.state_[o], ctx.memory[o], ctx.work[o], ctx.now)
  <2>1. /\ op[o].life = "idle" /\ op[o].signals = <<>> /\ ~op[o].stopped /\ op[o].cb = "none" /\ op[o].start = "no"
        /\ op[o].stop = "no"
    BY <1>1, NewFacts
  <2>2. ctx.state_[o] = {} /\ ctx.memory[o] = "op" /\ ctx.work[o] = "none"
    BY <1>1
  <2>3. WinIdle(op[o], ctx.state_[o], ctx.memory[o], ctx.work[o])
    BY <2>1, <2>2 DEF WinIdle, NoCallback
  <2> QED BY <1>3, <2>1, <2>3, WinStarted DEF WinPhase
<1> QED BY <1>2, <1>3, <1>4 DEF WinInv

\* Every step keeps the invariant.
LEMMA WinNext ==
  ASSUME WinInv, Windows!Next
  PROVE  WinInv'
BY WinStart, WinBegins, WinSubmitComplete, WinCallback, WinRunning, WinStopped, WinRequestStop, WinCancel, WinTick
   DEF Windows!Next, Windows!System, Windows!User

-----------------------------------------------------------------------------
\* io_epoll_context.  What is linked into its queues, and where.
EpOp(o) == <<"op", o>>
EpDoneOp(o) == <<"done_op", o>>
EpStopOp == <<"stop", "run">>
EpItems == {EpOp(o) : o \in IoOps} \cup {EpDoneOp(o) : o \in IoOps} \cup {EpStopOp}
EpInactive == <<<<"inactive", "run">>>>
Pending(queue) == IF queue = EpInactive THEN <<>> ELSE queue
InBatch(c, item) == InList(c.batch, item)
Behind(c, item) == InList(c.localQueue_, item) \/ InList(Pending(c.remoteQueue_), item)
EpQueued(c, item) == InBatch(c, item) \/ Behind(c, item)

Handlers == {"none", "gone", "schedule", "start_io", "on_read_complete", "start_local", "maybe_complete_with_value",
             "complete_with_done", "remove_timer_from_queue_and_complete_with_done"}
EpPc == {"items", "user", "register", "register in start", "waiting", "returned"}
EpollCtx ==
  [localQueue_ : Seq(EpItems), batch : Seq(EpItems), remoteQueue_ : Seq(EpItems) \cup {EpInactive},
   timers_ : Seq(IoOps), registered : SUBSET IoOps, ready : SUBSET IoOps,
   remoteQueueReadSubmitted_ : BOOLEAN, timersAreDirty_ : BOOLEAN, currentDueTime_ : Seq(Int),
   eventfd : BOOLEAN, now : Int, pc : EpPc, shouldStop_ : BOOLEAN,
   stopper : {"no", "signal", "done", "never"}, destroyed : BOOLEAN, patient : SUBSET StopOps,
   execute_ : [IoOps -> Handlers], elapsed : SUBSET IoOps, cancelPending : SUBSET IoOps]

\* The queues hold an item at most once, and one of them.
EpLists(c) ==
  /\ Once(c.batch) /\ Once(c.localQueue_) /\ Once(Pending(c.remoteQueue_)) /\ Once(c.timers_)
  /\ \A item \in EpItems :
       /\ ~(InBatch(c, item) /\ Behind(c, item))
       /\ ~(InList(c.localQueue_, item) /\ InList(Pending(c.remoteQueue_), item))
  /\ c.stopper = "no" => ~EpQueued(c, EpStopOp)
  /\ c.pc \in {"waiting", "returned"} => c.batch = <<>>

\* Who has to write to the eventfd, or has written: one at most.  Until
\* the I/O thread has seen it, it takes nothing from the remote queue.
WakeToken(f, c, token) ==
  /\ \A o \in IoOps : /\ f[o].start = "signal" <=> token = <<"start", o>>
                      /\ f[o].stop = "signal" <=> token = <<"stop", o>>
  /\ c.stopper = "signal" <=> token = <<"stopper", "run">>
  /\ c.eventfd <=> token = <<"eventfd", "run">>
  /\ c.remoteQueue_ = EpInactive => token = <<>>
  /\ token # <<>> \/ c.remoteQueue_ = EpInactive => c.remoteQueueReadSubmitted_
Wakes(f, c) == \E token \in {<<>>, <<"stopper", "run">>, <<"eventfd", "run">>} \cup {"start", "stop"} \X IoOps :
                 WakeToken(f, c, token)

\* The phases of an operation: what it is (r), what its item is to run (x)
\* and where it is: reaped from the timers (e), its stop request pending
\* (p), its descriptor registered (g), in the timers (t), its item in the
\* batch (b) or behind it (q), its done_op queued (d).
Wakening(r) == r.cb = "running" /\ r.stop = "signal"
CallbackOut(r) == r.cb = "ran" /\ r.stop = "no"
NoCall(r) == r.cb = "none" /\ r.stop = "no"
EpIdle(r, x, e, p, g, t, b, q, d) ==
  /\ r.life = "idle" /\ r.start = "no" /\ r.stop = "no" /\ r.cb = "none" /\ ~r.stopped
  /\ ~e /\ ~p /\ ~g /\ ~t /\ ~b /\ ~q /\ ~d
EpStarts(r, x, e, p, g, t, b, q, d) ==
  /\ r.life = "started" /\ r.stop = "no" /\ r.cb = "none"
  /\ x = CASE r.kind = "schedule" -> "schedule" [] r.kind = "read" -> "start_io" [] r.kind = "timed" -> "start_local"
  /\ r.kind = "read" => ~r.stopped
  /\ b \/ q
  /\ ~e /\ ~p /\ ~g /\ ~t /\ ~d
EpTimer(r, x, e, p, g, t, b, q, d) ==
  /\ r.life = "started" /\ r.kind = "timed" /\ x = "maybe_complete_with_value"
  /\ ~g /\ ~d /\ (t <=> ~e)
  /\ \/ r.cb = "set" /\ r.stop = "no" /\ ~r.stopped /\ ~p /\ (b \/ q <=> e)
     \/ r.cb = "running" /\ r.stop = "flag" /\ r.stopped /\ ~p /\ (b \/ q <=> e)
     \/ r.cb = "ran" /\ r.stop = "no" /\ r.stopped /\ p /\ e /\ (b \/ q)
     \/ r.cb = "running" /\ r.stop = "enqueue" /\ r.stopped /\ p /\ ~b /\ ~q
EpLeaves(r, x, e, p, g, t, b, q, d) ==
  /\ r.life = "started" /\ r.kind = "timed" /\ r.stopped /\ ~g /\ ~d /\ (b \/ q)
  /\ \/ /\ x = "remove_timer_from_queue_and_complete_with_done" /\ p /\ (t <=> ~e)
        /\ Wakening(r) \/ CallbackOut(r)
     \/ /\ x = "complete_with_done" /\ ~p /\ ~t /\ NoCall(r)
EpReads(r, x, e, p, g, t, b, q, d) ==
  /\ r.life = "started" /\ r.kind = "read" /\ ~q /\ ~d /\ ~t /\ ~e
  /\ \/ x = "start_io" /\ r.cb = "set" /\ r.stop = "no" /\ ~r.stopped /\ ~p /\ ~g /\ ~b
     \/ /\ x = "on_read_complete"
        /\ \/ r.cb = "set" /\ r.stop = "no" /\ ~r.stopped /\ ~p /\ g
           \/ r.cb = "running" /\ r.stop = "flag" /\ r.stopped /\ ~p /\ g
           \/ r.cb = "running" /\ r.stop = "deregister" /\ r.stopped /\ p /\ g
           \/ r.cb = "running" /\ r.stop = "enqueue" /\ r.stopped /\ p /\ ~g
EpStops(r, x, e, p, g, t, b, q, d) ==
  /\ r.life = "started" /\ r.kind = "read" /\ x = "on_read_complete" /\ r.stopped
  /\ ~q /\ d /\ ~t /\ ~e /\ ~g /\ p
  /\ Wakening(r) \/ CallbackOut(r) \/ NoCall(r)
EpOver(r, x, e, p, g, t, b, q, d) ==
  /\ r.life = "completed" /\ x = "gone"
  /\ NoCall(r) \/ (r.kind = "read" /\ (Wakening(r) \/ CallbackOut(r)))
  /\ ~e /\ ~p /\ ~g /\ ~t /\ ~b /\ ~q /\ ~d
EpPhase(r, x, e, p, g, t, b, q, d) ==
  \/ EpIdle(r, x, e, p, g, t, b, q, d) \/ EpStarts(r, x, e, p, g, t, b, q, d) \/ EpTimer(r, x, e, p, g, t, b, q, d)
  \/ EpLeaves(r, x, e, p, g, t, b, q, d) \/ EpReads(r, x, e, p, g, t, b, q, d) \/ EpStops(r, x, e, p, g, t, b, q, d)
  \/ EpOver(r, x, e, p, g, t, b, q, d)
EpGood(r, e, now) ==
  /\ Signalled(r)
  /\ e => r.due <= now
  /\ r.kind = "timed" /\ r.signals = <<"value">> => r.due <= now
EpAt(o, r, c) ==
  /\ EpGood(r, o \in c.elapsed, c.now)
  /\ EpPhase(r, c.execute_[o], o \in c.elapsed, o \in c.cancelPending, o \in c.registered, InList(c.timers_, o),
             InBatch(c, EpOp(o)), Behind(c, EpOp(o)), EpQueued(c, EpDoneOp(o)))
EpollInv ==
  /\ op \in [IoOps -> Operation] /\ ctx \in EpollCtx
  /\ EpLists(ctx)
  /\ Wakes(op, ctx)
  /\ \A o \in IoOps : EpAt(o, op[o], ctx)

\* The handlers take a state to a state: what they make of each part.
St(f, c) == [op |-> f, ctx |-> c]
ToLocal(c, item) == [c EXCEPT !.localQueue_ = Append(c.localQueue_, item)]
ToRemote(c, item) ==
  [c EXCEPT !.remoteQueue_ = IF c.remoteQueue_ = EpInactive THEN <<item>> ELSE Append(c.remoteQueue_, item)]
Handles(c, o, x) == [c EXCEPT !.execute_ = [c.execute_ EXCEPT ![o] = x]]
Flagged(c, o) == [c EXCEPT !.cancelPending = c.cancelPending \cup {o}]
Unregistered(c, o) == [c EXCEPT !.registered = c.registered \ {o}]
InTimers(f, c, o) ==
  [c EXCEPT !.timers_ = InsertByDueTime(f, c.timers_, o),
            !.timersAreDirty_ = c.timersAreDirty_ \/ Head(InsertByDueTime(f, c.timers_, o)) = o]
OffTimers(c, o) ==
  [c EXCEPT !.timers_ = Unlink(c.timers_, o), !.timersAreDirty_ = c.timersAreDirty_ \/ Head(c.timers_) = o]
At(c, pc) == [c EXCEPT !.pc = pc]
ToRegister(c) == IF c.pc = "user" THEN "register in start" ELSE "register"
Gone(c, o) ==
  [c EXCEPT !.pc = "user", !.execute_ = [c.execute_ EXCEPT ![o] = "gone"],
            !.elapsed = c.elapsed \ {o}, !.cancelPending = c.cancelPending \ {o}]

LEMMA EpSame ==
  /\ \A r, by, pc : Epoll!Begun(r, by, pc) = Begun(r, by, pc)
  /\ \A r : Epoll!Returned(r) = Returned(r)
  /\ \A r, signal : Epoll!Completed(r, signal) = Completed(r, signal)
  /\ \A r : Epoll!CompletedScheduled(r) = CompletedScheduled(r)
  /\ \A r : Epoll!Constructed(r) = Constructed(r)
  /\ \A r : Epoll!Destructed(r) = Destructed(r)
  /\ \A r, pc : Epoll!StopBegun(r, pc) = StopBegun(r, pc)
  /\ \A r : Epoll!CallbackReturned(r) = CallbackReturned(r)
  /\ Epoll!Outside = Outside
BY DEF Epoll!Begun, Begun, Epoll!Returned, Returned, Epoll!Nobody, Nobody, Epoll!Outside, Outside,
       Epoll!CompletedScheduled, CompletedScheduled, Epoll!Completed, Completed, Epoll!Constructed, Constructed,
       Epoll!Destructed, Destructed, Epoll!StopBegun, StopBegun, Epoll!CallbackReturned, CallbackReturned

LEMMA EpSameItems ==
  /\ \A o : Epoll!Op(o) = EpOp(o) /\ Epoll!DoneOp(o) = EpDoneOp(o)
  /\ Epoll!StopOp = EpStopOp /\ Epoll!Inactive = EpInactive
BY DEF Epoll!Op, EpOp, Epoll!DoneOp, EpDoneOp, Epoll!StopOp, EpStopOp, Epoll!Inactive, EpInactive

LEMMA EpSameLists ==
  /\ \A list, o : Epoll!Unlink(list, o) = Unlink(list, o)
  /\ \A ops, list, due : Epoll!FirstLater(ops, list, due) = FirstLater(ops, list, due)
  /\ \A ops, list, o : Epoll!InsertByDueTime(ops, list, o) = InsertByDueTime(ops, list, o)
<1>1. \A list, o : Epoll!Unlink(list, o) = Unlink(list, o)
  BY DEF Epoll!Unlink, Unlink, Epoll!Items, Items, Epoll!Position, Position
<1>2. \A list, k, o : Epoll!Link(list, k, o) = Link(list, k, o)
  BY DEF Epoll!Link, Link
<1>3. \A ops, list, due : Epoll!FirstLater(ops, list, due) = FirstLater(ops, list, due)
  BY DEF Epoll!FirstLater, FirstLater
<1>4. \A ops, list, o : Epoll!InsertByDueTime(ops, list, o) = InsertByDueTime(ops, list, o)
  BY <1>2, <1>3 DEF Epoll!InsertByDueTime, InsertByDueTime
<1> QED BY <1>1, <1>3, <1>4

LEMMA EpStartReturns ==
  ASSUME NEW f, NEW c, NEW o
  PROVE  Epoll!StartReturns(St(f, c), o) = St([f EXCEPT ![o] = Returned(f[o])], c)
BY EpSame DEF Epoll!StartReturns, St

LEMMA EpCompleteScheduled ==
  ASSUME NEW f, NEW c, NEW o
  PROVE  Epoll!CompleteScheduled(St(f, c), o) = St([f EXCEPT ![o] = CompletedScheduled(f[o])], c)
BY EpSame DEF Epoll!CompleteScheduled, St

LEMMA EpConstruct ==
  ASSUME NEW f, NEW c, NEW o
  PROVE  Epoll!Construct(St(f, c), o) = St([f EXCEPT ![o] = Constructed(f[o])], c)
BY EpSame DEF Epoll!Construct, St

LEMMA EpDestruct ==
  ASSUME NEW f, NEW c, NEW o
  PROVE  Epoll!Destruct(St(f, c), o) = St([f EXCEPT ![o] = Destructed(f[o])], c)
BY EpSame DEF Epoll!Destruct, St

LEMMA EpCallbackReturns ==
  ASSUME NEW f, NEW c, NEW o
  PROVE  Epoll!CallbackReturns(St(f, c), o) = St([f EXCEPT ![o] = CallbackReturned(f[o])], c)
BY EpSame DEF Epoll!CallbackReturns, St

LEMMA EpComplete ==
  ASSUME NEW f, NEW c, NEW o, NEW signal
  PROVE  Epoll!Complete(St(f, c), o, signal) = St([f EXCEPT ![o] = Completed(f[o], signal)], c)
BY EpSame DEF Epoll!Complete, St

LEMMA EpStopBegins ==
  ASSUME NEW f, NEW c, NEW o, NEW pc
  PROVE  Epoll!StopBegins(St(f, c), o, pc) = St([f EXCEPT ![o] = StopBegun(f[o], pc)], c)
BY EpSame DEF Epoll!StopBegins, St

LEMMA EpParts ==
  ASSUME NEW f, NEW c \in EpollCtx, NEW o
  PROVE  LET s == St(f, c) IN
         /\ \A item : Epoll!schedule_local(s, item) = St(f, ToLocal(c, item))
         /\ \A item : Epoll!schedule_remote(s, item) = St(f, ToRemote(c, item))
         /\ Epoll!schedule_at_impl(s, o) = St(f, InTimers(f, c, o))
         /\ Epoll!remove_timer(s, o) = St(f, OffTimers(c, o))
         /\ Epoll!ToUser(s, o) = St(f, Gone(c, o))
         /\ Epoll!Deregister(s, o) = St(f, Unregistered(c, o))
<1> DEFINE s == St(f, c)
<1>1. s.op = f /\ s.ctx = c /\ \A d : [s EXCEPT !.ctx = d] = St(f, d)
  BY DEF St
<1>2. \A item : Epoll!schedule_local(s, item) = St(f, ToLocal(c, item))
  BY <1>1 DEF Epoll!schedule_local, ToLocal, St
<1>3. \A item : Epoll!schedule_remote(s, item) = St(f, ToRemote(c, item))
  BY <1>1, EpSameItems DEF Epoll!schedule_remote, Epoll!enqueue, ToRemote, St
<1>4. Epoll!schedule_at_impl(s, o) = St(f, InTimers(f, c, o))
  BY <1>1, EpSameLists DEF Epoll!schedule_at_impl, InTimers, St
<1>5. Epoll!remove_timer(s, o) = St(f, OffTimers(c, o))
  BY <1>1, EpSameLists DEF Epoll!remove_timer, OffTimers, St
<1>6. Epoll!ToUser(s, o) = St(f, Gone(c, o))
  <2> DEFINE c1 == [c EXCEPT !.pc = "user"]
             c2 == [c1 EXCEPT !.execute_ = [c1.execute_ EXCEPT ![o] = "gone"]]
             c3 == [c2 EXCEPT !.elapsed = c.elapsed \ {o}]
             c4 == [c3 EXCEPT !.cancelPending = c.cancelPending \ {o}]
             s1 == [s EXCEPT !.ctx.pc = "user"]
             s2 == [s1 EXCEPT !.ctx.execute_[o] = "gone"]
             s3 == [s2 EXCEPT !.ctx.elapsed = s.ctx.elapsed \ {o}]
             s4 == [s3 EXCEPT !.ctx.cancelPending = s.ctx.cancelPending \ {o}]
  <2>a. s1 = St(f, c1) /\ s1.ctx = c1
    BY <1>1 DEF St
  <2>b. s2 = St(f, c2)
    <3> HIDE DEF s1, c1
    <3> QED BY <2>a DEF St
  <2>c. s3 = St(f, c3)
    <3> HIDE DEF s2, c2
    <3> QED BY <1>1, <2>b DEF St
  <2>d. s4 = St(f, c4)
    <3> HIDE DEF s3, c3
    <3> QED BY <1>1, <2>c DEF St
  <2>1. Epoll!ToUser(s, o) = St(f, c4)
    <3> HIDE DEF c4, s
    <3>1. Epoll!ToUser(s, o) = s4
      BY DEF Epoll!ToUser
    <3> QED BY <3>1, <2>d
  <2>2. c1.execute_ = c.execute_
    BY DEF EpollCtx
  <2>3. c4 = Gone(c, o)
    BY <2>2 DEF Gone
  <2> QED BY <2>1, <2>3
<1>7. Epoll!Deregister(s, o) = St(f, Unregistered(c, o))
  BY <1>1 DEF Epoll!Deregister, Unregistered, St
<1> QED BY <1>2, <1>3, <1>4, <1>5, <1>6, <1>7

\* What the handlers do to the context besides.
LEMMA EpHandles ==
  ASSUME NEW f, NEW c \in EpollCtx, NEW o, NEW x
  PROVE  [St(f, c) EXCEPT !.ctx.execute_[o] = x] = St(f, Handles(c, o, x))
BY DEF Handles, St

LEMMA EpFlags ==
  ASSUME NEW f, NEW c \in EpollCtx, NEW o
  PROVE  [St(f, c) EXCEPT !.ctx.cancelPending = @ \cup {o}] = St(f, Flagged(c, o))
BY DEF Flagged, St

LEMMA EpStartIo ==
  ASSUME NEW f, NEW c \in EpollCtx, NEW o, o \notin c.ready, ~f[o].stopped, NEW g, Epoll!Construct(St(f, c), o) = St(g, c)
  PROVE  Epoll!start_io(St(f, c), o) = St(g, At(c, ToRegister(c)))
<1> DEFINE s == St(g, c)
           pc == ToRegister(c)
<1>1. s.ctx.pc = c.pc /\ St(f, c).op[o] = f[o] /\ St(f, c).ctx = c
  BY DEF St
<1>2. Epoll!start_io(St(f, c), o) = [s EXCEPT !.ctx.pc = pc]
  <2> HIDE DEF s
  <2>1. Epoll!Construct(St(f, c), o) = s
    BY DEF s
  <2> QED BY <1>1, <2>1 DEF Epoll!start_io, ToRegister
<1> QED BY <1>2 DEF At, St

-----------------------------------------------------------------------------
\* What a step of one operation leaves of the others, and of who is to
\* wake the I/O thread.
SameElsewhere(c, d, o) ==
  /\ (o \in d.elapsed <=> o \in c.elapsed) /\ (o \in d.cancelPending <=> o \in c.cancelPending)
  /\ (o \in d.registered <=> o \in c.registered)
SameQueued(c, d, o) ==
  /\ (InBatch(d, EpOp(o)) <=> InBatch(c, EpOp(o))) /\ (Behind(d, EpOp(o)) <=> Behind(c, EpOp(o)))
  /\ (EpQueued(d, EpDoneOp(o)) <=> EpQueued(c, EpDoneOp(o)))
SameView(c, d, o) ==
  /\ d.execute_[o] = c.execute_[o] /\ SameElsewhere(c, d, o)
  /\ (InList(d.timers_, o) <=> InList(c.timers_, o)) /\ SameQueued(c, d, o)
EpKeep(c, d, o) ==
  /\ d \in EpollCtx /\ EpLists(d) /\ d.now = c.now /\ \A p \in IoOps : p # o => SameView(c, d, p)
EpWake(c, d) ==
  /\ d.eventfd = c.eventfd /\ d.stopper = c.stopper
  /\ d.remoteQueueReadSubmitted_ = c.remoteQueueReadSubmitted_
  /\ d.remoteQueue_ = EpInactive <=> c.remoteQueue_ = EpInactive

LEMMA EpItemFacts ==
  /\ \A o \in IoOps : /\ EpOp(o) \in EpItems /\ EpDoneOp(o) \in EpItems
                      /\ EpOp(o) # EpStopOp /\ EpDoneOp(o) # EpStopOp
                      /\ EpOp(o)[1] = "op" /\ EpOp(o)[2] = o /\ EpDoneOp(o)[1] = "done_op" /\ EpDoneOp(o)[2] = o
  /\ \A o, p \in IoOps : /\ EpOp(o) # EpDoneOp(p) /\ (EpOp(o) = EpOp(p) => o = p)
                         /\ EpDoneOp(o) = EpDoneOp(p) => o = p
  /\ EpStopOp \in EpItems /\ EpStopOp[1] = "stop"
  /\ \A item \in EpItems : item # EpInactive[1]
BY DEF EpItems, EpOp, EpDoneOp, EpStopOp, EpInactive

LEMMA EpKeepTrans ==
  ASSUME NEW c, NEW d, NEW e, NEW o, EpKeep(c, d, o), EpKeep(d, e, o)
  PROVE  EpKeep(c, e, o)
BY DEF EpKeep, SameView, SameElsewhere, SameQueued

LEMMA EpWakeTrans ==
  ASSUME NEW c, NEW d, NEW e, EpWake(c, d), EpWake(d, e)
  PROVE  EpWake(c, e)
BY DEF EpWake

\* The parts that are not lists.
LEMMA PendingFacts ==
  ASSUME NEW c \in EpollCtx
  PROVE  Pending(c.remoteQueue_) \in Seq(EpItems)
BY DEF Pending, EpollCtx

LEMMA EpListsSame ==
  ASSUME NEW c \in EpollCtx, EpLists(c), NEW d \in EpollCtx,
         d.batch = c.batch, d.localQueue_ = c.localQueue_, d.remoteQueue_ = c.remoteQueue_, d.timers_ = c.timers_,
         d.stopper = "no" => c.stopper = "no", d.pc \in {"waiting", "returned"} => c.pc \in {"waiting", "returned"}
  PROVE  /\ EpLists(d)
         /\ \A item : /\ InBatch(d, item) <=> InBatch(c, item)
                      /\ Behind(d, item) <=> Behind(c, item)
                      /\ EpQueued(d, item) <=> EpQueued(c, item)
         /\ \A o : InList(d.timers_, o) <=> InList(c.timers_, o)
<1>1. \A item : /\ InBatch(d, item) <=> InBatch(c, item)
                /\ Behind(d, item) <=> Behind(c, item)
                /\ EpQueued(d, item) <=> EpQueued(c, item)
  BY DEF InBatch, Behind, EpQueued
<1> QED BY <1>1 DEF EpLists

LEMMA HandlesFacts ==
  ASSUME NEW c \in EpollCtx, EpLists(c), NEW o \in IoOps, NEW x \in Handlers
  PROVE  LET d == Handles(c, o, x) IN
         /\ EpKeep(c, d, o) /\ EpWake(c, d)
         /\ d.execute_[o] = x /\ SameElsewhere(c, d, o) /\ SameQueued(c, d, o) /\ d.timers_ = c.timers_ /\ d.pc = c.pc
<1> DEFINE d == Handles(c, o, x)
<1>1. /\ d \in EpollCtx /\ d.execute_ = [c.execute_ EXCEPT ![o] = x] /\ d.elapsed = c.elapsed
      /\ d.cancelPending = c.cancelPending /\ d.registered = c.registered /\ d.timers_ = c.timers_
      /\ d.batch = c.batch /\ d.localQueue_ = c.localQueue_ /\ d.remoteQueue_ = c.remoteQueue_ /\ d.pc = c.pc
      /\ d.stopper = c.stopper /\ d.eventfd = c.eventfd /\ d.now = c.now
      /\ d.remoteQueueReadSubmitted_ = c.remoteQueueReadSubmitted_ /\ c.execute_ \in [IoOps -> Handlers]
  BY DEF Handles, EpollCtx
<1> HIDE DEF d
<1>2. d.execute_[o] = x /\ \A p \in IoOps : p # o => d.execute_[p] = c.execute_[p]
  BY <1>1
<1> QED BY <1>1, <1>2, EpListsSame DEF d, EpKeep, EpWake, SameView, SameElsewhere, SameQueued

LEMMA FlaggedFacts ==
  ASSUME NEW c \in EpollCtx, EpLists(c), NEW o \in IoOps
  PROVE  LET d == Flagged(c, o) IN
         /\ EpKeep(c, d, o) /\ EpWake(c, d)
         /\ d.execute_ = c.execute_ /\ d.elapsed = c.elapsed /\ d.cancelPending = c.cancelPending \cup {o}
         /\ d.registered = c.registered /\ SameQueued(c, d, o) /\ d.timers_ = c.timers_ /\ d.pc = c.pc
<1> DEFINE d == Flagged(c, o)
<1>1. /\ d \in EpollCtx /\ d.execute_ = c.execute_ /\ d.elapsed = c.elapsed
      /\ d.cancelPending = c.cancelPending \cup {o} /\ d.registered = c.registered /\ d.timers_ = c.timers_
      /\ d.batch = c.batch /\ d.localQueue_ = c.localQueue_ /\ d.remoteQueue_ = c.remoteQueue_ /\ d.pc = c.pc
      /\ d.stopper = c.stopper /\ d.eventfd = c.eventfd /\ d.now = c.now
      /\ d.remoteQueueReadSubmitted_ = c.remoteQueueReadSubmitted_
  BY DEF Flagged, EpollCtx
<1> HIDE DEF d
<1> QED BY <1>1, EpListsSame DEF d, EpKeep, EpWake, SameView, SameElsewhere, SameQueued

LEMMA UnregisteredFacts ==
  ASSUME NEW c \in EpollCtx, EpLists(c), NEW o \in IoOps
  PROVE  LET d == Unregistered(c, o) IN
         /\ EpKeep(c, d, o) /\ EpWake(c, d)
         /\ d.execute_ = c.execute_ /\ d.elapsed = c.elapsed /\ d.cancelPending = c.cancelPending
         /\ d.registered = c.registered \ {o} /\ SameQueued(c, d, o) /\ d.timers_ = c.timers_ /\ d.pc = c.pc
<1> DEFINE d == Unregistered(c, o)
<1>1. /\ d \in EpollCtx /\ d.execute_ = c.execute_ /\ d.elapsed = c.elapsed
      /\ d.cancelPending = c.cancelPending /\ d.registered = c.registered \ {o} /\ d.timers_ = c.timers_
      /\ d.batch = c.batch /\ d.localQueue_ = c.localQueue_ /\ d.remoteQueue_ = c.remoteQueue_ /\ d.pc = c.pc
      /\ d.stopper = c.stopper /\ d.eventfd = c.eventfd /\ d.now = c.now
      /\ d.remoteQueueReadSubmitted_ = c.remoteQueueReadSubmitted_
  BY DEF Unregistered, EpollCtx
<1> HIDE DEF d
<1> QED BY <1>1, EpListsSame DEF d, EpKeep, EpWake, SameView, SameElsewhere, SameQueued

LEMMA AtFacts ==
  ASSUME NEW c \in EpollCtx, EpLists(c), NEW o \in IoOps, NEW pc \in EpPc \ {"waiting", "returned"}
  PROVE  LET d == At(c, pc) IN
         /\ EpKeep(c, d, o) /\ EpWake(c, d)
         /\ d.execute_ = c.execute_ /\ SameElsewhere(c, d, o) /\ SameQueued(c, d, o) /\ d.timers_ = c.timers_
<1> DEFINE d == At(c, pc)
<1>1. /\ d \in EpollCtx /\ d.execute_ = c.execute_ /\ d.elapsed = c.elapsed
      /\ d.cancelPending = c.cancelPending /\ d.registered = c.registered /\ d.timers_ = c.timers_
      /\ d.batch = c.batch /\ d.localQueue_ = c.localQueue_ /\ d.remoteQueue_ = c.remoteQueue_ /\ d.pc = pc
      /\ d.stopper = c.stopper /\ d.eventfd = c.eventfd /\ d.now = c.now
      /\ d.remoteQueueReadSubmitted_ = c.remoteQueueReadSubmitted_
  BY DEF At, EpollCtx
<1> HIDE DEF d
<1> QED BY <1>1, EpListsSame DEF d, EpKeep, EpWake, SameView, SameElsewhere, SameQueued

LEMMA GoneFacts ==
  ASSUME NEW c \in EpollCtx, EpLists(c), NEW o \in IoOps
  PROVE  LET d == Gone(c, o) IN
         /\ EpKeep(c, d, o) /\ EpWake(c, d)
         /\ d.execute_[o] = "gone" /\ o \notin d.elapsed /\ o \notin d.cancelPending
         /\ d.registered = c.registered /\ SameQueued(c, d, o) /\ d.timers_ = c.timers_
<1> DEFINE d == Gone(c, o)
<1>1. /\ d.execute_ = [c.execute_ EXCEPT ![o] = "gone"] /\ d.elapsed = c.elapsed \ {o}
      /\ d.cancelPending = c.cancelPending \ {o} /\ d.registered = c.registered /\ d.timers_ = c.timers_
      /\ d.batch = c.batch /\ d.localQueue_ = c.localQueue_ /\ d.remoteQueue_ = c.remoteQueue_ /\ d.pc = "user"
      /\ d.stopper = c.stopper /\ d.eventfd = c.eventfd /\ d.now = c.now
      /\ d.remoteQueueReadSubmitted_ = c.remoteQueueReadSubmitted_ /\ c.execute_ \in [IoOps -> Handlers]
  BY DEF Gone, EpollCtx
<1>2. "gone" \in Handlers /\ "user" \in EpPc
  BY DEF Handlers, EpPc
<1>3. d \in EpollCtx
  <2>1. [c.execute_ EXCEPT ![o] = "gone"] \in [IoOps -> Handlers]
    BY <1>1, <1>2
  <2> QED BY <1>2, <2>1 DEF Gone, EpollCtx
<1> HIDE DEF d
<1>4. d.execute_[o] = "gone" /\ \A p \in IoOps : p # o => d.execute_[p] = c.execute_[p]
  BY <1>1
<1> QED BY <1>1, <1>3, <1>4, EpListsSame DEF d, EpKeep, EpWake, SameView, SameElsewhere, SameQueued

\* The queues.
LEMMA ToLocalFacts ==
  ASSUME NEW c \in EpollCtx, EpLists(c), NEW item \in EpItems, ~EpQueued(c, item), item # EpStopOp
  PROVE  LET d == ToLocal(c, item) IN
         /\ d \in EpollCtx /\ EpLists(d) /\ EpWake(c, d) /\ d.now = c.now /\ d.pc = c.pc
         /\ d.execute_ = c.execute_ /\ d.elapsed = c.elapsed /\ d.cancelPending = c.cancelPending
         /\ d.registered = c.registered /\ d.timers_ = c.timers_
         /\ \A i \in EpItems : /\ InBatch(d, i) <=> InBatch(c, i)
                               /\ Behind(d, i) <=> Behind(c, i) \/ i = item
<1> DEFINE d == ToLocal(c, item)
           q == Append(c.localQueue_, item)
<1>1. c.localQueue_ \in Seq(EpItems) /\ Once(c.localQueue_) /\ ~InList(c.localQueue_, item)
  BY DEF EpollCtx, EpLists, EpQueued, Behind
<1>2. q \in Seq(EpItems) /\ Once(q) /\ \A i \in EpItems : InList(q, i) <=> i = item \/ InList(c.localQueue_, i)
  BY <1>1, AppendFacts
<1> HIDE DEF q
<1>3. /\ d \in EpollCtx /\ d.execute_ = c.execute_ /\ d.elapsed = c.elapsed
      /\ d.cancelPending = c.cancelPending /\ d.registered = c.registered /\ d.timers_ = c.timers_
      /\ d.batch = c.batch /\ d.localQueue_ = q /\ d.remoteQueue_ = c.remoteQueue_ /\ d.pc = c.pc
      /\ d.stopper = c.stopper /\ d.eventfd = c.eventfd /\ d.now = c.now
      /\ d.remoteQueueReadSubmitted_ = c.remoteQueueReadSubmitted_
  BY <1>2 DEF ToLocal, EpollCtx, q
<1> HIDE DEF d
<1>4. \A i \in EpItems : /\ InBatch(d, i) <=> InBatch(c, i)
                         /\ Behind(d, i) <=> Behind(c, i) \/ i = item
  BY <1>2, <1>3 DEF InBatch, Behind
<1>5. ASSUME NEW i \in EpItems
      PROVE  /\ ~(InBatch(d, i) /\ Behind(d, i))
             /\ ~(InList(d.localQueue_, i) /\ InList(Pending(d.remoteQueue_), i))
  <2>1. CASE i = item
    BY <1>2, <1>3, <1>4, <2>1 DEF EpQueued, Behind
  <2>2. CASE i # item
    BY <1>2, <1>3, <1>4, <2>2 DEF EpLists
  <2> QED BY <2>1, <2>2
<1>6. d.stopper = "no" => ~EpQueued(d, EpStopOp)
  BY <1>3, <1>4, EpItemFacts DEF EpLists, EpQueued
<1>7. EpLists(d)
  BY <1>2, <1>3, <1>5, <1>6 DEF EpLists
<1> QED BY <1>3, <1>4, <1>7 DEF d, EpWake

LEMMA ToRemoteFacts ==
  ASSUME NEW c \in EpollCtx, EpLists(c), NEW item \in EpItems, ~EpQueued(c, item),
         item = EpStopOp => c.stopper # "no"
  PROVE  LET d == ToRemote(c, item) IN
         /\ d \in EpollCtx /\ EpLists(d) /\ d.now = c.now /\ d.pc = c.pc
         /\ d.stopper = c.stopper /\ d.eventfd = c.eventfd /\ d.remoteQueue_ # EpInactive
         /\ d.remoteQueueReadSubmitted_ = c.remoteQueueReadSubmitted_
         /\ d.execute_ = c.execute_ /\ d.elapsed = c.elapsed /\ d.cancelPending = c.cancelPending
         /\ d.registered = c.registered /\ d.timers_ = c.timers_
         /\ \A i \in EpItems : /\ InBatch(d, i) <=> InBatch(c, i)
                               /\ Behind(d, i) <=> Behind(c, i) \/ i = item
<1> DEFINE d == ToRemote(c, item)
           q == Append(Pending(c.remoteQueue_), item)
<1>1. /\ Pending(c.remoteQueue_) \in Seq(EpItems) /\ Once(Pending(c.remoteQueue_))
      /\ ~InList(Pending(c.remoteQueue_), item)
  BY PendingFacts DEF EpLists, EpQueued, Behind
<1>2. q \in Seq(EpItems) /\ Once(q) /\ \A i \in EpItems : InList(q, i) <=> i = item \/ InList(Pending(c.remoteQueue_), i)
  BY <1>1, AppendFacts
<1>a. q = IF c.remoteQueue_ = EpInactive THEN <<item>> ELSE Append(c.remoteQueue_, item)
  <2>1. CASE c.remoteQueue_ = EpInactive
    <3>1. Append(<<>>, item) = <<item>>
      OBVIOUS
    <3> QED BY <2>1, <3>1 DEF Pending
  <2>2. CASE c.remoteQueue_ # EpInactive
    BY <2>2 DEF Pending
  <2> QED BY <2>1, <2>2
<1>b. q # EpInactive
  <2>1. q[Len(q)] = item /\ Len(q) \in DOMAIN q
    BY <1>1
  <2>2. EpInactive[1] # item /\ DOMAIN EpInactive = {1}
    BY EpItemFacts DEF EpInactive
  <2> QED BY <2>1, <2>2
<1> HIDE DEF q
<1>c. Pending(q) = q
  BY <1>b DEF Pending
<1>3. /\ d \in EpollCtx /\ d.execute_ = c.execute_ /\ d.elapsed = c.elapsed
      /\ d.cancelPending = c.cancelPending /\ d.registered = c.registered /\ d.timers_ = c.timers_
      /\ d.batch = c.batch /\ d.localQueue_ = c.localQueue_ /\ d.remoteQueue_ = q /\ d.pc = c.pc
      /\ d.stopper = c.stopper /\ d.eventfd = c.eventfd /\ d.now = c.now
      /\ d.remoteQueueReadSubmitted_ = c.remoteQueueReadSubmitted_
  BY <1>2, <1>a DEF ToRemote, EpollCtx
<1> HIDE DEF d
<1>4. \A i \in EpItems : /\ InBatch(d, i) <=> InBatch(c, i)
                         /\ Behind(d, i) <=> Behind(c, i) \/ i = item
  BY <1>2, <1>3, <1>c DEF InBatch, Behind
<1>5. ASSUME NEW i \in EpItems
      PROVE  /\ ~(InBatch(d, i) /\ Behind(d, i))
             /\ ~(InList(d.localQueue_, i) /\ InList(Pending(d.remoteQueue_), i))
  <2>1. CASE i = item
    BY <1>2, <1>3, <1>4, <1>c, <2>1 DEF EpQueued, Behind
  <2>2. CASE i # item
    BY <1>2, <1>3, <1>4, <1>c, <2>2 DEF EpLists
  <2> QED BY <2>1, <2>2
<1>6. d.stopper = "no" => ~EpQueued(d, EpStopOp)
  BY <1>3, <1>4, EpItemFacts DEF EpLists, EpQueued
<1>7. EpLists(d)
  BY <1>2, <1>3, <1>5, <1>6, <1>c DEF EpLists
<1> QED BY <1>3, <1>4, <1>7, <1>b DEF d

\* The item of one operation is queued.
LEMMA LocalKeeps ==
  ASSUME NEW c \in EpollCtx, EpLists(c), NEW o \in IoOps, NEW item \in {EpOp(o), EpDoneOp(o)}, ~EpQueued(c, item)
  PROVE  LET d == ToLocal(c, item) IN
         /\ EpKeep(c, d, o) /\ EpWake(c, d) /\ d.pc = c.pc
         /\ d.execute_ = c.execute_ /\ SameElsewhere(c, d, o) /\ d.timers_ = c.timers_
         /\ item = EpOp(o) => /\ InBatch(d, EpOp(o)) <=> InBatch(c, EpOp(o))
                              /\ Behind(d, EpOp(o))
                              /\ EpQueued(d, EpDoneOp(o)) <=> EpQueued(c, EpDoneOp(o))
         /\ item = EpDoneOp(o) => /\ InBatch(d, EpOp(o)) <=> InBatch(c, EpOp(o))
                                  /\ Behind(d, EpOp(o)) <=> Behind(c, EpOp(o))
                                  /\ EpQueued(d, EpDoneOp(o))
<1> DEFINE d == ToLocal(c, item)
<1>1. item \in EpItems /\ item # EpStopOp
  BY EpItemFacts
<1>2. /\ d \in EpollCtx /\ EpLists(d) /\ EpWake(c, d) /\ d.now = c.now /\ d.pc = c.pc
      /\ d.execute_ = c.execute_ /\ d.elapsed = c.elapsed /\ d.cancelPending = c.cancelPending
      /\ d.registered = c.registered /\ d.timers_ = c.timers_
      /\ \A i \in EpItems : /\ InBatch(d, i) <=> InBatch(c, i)
                            /\ Behind(d, i) <=> Behind(c, i) \/ i = item
  BY <1>1, ToLocalFacts
<1> HIDE DEF d
<1>3. \A p \in IoOps : p # o => SameView(c, d, p)
  BY <1>2, EpItemFacts DEF SameView, SameElsewhere, SameQueued, EpQueued
<1>4. /\ item = EpOp(o) => /\ InBatch(d, EpOp(o)) <=> InBatch(c, EpOp(o))
                           /\ Behind(d, EpOp(o))
                           /\ EpQueued(d, EpDoneOp(o)) <=> EpQueued(c, EpDoneOp(o))
      /\ item = EpDoneOp(o) => /\ InBatch(d, EpOp(o)) <=> InBatch(c, EpOp(o))
                               /\ Behind(d, EpOp(o)) <=> Behind(c, EpOp(o))
                               /\ EpQueued(d, EpDoneOp(o))
  BY <1>2, EpItemFacts DEF EpQueued
<1> QED BY <1>2, <1>3, <1>4 DEF d, EpKeep, SameElsewhere

LEMMA RemoteKeeps ==
  ASSUME NEW c \in EpollCtx, EpLists(c), NEW o \in IoOps, NEW item \in {EpOp(o), EpDoneOp(o)}, ~EpQueued(c, item)
  PROVE  LET d == ToRemote(c, item) IN
         /\ EpKeep(c, d, o) /\ d.pc = c.pc
         /\ d.stopper = c.stopper /\ d.eventfd = c.eventfd /\ d.remoteQueue_ # EpInactive
         /\ d.remoteQueueReadSubmitted_ = c.remoteQueueReadSubmitted_
         /\ d.execute_ = c.execute_ /\ SameElsewhere(c, d, o) /\ d.timers_ = c.timers_
         /\ item = EpOp(o) => /\ InBatch(d, EpOp(o)) <=> InBatch(c, EpOp(o))
                              /\ Behind(d, EpOp(o))
                              /\ EpQueued(d, EpDoneOp(o)) <=> EpQueued(c, EpDoneOp(o))
         /\ item = EpDoneOp(o) => /\ InBatch(d, EpOp(o)) <=> InBatch(c, EpOp(o))
                                  /\ Behind(d, EpOp(o)) <=> Behind(c, EpOp(o))
                                  /\ EpQueued(d, EpDoneOp(o))
<1> DEFINE d == ToRemote(c, item)
<1>1. item \in EpItems /\ item # EpStopOp
  BY EpItemFacts
<1>2. /\ d \in EpollCtx /\ EpLists(d) /\ d.now = c.now /\ d.pc = c.pc
      /\ d.stopper = c.stopper /\ d.eventfd = c.eventfd /\ d.remoteQueue_ # EpInactive
      /\ d.remoteQueueReadSubmitted_ = c.remoteQueueReadSubmitted_
      /\ d.execute_ = c.execute_ /\ d.elapsed = c.elapsed /\ d.cancelPending = c.cancelPending
      /\ d.registered = c.registered /\ d.timers_ = c.timers_
      /\ \A i \in EpItems : /\ InBatch(d, i) <=> InBatch(c, i)
                            /\ Behind(d, i) <=> Behind(c, i) \/ i = item
  BY <1>1, ToRemoteFacts
<1> HIDE DEF d
<1>3. \A p \in IoOps : p # o => SameView(c, d, p)
  BY <1>2, EpItemFacts DEF SameView, SameElsewhere, SameQueued, EpQueued
<1>4. /\ item = EpOp(o) => /\ InBatch(d, EpOp(o)) <=> InBatch(c, EpOp(o))
                           /\ Behind(d, EpOp(o))
                           /\ EpQueued(d, EpDoneOp(o)) <=> EpQueued(c, EpDoneOp(o))
      /\ item = EpDoneOp(o) => /\ InBatch(d, EpOp(o)) <=> InBatch(c, EpOp(o))
                               /\ Behind(d, EpOp(o)) <=> Behind(c, EpOp(o))
                               /\ EpQueued(d, EpDoneOp(o))
  BY <1>2, EpItemFacts DEF EpQueued
<1> QED BY <1>2, <1>3, <1>4 DEF d, EpKeep, SameElsewhere

\* A timer is linked, and unlinked.
LEMMA InTimersFacts ==
  ASSUME NEW f, NEW c \in EpollCtx, EpLists(c), NEW o \in IoOps, ~InList(c.timers_, o)
  PROVE  LET d == InTimers(f, c, o) IN
         /\ EpKeep(c, d, o) /\ EpWake(c, d) /\ d.pc = c.pc
         /\ d.execute_ = c.execute_ /\ SameElsewhere(c, d, o) /\ SameQueued(c, d, o) /\ InList(d.timers_, o)
<1> DEFINE t == InsertByDueTime(f, c.timers_, o)
           d == InTimers(f, c, o)
           dirty == c.timersAreDirty_ \/ Head(t) = o
<1>1. c.timers_ \in Seq(IoOps) /\ Once(c.timers_)
  BY DEF EpollCtx, EpLists
<1>2. t \in Seq(IoOps) /\ Once(t) /\ \A p \in IoOps : InList(t, p) <=> p = o \/ InList(c.timers_, p)
  BY <1>1, InsertFacts
<1>3. d = [c EXCEPT !.timers_ = t, !.timersAreDirty_ = dirty] /\ dirty \in BOOLEAN
  BY DEF InTimers
<1> HIDE DEF t, d, dirty
<1>4. /\ d \in EpollCtx /\ d.execute_ = c.execute_ /\ d.elapsed = c.elapsed
      /\ d.cancelPending = c.cancelPending /\ d.registered = c.registered /\ d.timers_ = t
      /\ d.batch = c.batch /\ d.localQueue_ = c.localQueue_ /\ d.remoteQueue_ = c.remoteQueue_ /\ d.pc = c.pc
      /\ d.stopper = c.stopper /\ d.eventfd = c.eventfd /\ d.now = c.now
      /\ d.remoteQueueReadSubmitted_ = c.remoteQueueReadSubmitted_
  BY <1>2, <1>3 DEF EpollCtx
<1>5. \A item : /\ InBatch(d, item) <=> InBatch(c, item)
                /\ Behind(d, item) <=> Behind(c, item)
                /\ EpQueued(d, item) <=> EpQueued(c, item)
  BY <1>4 DEF InBatch, Behind, EpQueued
<1>6. EpLists(d)
  BY <1>2, <1>4, <1>5 DEF EpLists
<1> QED BY <1>2, <1>4, <1>5, <1>6 DEF d, EpKeep, EpWake, SameView, SameElsewhere, SameQueued

LEMMA OffTimersFacts ==
  ASSUME NEW c \in EpollCtx, EpLists(c), NEW o \in IoOps
  PROVE  LET d == OffTimers(c, o) IN
         /\ EpKeep(c, d, o) /\ EpWake(c, d) /\ d.pc = c.pc
         /\ d.execute_ = c.execute_ /\ SameElsewhere(c, d, o) /\ SameQueued(c, d, o) /\ ~InList(d.timers_, o)
<1> DEFINE t == Unlink(c.timers_, o)
           d == OffTimers(c, o)
           dirty == c.timersAreDirty_ \/ Head(c.timers_) = o
<1>1. c.timers_ \in Seq(IoOps) /\ Once(c.timers_)
  BY DEF EpollCtx, EpLists
<1>2. t \in Seq(IoOps) /\ Once(t) /\ \A p \in IoOps : InList(t, p) <=> p # o /\ InList(c.timers_, p)
  BY <1>1, UnlinkFacts
<1>3. d = [c EXCEPT !.timers_ = t, !.timersAreDirty_ = dirty] /\ dirty \in BOOLEAN
  BY DEF OffTimers
<1> HIDE DEF t, d, dirty
<1>4. /\ d \in EpollCtx /\ d.execute_ = c.execute_ /\ d.elapsed = c.elapsed
      /\ d.cancelPending = c.cancelPending /\ d.registered = c.registered /\ d.timers_ = t
      /\ d.batch = c.batch /\ d.localQueue_ = c.localQueue_ /\ d.remoteQueue_ = c.remoteQueue_ /\ d.pc = c.pc
      /\ d.stopper = c.stopper /\ d.eventfd = c.eventfd /\ d.now = c.now
      /\ d.remoteQueueReadSubmitted_ = c.remoteQueueReadSubmitted_
  BY <1>2, <1>3 DEF EpollCtx
<1>5. \A item : /\ InBatch(d, item) <=> InBatch(c, item)
                /\ Behind(d, item) <=> Behind(c, item)
                /\ EpQueued(d, item) <=> EpQueued(c, item)
  BY <1>4 DEF InBatch, Behind, EpQueued
<1>6. EpLists(d)
  BY <1>2, <1>4, <1>5 DEF EpLists
<1> QED BY <1>2, <1>4, <1>5, <1>6 DEF d, EpKeep, EpWake, SameView, SameElsewhere, SameQueued

-----------------------------------------------------------------------------
\* A step of one operation.
LEMMA EpViewKept ==
  ASSUME NEW c, NEW d, NEW o, NEW r, SameView(c, d, o), d.now = c.now, EpAt(o, r, c)
  PROVE  EpAt(o, r, d)
<1>1. EpGood(r, o \in d.elapsed, d.now)
  BY DEF EpAt, EpGood, SameView, SameElsewhere
<1> QED BY <1>1 DEF EpAt, SameView, SameElsewhere, SameQueued, EpPhase, EpIdle, EpStarts, EpTimer, EpLeaves, EpReads,
        EpStops, EpOver

LEMMA EpChanges ==
  ASSUME EpollInv, NEW o \in IoOps, NEW r \in Operation, op' = [op EXCEPT ![o] = r],
         EpKeep(ctx, ctx', o), EpAt(o, r, ctx'), Wakes(op', ctx')
  PROVE  EpollInv'
<1>1. op' \in [IoOps -> Operation] /\ op'[o] = r /\ \A p \in IoOps : p # o => op'[p] = op[p]
  BY OneChanges DEF EpollInv
<1>2. ASSUME NEW p \in IoOps PROVE EpAt(p, op'[p], ctx')
  <2>1. CASE p = o
    BY <1>1, <2>1
  <2>2. CASE p # o
    <3>1. EpAt(p, op[p], ctx) /\ SameView(ctx, ctx', p) /\ ctx'.now = ctx.now
      BY <2>2 DEF EpollInv, EpKeep
    <3> QED BY <1>1, <2>2, <3>1, EpViewKept
  <2> QED BY <2>1, <2>2
<1>3. ctx' \in EpollCtx /\ EpLists(ctx')
  BY DEF EpKeep
<1> QED BY <1>1, <1>2, <1>3 DEF EpollInv

\* Nobody has to wake the I/O thread because of it.
LEMMA EpMoves ==
  ASSUME EpollInv, NEW o \in IoOps, NEW r \in Operation, op' = [op EXCEPT ![o] = r],
         EpKeep(ctx, ctx', o), EpAt(o, r, ctx'), EpWake(ctx, ctx'),
         r.start = "signal" <=> op[o].start = "signal", r.stop = "signal" <=> op[o].stop = "signal"
  PROVE  EpollInv'
<1>1. op' \in [IoOps -> Operation] /\ op'[o] = r /\ \A p \in IoOps : p # o => op'[p] = op[p]
  BY OneChanges DEF EpollInv
<1>2. PICK token \in {<<>>, <<"stopper", "run">>, <<"eventfd", "run">>} \cup {"start", "stop"} \X IoOps :
        WakeToken(op, ctx, token)
  BY DEF EpollInv, Wakes
<1>3. WakeToken(op', ctx', token)
  BY <1>1, <1>2 DEF WakeToken, EpWake
<1> QED BY <1>2, <1>3, EpChanges DEF Wakes

\* It takes the queue from inactive to active.
LEMMA EpEnqueues ==
  ASSUME EpollInv, NEW o \in IoOps, NEW r \in Operation, op' = [op EXCEPT ![o] = r],
         EpKeep(ctx, ctx', o), EpAt(o, r, ctx'),
         ctx'.stopper = ctx.stopper, ctx'.eventfd = ctx.eventfd, ctx'.remoteQueue_ # EpInactive,
         ctx'.remoteQueueReadSubmitted_ = ctx.remoteQueueReadSubmitted_,
         ctx.remoteQueue_ # EpInactive => /\ r.start = "signal" <=> op[o].start = "signal"
                                          /\ r.stop = "signal" <=> op[o].stop = "signal",
         ctx.remoteQueue_ = EpInactive => \/ r.start = "signal" /\ r.stop # "signal"
                                          \/ r.start # "signal" /\ r.stop = "signal"
  PROVE  EpollInv'
<1>1. op' \in [IoOps -> Operation] /\ op'[o] = r /\ \A p \in IoOps : p # o => op'[p] = op[p]
  BY OneChanges DEF EpollInv
<1>2. PICK token \in {<<>>, <<"stopper", "run">>, <<"eventfd", "run">>} \cup {"start", "stop"} \X IoOps :
        WakeToken(op, ctx, token)
  BY DEF EpollInv, Wakes
<1>3. CASE ctx.remoteQueue_ # EpInactive
  <2>1. WakeToken(op', ctx', token)
    BY <1>1, <1>2, <1>3 DEF WakeToken
  <2> QED BY <1>2, <2>1, EpChanges DEF Wakes
<1>4. CASE ctx.remoteQueue_ = EpInactive /\ r.start = "signal"
  <2>1. token = <<>> /\ \A p \in IoOps : op[p].start # "signal" /\ op[p].stop # "signal"
    BY <1>2, <1>4 DEF WakeToken
  <2>2. <<"start", o>> \in {"start", "stop"} \X IoOps /\ \A p \in IoOps : <<"start", o>> # <<"stop", p>>
    OBVIOUS
  <2>3. /\ <<"start", o>> # <<>> /\ <<"start", o>> # <<"stopper", "run">> /\ <<"start", o>> # <<"eventfd", "run">>
        /\ \A p \in IoOps : <<"start", o>> = <<"start", p>> <=> p = o
    OBVIOUS
  <2>4. WakeToken(op', ctx', <<"start", o>>)
    BY <1>1, <1>2, <1>4, <2>1, <2>2, <2>3 DEF WakeToken
  <2> QED BY <2>2, <2>4, EpChanges DEF Wakes
<1>5. CASE ctx.remoteQueue_ = EpInactive /\ r.start # "signal"
  <2>1. token = <<>> /\ \A p \in IoOps : op[p].start # "signal" /\ op[p].stop # "signal"
    BY <1>2, <1>5 DEF WakeToken
  <2>2. <<"stop", o>> \in {"start", "stop"} \X IoOps /\ \A p \in IoOps : <<"stop", o>> # <<"start", p>>
    OBVIOUS
  <2>3. /\ <<"stop", o>> # <<>> /\ <<"stop", o>> # <<"stopper", "run">> /\ <<"stop", o>> # <<"eventfd", "run">>
        /\ \A p \in IoOps : <<"stop", o>> = <<"stop", p>> <=> p = o
    OBVIOUS
  <2>4. WakeToken(op', ctx', <<"stop", o>>)
    BY <1>1, <1>2, <1>5, <2>1, <2>2, <2>3 DEF WakeToken
  <2> QED BY <2>2, <2>4, EpChanges DEF Wakes
<1> QED BY <1>3, <1>4, <1>5

-----------------------------------------------------------------------------
\* The handlers.  An operation whose item was taken from the batch is run:
\* it is completed, or is somewhere else.
Ready(f, c, o) ==
  /\ f \in [IoOps -> Operation] /\ c \in EpollCtx /\ EpLists(c) /\ o \in IoOps
  /\ f[o].life = "started" /\ Signalled(f[o])
  /\ ~EpQueued(c, EpOp(o))
EpRan(f, c, o, s) ==
  \E r \in Operation : \E d :
    /\ s = St([f EXCEPT ![o] = r], d)
    /\ EpKeep(c, d, o) /\ EpWake(c, d) /\ EpAt(o, r, d)
    /\ r.start = f[o].start /\ (r.stop = "signal" <=> f[o].stop = "signal")

LEMMA ReadyFacts ==
  ASSUME NEW f, NEW c, NEW o, Ready(f, c, o)
  PROVE  /\ f \in [IoOps -> Operation] /\ f[o] \in Operation /\ c \in EpollCtx /\ EpLists(c) /\ o \in IoOps
         /\ f[o].signals = <<>> /\ f[o].kind \in {"schedule", "timed", "read"}
         /\ ~InBatch(c, EpOp(o)) /\ ~Behind(c, EpOp(o))
         /\ \A r : [f EXCEPT ![o] = r][o] = r
         /\ \A r, t : [[f EXCEPT ![o] = r] EXCEPT ![o] = t] = [f EXCEPT ![o] = t]
<1>1. f[o] \in Operation
  BY DEF Ready
<1> QED BY <1>1 DEF Ready, Signalled, EpQueued, Operation

\* It is completed.
LEMMA RunCompleted ==
  ASSUME NEW f, NEW c, NEW o, Ready(f, c, o), NEW r \in Operation, NEW c1,
         EpKeep(c, c1, o), EpWake(c, c1),
         SameQueued(c, c1, o), ~EpQueued(c, EpDoneOp(o)), ~InList(c1.timers_, o), o \notin c1.registered,
         r.life = "completed", r.signals # <<>>, r.signals = <<"done">> => r.stopped,
         r.kind = "timed" /\ r.signals = <<"value">> => r.due <= c1.now,
         r.start = f[o].start, r.stop = "signal" <=> f[o].stop = "signal",
         NoCall(r) \/ (r.kind = "read" /\ (Wakening(r) \/ CallbackOut(r))),
         NEW s, s = St([f EXCEPT ![o] = r], Gone(c1, o))
  PROVE  EpRan(f, c, o, s)
<1> DEFINE d == Gone(c1, o)
<1>1. c1 \in EpollCtx /\ EpLists(c1) /\ o \in IoOps
  BY DEF EpKeep, Ready
<1>2. /\ EpKeep(c1, d, o) /\ EpWake(c1, d)
      /\ d.execute_[o] = "gone" /\ o \notin d.elapsed /\ o \notin d.cancelPending
      /\ d.registered = c1.registered /\ SameQueued(c1, d, o) /\ d.timers_ = c1.timers_
  BY <1>1, GoneFacts
<1> HIDE DEF d
<1>3. EpKeep(c, d, o) /\ EpWake(c, d)
  BY <1>2, EpKeepTrans, EpWakeTrans
<1>4. /\ ~InBatch(d, EpOp(o)) /\ ~Behind(d, EpOp(o)) /\ ~EpQueued(d, EpDoneOp(o)) /\ ~InList(d.timers_, o)
      /\ o \notin d.registered /\ d.now = c1.now
  BY <1>2, ReadyFacts DEF SameQueued, EpKeep
<1>5. EpAt(o, r, d)
  BY <1>2, <1>4 DEF EpAt, EpGood, Signalled, EpPhase, EpOver
<1> QED BY <1>3, <1>5 DEF d, EpRan

LEMMA RunCompletedHere ==
  ASSUME NEW f, NEW c, NEW o, Ready(f, c, o), NEW r \in Operation,
         ~EpQueued(c, EpDoneOp(o)), ~InList(c.timers_, o), o \notin c.registered,
         r.life = "completed", r.signals # <<>>, r.signals = <<"done">> => r.stopped,
         r.kind = "timed" /\ r.signals = <<"value">> => r.due <= c.now,
         r.start = f[o].start, r.stop = "signal" <=> f[o].stop = "signal",
         NoCall(r) \/ (r.kind = "read" /\ (Wakening(r) \/ CallbackOut(r))),
         NEW s, s = St([f EXCEPT ![o] = r], Gone(c, o))
  PROVE  EpRan(f, c, o, s)
<1>1. EpKeep(c, c, o) /\ EpWake(c, c) /\ SameQueued(c, c, o)
  BY ReadyFacts DEF EpKeep, EpWake, SameQueued, SameView, SameElsewhere
<1> QED BY <1>1, RunCompleted

\* schedule(): set_value(), or set_done().
LEMMA RunSchedule ==
  ASSUME NEW f, NEW c, NEW o, Ready(f, c, o), f[o].kind = "schedule", NoCall(f[o]),
         ~EpQueued(c, EpDoneOp(o)), ~InList(c.timers_, o), o \notin c.registered
  PROVE  EpRan(f, c, o, Epoll!ToUser(Epoll!CompleteScheduled(St(f, c), o), o))
<1> DEFINE r == CompletedScheduled(f[o])
<1>1. /\ r \in Operation /\ r.life = "completed" /\ r.signals = <<IF f[o].stopped THEN "done" ELSE "value">>
      /\ r.start = f[o].start /\ r.kind = f[o].kind /\ r.stopped = f[o].stopped
      /\ r.cb = f[o].cb /\ r.stop = f[o].stop
  BY ReadyFacts, CompletedScheduledFacts
<1>2. Epoll!ToUser(Epoll!CompleteScheduled(St(f, c), o), o) = St([f EXCEPT ![o] = r], Gone(c, o))
  <2>1. Epoll!CompleteScheduled(St(f, c), o) = St([f EXCEPT ![o] = r], c)
    BY EpCompleteScheduled
  <2> QED BY <2>1, ReadyFacts, EpParts
<1> HIDE DEF r
<1>4. r.signals # <<>> /\ (r.signals = <<"done">> => r.stopped) /\ r.kind # "timed" /\ NoCall(r)
  BY <1>1 DEF NoCall
<1> QED BY <1>1, <1>2, <1>4, RunCompletedHere

\* complete_with_done().
LEMMA RunDone ==
  ASSUME NEW f, NEW c, NEW o, Ready(f, c, o), f[o].stopped,
         NoCall(f[o]) \/ (f[o].kind = "read" /\ (Wakening(f[o]) \/ CallbackOut(f[o]))),
         ~EpQueued(c, EpDoneOp(o)), ~InList(c.timers_, o), o \notin c.registered
  PROVE  EpRan(f, c, o, Epoll!ToUser(Epoll!Complete(St(f, c), o, "done"), o))
<1> DEFINE r == Completed(f[o], "done")
<1>1. /\ r \in Operation /\ r.life = "completed" /\ r.signals = <<"done">>
      /\ r.start = f[o].start /\ r.kind = f[o].kind /\ r.stopped = f[o].stopped
      /\ r.cb = f[o].cb /\ r.stop = f[o].stop
  BY ReadyFacts, CompletedFacts
<1>2. Epoll!ToUser(Epoll!Complete(St(f, c), o, "done"), o) = St([f EXCEPT ![o] = r], Gone(c, o))
  <2>1. Epoll!Complete(St(f, c), o, "done") = St([f EXCEPT ![o] = r], c)
    BY EpComplete
  <2> QED BY <2>1, ReadyFacts, EpParts
<1> HIDE DEF r
<1>4. /\ r.signals # <<>> /\ (r.signals = <<"done">> => r.stopped) /\ r.signals # <<"value">>
      /\ NoCall(r) \/ (r.kind = "read" /\ (Wakening(r) \/ CallbackOut(r)))
  BY <1>1 DEF NoCall, Wakening, CallbackOut
<1> QED BY <1>1, <1>2, <1>4, RunCompletedHere

\* maybe_complete_with_value(): the timer has expired.
LEMMA RunExpired ==
  ASSUME NEW f, NEW c, NEW o, Ready(f, c, o), f[o].kind = "timed", f[o].due <= c.now, f[o].stop = "no",
         ~EpQueued(c, EpDoneOp(o)), ~InList(c.timers_, o), o \notin c.registered
  PROVE  EpRan(f, c, o, Epoll!ToUser(Epoll!CompleteScheduled(Epoll!Destruct(St(f, c), o), o), o))
<1> DEFINE r1 == Destructed(f[o])
           r == CompletedScheduled(r1)
<1>1. /\ r1 \in Operation /\ r1.signals = <<>> /\ r1.start = f[o].start /\ r1.kind = f[o].kind
      /\ r1.stopped = f[o].stopped /\ r1.cb = "none" /\ r1.stop = "no" /\ r1.due = f[o].due
  BY ReadyFacts, DestructedFacts
<1>2. Epoll!ToUser(Epoll!CompleteScheduled(Epoll!Destruct(St(f, c), o), o), o) = St([f EXCEPT ![o] = r], Gone(c, o))
  <2> DEFINE g == [f EXCEPT ![o] = r1]
  <2>1. Epoll!Destruct(St(f, c), o) = St(g, c)
    BY EpDestruct
  <2>2. g[o] = r1 /\ [g EXCEPT ![o] = r] = [f EXCEPT ![o] = r]
    <3> HIDE DEF r1, r
    <3> QED BY ReadyFacts
  <2> HIDE DEF g, r1
  <2>3. Epoll!CompleteScheduled(St(g, c), o) = St([g EXCEPT ![o] = r], c)
    BY <2>2, EpCompleteScheduled
  <2> HIDE DEF r
  <2> QED BY <2>1, <2>2, <2>3, ReadyFacts, EpParts
<1> HIDE DEF r1
<1>3. /\ r \in Operation /\ r.life = "completed" /\ r.signals = <<IF r1.stopped THEN "done" ELSE "value">>
      /\ r.start = r1.start /\ r.kind = r1.kind /\ r.stopped = r1.stopped
      /\ r.cb = r1.cb /\ r.stop = r1.stop /\ r.due = r1.due
  BY <1>1, CompletedScheduledFacts
<1> HIDE DEF r
<1>5. r.signals # <<>> /\ (r.signals = <<"done">> => r.stopped) /\ r.due <= c.now /\ NoCall(r)
  BY <1>1, <1>3 DEF NoCall
<1> QED BY <1>1, <1>2, <1>3, <1>5, RunCompletedHere

\* remove_timer_from_queue_and_complete_with_done().
LEMMA RunRemove ==
  ASSUME NEW f, NEW c, NEW o, Ready(f, c, o), f[o].stopped, f[o].stop = "no",
         ~EpQueued(c, EpDoneOp(o)), o \in c.elapsed => ~InList(c.timers_, o), o \notin c.registered
  PROVE  EpRan(f, c, o,
           Epoll!ToUser(Epoll!Complete(IF o \in c.elapsed THEN Epoll!Destruct(St(f, c), o)
                                       ELSE Epoll!remove_timer(Epoll!Destruct(St(f, c), o), o), o, "done"), o))
<1> DEFINE r1 == Destructed(f[o])
           r == Completed(r1, "done")
           c1 == IF o \in c.elapsed THEN c ELSE OffTimers(c, o)
           s == Epoll!ToUser(Epoll!Complete(IF o \in c.elapsed THEN Epoll!Destruct(St(f, c), o)
                                       ELSE Epoll!remove_timer(Epoll!Destruct(St(f, c), o), o), o, "done"), o)
<1>1. /\ r1 \in Operation /\ r1.signals = <<>> /\ r1.start = f[o].start /\ r1.kind = f[o].kind
      /\ r1.stopped = f[o].stopped /\ r1.cb = "none" /\ r1.stop = "no"
  <2>1. f[o] \in Operation /\ f[o].signals = <<>>
    BY ReadyFacts
  <2> QED BY <2>1, DestructedFacts
<1>2. /\ EpKeep(c, c1, o) /\ EpWake(c, c1) /\ SameQueued(c, c1, o) /\ ~InList(c1.timers_, o) /\ o \notin c1.registered
  <2>1. CASE o \in c.elapsed
    BY <2>1, ReadyFacts DEF EpKeep, EpWake, SameQueued, SameView, SameElsewhere
  <2>2. CASE o \notin c.elapsed
    <3>1. c1 = OffTimers(c, o)
      BY <2>2
    <3> HIDE DEF c1
    <3>2. /\ EpKeep(c, c1, o) /\ EpWake(c, c1) /\ SameElsewhere(c, c1, o) /\ SameQueued(c, c1, o) /\ ~InList(c1.timers_, o)
      BY <3>1, ReadyFacts, OffTimersFacts
    <3> QED BY <3>2 DEF SameElsewhere
  <2> QED BY <2>1, <2>2
<1>3. c1 \in EpollCtx
  BY <1>2 DEF EpKeep
<1>4. s = St([f EXCEPT ![o] = r], Gone(c1, o))
  <2> DEFINE g == [f EXCEPT ![o] = r1]
  <2>a. Epoll!Destruct(St(f, c), o) = St(g, c)
    BY EpDestruct
  <2>b. g[o] = r1 /\ [g EXCEPT ![o] = r] = [f EXCEPT ![o] = r]
    <3> HIDE DEF r1, r
    <3> QED BY ReadyFacts
  <2>1. Epoll!Destruct(St(f, c), o) = St(g, c) /\ g[o] = r1 /\ [g EXCEPT ![o] = r] = [f EXCEPT ![o] = r]
    BY <2>a, <2>b
  <2>2. Epoll!remove_timer(St(g, c), o) = St(g, OffTimers(c, o))
    BY ReadyFacts, EpParts
  <2> HIDE DEF g, r1
  <2>3. s = Epoll!ToUser(Epoll!Complete(St(g, c1), o, "done"), o)
    BY <2>1, <2>2
  <2>4. Epoll!Complete(St(g, c1), o, "done") = St([g EXCEPT ![o] = r], c1)
    BY <2>1, EpComplete
  <2> HIDE DEF c1, s, r
  <2> QED BY <1>3, <2>1, <2>3, <2>4, EpParts
<1> HIDE DEF r1, c1, s
<1>5. /\ r \in Operation /\ r.life = "completed" /\ r.signals = <<"done">>
      /\ r.start = r1.start /\ r.kind = r1.kind /\ r.stopped = r1.stopped
      /\ r.cb = r1.cb /\ r.stop = r1.stop
  BY <1>1, CompletedFacts
<1> HIDE DEF r
<1>6. r.signals # <<>> /\ (r.signals = <<"done">> => r.stopped) /\ r.signals # <<"value">> /\ NoCall(r)
  BY <1>1, <1>5 DEF NoCall
<1>7. EpRan(f, c, o, s)
  BY <1>1, <1>2, <1>4, <1>5, <1>6, RunCompleted
<1> QED BY <1>7 DEF s

\* A read or a timed operation that succeeds, or a read that fails.
LEMMA RunSignal ==
  ASSUME NEW f, NEW c, NEW o, Ready(f, c, o), f[o].kind = "read", NoCall(f[o]), NEW signal \in {"value", "error"},
         ~EpQueued(c, EpDoneOp(o)), ~InList(c.timers_, o), o \notin c.registered
  PROVE  EpRan(f, c, o, Epoll!ToUser(Epoll!Complete(St(f, c), o, signal), o))
<1> DEFINE r == Completed(f[o], signal)
<1>1. /\ r \in Operation /\ r.life = "completed" /\ r.signals = <<signal>>
      /\ r.start = f[o].start /\ r.kind = f[o].kind /\ r.stopped = f[o].stopped
      /\ r.cb = f[o].cb /\ r.stop = f[o].stop
  BY ReadyFacts, CompletedFacts
<1>2. Epoll!ToUser(Epoll!Complete(St(f, c), o, signal), o) = St([f EXCEPT ![o] = r], Gone(c, o))
  <2>1. Epoll!Complete(St(f, c), o, signal) = St([f EXCEPT ![o] = r], c)
    BY EpComplete
  <2> QED BY <2>1, ReadyFacts, EpParts
<1> HIDE DEF r
<1>3. r.signals # <<>> /\ r.signals # <<"done">> /\ r.kind # "timed" /\ NoCall(r)
  BY <1>1 DEF NoCall
<1> QED BY <1>1, <1>2, <1>3, RunCompletedHere

\* start_io(): the read succeeds, or waits.
LEMMA RunStartIo ==
  ASSUME NEW f, NEW c, NEW o, Ready(f, c, o), f[o].kind = "read", ~f[o].stopped, NoCall(f[o]),
         c.execute_[o] = "start_io", o \notin c.elapsed, o \notin c.cancelPending, o \notin c.registered, ~InList(c.timers_, o),
         ~EpQueued(c, EpDoneOp(o))
  PROVE  EpRan(f, c, o, Epoll!start_io(St(f, c), o))
<1>0. f \in [IoOps -> Operation] /\ f[o] \in Operation /\ c \in EpollCtx /\ EpLists(c) /\ o \in IoOps /\ f[o].signals = <<>>
  BY ReadyFacts
<1>1. CASE o \in c.ready
  <2>1. Epoll!start_io(St(f, c), o) = Epoll!ToUser(Epoll!Complete(St(f, c), o, "value"), o)
    BY <1>1 DEF Epoll!start_io, St
  <2> QED BY <2>1, RunSignal
<1>2. CASE o \notin c.ready
  <2> DEFINE r == Constructed(f[o])
             g == [f EXCEPT ![o] = r]
             d == At(c, ToRegister(c))
  <2>2. /\ r \in Operation /\ r.cb = "set" /\ r.life = "started" /\ r.signals = <<>> /\ ~r.stopped
        /\ r.start = f[o].start /\ r.kind = "read" /\ r.stop = "no"
    BY <1>0, ConstructedFacts DEF Ready, NoCall
  <2>3. Epoll!start_io(St(f, c), o) = St(g, d)
    <3>1. Epoll!Construct(St(f, c), o) = St(g, c)
      BY EpConstruct
    <3> HIDE DEF g
    <3> QED BY <1>0, <1>2, <3>1, EpStartIo
  <2>4. /\ EpKeep(c, d, o) /\ EpWake(c, d)
        /\ d.execute_ = c.execute_ /\ SameElsewhere(c, d, o) /\ SameQueued(c, d, o) /\ d.timers_ = c.timers_
    <3>1. ToRegister(c) \in EpPc \ {"waiting", "returned"}
      BY DEF EpPc, ToRegister
    <3> QED BY <1>0, <3>1, AtFacts
  <2> HIDE DEF d, r
  <2>5. /\ d.execute_[o] = "start_io" /\ o \notin d.elapsed /\ o \notin d.cancelPending /\ o \notin d.registered
        /\ ~InList(d.timers_, o) /\ ~InBatch(d, EpOp(o)) /\ ~Behind(d, EpOp(o)) /\ ~EpQueued(d, EpDoneOp(o))
    BY <2>4 DEF SameElsewhere, SameQueued, Ready, EpQueued
  <2>8. EpAt(o, r, d)
    BY <2>2, <2>5 DEF EpAt, EpGood, Signalled, EpPhase, EpReads
  <2>10. r.stop = "signal" <=> f[o].stop = "signal"
    BY <2>2 DEF NoCall
  <2> QED BY <2>2, <2>3, <2>4, <2>8, <2>10 DEF EpRan
<1> QED BY <1>1, <1>2

\* start_local(): the timer is linked, or the operation is to complete.
LEMMA RunStartLocal ==
  ASSUME NEW f, NEW c, NEW o, Ready(f, c, o), f[o].kind = "timed", NoCall(f[o]),
         o \notin c.elapsed, o \notin c.cancelPending, o \notin c.registered, ~InList(c.timers_, o),
         ~EpQueued(c, EpDoneOp(o))
  PROVE  EpRan(f, c, o, Epoll!start_local(St(f, c), o))
<1>0. f \in [IoOps -> Operation] /\ f[o] \in Operation /\ c \in EpollCtx /\ EpLists(c) /\ o \in IoOps /\ f[o].signals = <<>>
  BY ReadyFacts
<1>1. CASE f[o].stopped
  <2> DEFINE c1 == Handles(c, o, "complete_with_done")
             d == ToLocal(c1, EpOp(o))
  <2>1. /\ EpKeep(c, c1, o) /\ EpWake(c, c1)
        /\ c1.execute_[o] = "complete_with_done" /\ SameElsewhere(c, c1, o) /\ SameQueued(c, c1, o)
        /\ c1.timers_ = c.timers_
    BY <1>0, HandlesFacts DEF Handlers
  <2>2. c1 \in EpollCtx /\ EpLists(c1) /\ ~EpQueued(c1, EpOp(o))
    BY <2>1, ReadyFacts DEF EpKeep, SameQueued, EpQueued
  <2>3. Epoll!start_local(St(f, c), o) = St(f, d)
    <3>1. [St(f, c) EXCEPT !.ctx.execute_[o] = "complete_with_done"] = St(f, c1)
      BY <1>0, EpHandles
    <3>2. Epoll!start_local(St(f, c), o) = Epoll!schedule_local(St(f, c1), EpOp(o))
      <4> HIDE DEF c1
      <4> QED BY <1>1, <3>1, EpSameItems DEF Epoll!start_local, St
    <3> HIDE DEF c1
    <3> QED BY <2>2, <3>2, EpParts
  <2> HIDE DEF c1
  <2>4. /\ EpKeep(c1, d, o) /\ EpWake(c1, d)
        /\ d.execute_ = c1.execute_ /\ SameElsewhere(c1, d, o) /\ d.timers_ = c1.timers_
        /\ Behind(d, EpOp(o)) /\ (EpQueued(d, EpDoneOp(o)) <=> EpQueued(c1, EpDoneOp(o)))
    BY <1>0, <2>2, LocalKeeps
  <2> HIDE DEF d
  <2>5. /\ d.execute_[o] = "complete_with_done" /\ o \notin d.elapsed /\ o \notin d.cancelPending /\ o \notin d.registered
        /\ ~InList(d.timers_, o) /\ Behind(d, EpOp(o)) /\ ~EpQueued(d, EpDoneOp(o))
    BY <2>1, <2>4 DEF SameElsewhere, SameQueued
  <2>6. EpAt(o, f[o], d)
    <3>1. f[o].life = "started" /\ EpGood(f[o], o \in d.elapsed, d.now)
      BY <1>0, <2>5 DEF EpGood, Ready
    <3>2. EpLeaves(f[o], d.execute_[o], o \in d.elapsed, o \in d.cancelPending, o \in d.registered,
                   InList(d.timers_, o), InBatch(d, EpOp(o)), Behind(d, EpOp(o)), EpQueued(d, EpDoneOp(o)))
      BY <1>1, <2>5, <3>1 DEF EpLeaves
    <3> QED BY <3>1, <3>2 DEF EpAt, EpPhase
  <2>7. EpKeep(c, d, o) /\ EpWake(c, d)
    BY <2>1, <2>4, EpKeepTrans, EpWakeTrans
  <2>8. f = [f EXCEPT ![o] = f[o]]
    BY <1>0
  <2> QED BY <1>0, <2>3, <2>6, <2>7, <2>8 DEF EpRan
<1>2. CASE ~f[o].stopped
  <2> DEFINE r == Constructed(f[o])
             g == [f EXCEPT ![o] = r]
             c1 == Handles(c, o, "maybe_complete_with_value")
             d == InTimers(f, c1, o)
  <2>1. /\ EpKeep(c, c1, o) /\ EpWake(c, c1)
        /\ c1.execute_[o] = "maybe_complete_with_value" /\ SameElsewhere(c, c1, o) /\ SameQueued(c, c1, o)
        /\ c1.timers_ = c.timers_
    BY <1>0, HandlesFacts DEF Handlers
  <2>2. c1 \in EpollCtx /\ EpLists(c1)
    BY <2>1 DEF EpKeep
  <2>3. Epoll!start_local(St(f, c), o) = St(g, d)
    <3>1. [St(f, c) EXCEPT !.ctx.execute_[o] = "maybe_complete_with_value"] = St(f, c1)
      BY <1>0, EpHandles
    <3> HIDE DEF c1
    <3>2. Epoll!schedule_at_impl(St(f, c1), o) = St(f, d)
      BY <2>2, EpParts
    <3>3. Epoll!start_local(St(f, c), o) = Epoll!Construct(St(f, d), o)
      <4> HIDE DEF d
      <4> QED BY <1>2, <3>1, <3>2 DEF Epoll!start_local, St
    <3> HIDE DEF d
    <3> QED BY <3>3, EpConstruct
  <2>4. /\ r \in Operation /\ r.cb = "set" /\ r.life = "started" /\ r.signals = <<>> /\ ~r.stopped
        /\ r.start = f[o].start /\ r.kind = "timed" /\ r.stop = "no"
    BY <1>0, <1>2, ConstructedFacts DEF Ready, NoCall
  <2> HIDE DEF c1, r
  <2>5. /\ EpKeep(c1, d, o) /\ EpWake(c1, d)
        /\ d.execute_ = c1.execute_ /\ SameElsewhere(c1, d, o) /\ SameQueued(c1, d, o) /\ InList(d.timers_, o)
    BY <1>0, <2>1, <2>2, InTimersFacts
  <2> HIDE DEF d
  <2>6. /\ d.execute_[o] = "maybe_complete_with_value" /\ o \notin d.elapsed /\ o \notin d.cancelPending
        /\ o \notin d.registered /\ InList(d.timers_, o) /\ ~InBatch(d, EpOp(o)) /\ ~Behind(d, EpOp(o))
        /\ ~EpQueued(d, EpDoneOp(o))
    BY <2>1, <2>5, ReadyFacts DEF SameElsewhere, SameQueued
  <2>7. EpAt(o, r, d)
    <3>1. EpGood(r, o \in d.elapsed, d.now)
      BY <2>4, <2>6 DEF EpGood, Signalled
    <3>2. EpTimer(r, d.execute_[o], o \in d.elapsed, o \in d.cancelPending, o \in d.registered,
                  InList(d.timers_, o), InBatch(d, EpOp(o)), Behind(d, EpOp(o)), EpQueued(d, EpDoneOp(o)))
      BY <2>4, <2>6 DEF EpTimer
    <3> QED BY <3>1, <3>2 DEF EpAt, EpPhase
  <2>8. EpKeep(c, d, o) /\ EpWake(c, d)
    BY <2>1, <2>5, EpKeepTrans, EpWakeTrans
  <2>9. r.stop = "signal" <=> f[o].stop = "signal"
    BY <2>4 DEF NoCall
  <2> QED BY <2>3, <2>4, <2>7, <2>8, <2>9 DEF EpRan
<1> QED BY <1>1, <1>2

\* on_read_complete(): a stop request may have taken over.
LEMMA RunRead ==
  ASSUME NEW f, NEW c, NEW o, Ready(f, c, o), f[o].kind = "read", f[o].stop = "no", NEW result \in {"value", "error"},
         c.execute_[o] = "on_read_complete", o \notin c.elapsed, ~InList(c.timers_, o),
         o \in c.cancelPending <=> EpQueued(c, EpDoneOp(o)), o \in c.cancelPending => f[o].stopped
  PROVE  EpRan(f, c, o, Epoll!on_read_complete(St(f, c), o, result))
<1> DEFINE r == Destructed(f[o])
           g == [f EXCEPT ![o] = r]
           d == Unregistered(c, o)
<1>0. f \in [IoOps -> Operation] /\ f[o] \in Operation /\ c \in EpollCtx /\ EpLists(c) /\ o \in IoOps /\ f[o].signals = <<>>
  BY ReadyFacts
<1>1. /\ r \in Operation /\ r.signals = <<>> /\ r.start = f[o].start /\ r.kind = "read" /\ r.life = "started"
      /\ r.stopped = f[o].stopped /\ r.cb = "none" /\ r.stop = "no"
  BY <1>0, DestructedFacts DEF Ready
<1>2. [Epoll!Destruct(St(f, c), o) EXCEPT !.ctx.registered = @ \ {o}] = St(g, d)
  <2>1. Epoll!Destruct(St(f, c), o) = St(g, c)
    BY EpDestruct
  <2> HIDE DEF g
  <2>2. \A s : s = St(g, c) => [s EXCEPT !.ctx.registered = @ \ {o}] = St(g, Unregistered(c, o))
    BY DEF Unregistered, St
  <2> QED BY <2>1, <2>2
<1>3. /\ EpKeep(c, d, o) /\ EpWake(c, d)
      /\ d.execute_ = c.execute_ /\ d.elapsed = c.elapsed /\ d.cancelPending = c.cancelPending
      /\ d.registered = c.registered \ {o} /\ SameQueued(c, d, o) /\ d.timers_ = c.timers_
  BY <1>0, UnregisteredFacts
<1>4. d \in EpollCtx /\ EpLists(d) /\ ~EpQueued(d, EpOp(o)) /\ (EpQueued(d, EpDoneOp(o)) <=> EpQueued(c, EpDoneOp(o)))
  BY <1>3 DEF EpKeep, SameQueued, Ready, EpQueued
<1>5. CASE o \in c.cancelPending
  <2>1. Epoll!on_read_complete(St(f, c), o, result) = St(g, d)
    <3> HIDE DEF g, d
    <3> QED BY <1>2, <1>5 DEF Epoll!on_read_complete, St
  <2> HIDE DEF d, r
  <2>2. EpAt(o, r, d)
    <3>1. EpGood(r, o \in d.elapsed, d.now)
      BY <1>1, <1>3 DEF EpGood, Signalled
    <3>2. EpStops(r, d.execute_[o], o \in d.elapsed, o \in d.cancelPending, o \in d.registered,
                  InList(d.timers_, o), InBatch(d, EpOp(o)), Behind(d, EpOp(o)), EpQueued(d, EpDoneOp(o)))
      BY <1>1, <1>3, <1>4, <1>5 DEF EpStops, NoCall, EpQueued
    <3> QED BY <3>1, <3>2 DEF EpAt, EpPhase
  <2> QED BY <1>1, <1>3, <2>1, <2>2, <1>0 DEF EpRan
<1>6. CASE o \notin c.cancelPending
  <2> DEFINE s == Epoll!ToUser(Epoll!Complete(St(g, d), o, result), o)
  <2>1. Epoll!on_read_complete(St(f, c), o, result) = s
    <3> HIDE DEF g, d
    <3> QED BY <1>2, <1>6 DEF Epoll!on_read_complete, St
  <2>2. g[o] = r /\ g \in [IoOps -> Operation]
    <3> HIDE DEF r
    <3> QED BY <1>0, <1>1
  <2>3. Ready(g, d, o)
    <3> HIDE DEF g, d, r
    <3> QED BY <1>0, <1>1, <1>4, <2>2 DEF Ready, Signalled
  <2> HIDE DEF d, r
  <2>4. EpRan(g, d, o, s)
    <3> HIDE DEF g
    <3>1. NoCall(g[o]) /\ g[o].kind = "read" /\ ~EpQueued(d, EpDoneOp(o)) /\ ~InList(d.timers_, o) /\ o \notin d.registered
      BY <1>1, <1>3, <1>4, <1>6, <2>2 DEF NoCall
    <3> QED BY <2>3, <3>1, RunSignal
  <2>5. PICK t \in Operation : \E e :
          /\ s = St([g EXCEPT ![o] = t], e)
          /\ EpKeep(d, e, o) /\ EpWake(d, e) /\ EpAt(o, t, e)
          /\ t.start = g[o].start /\ (t.stop = "signal" <=> g[o].stop = "signal")
    <3> HIDE DEF g, s
    <3> QED BY <2>4 DEF EpRan
  <2>6. PICK e : /\ s = St([g EXCEPT ![o] = t], e)
                 /\ EpKeep(d, e, o) /\ EpWake(d, e) /\ EpAt(o, t, e)
                 /\ t.start = g[o].start /\ (t.stop = "signal" <=> g[o].stop = "signal")
    <3> HIDE DEF g, s
    <3> QED BY <2>5
  <2>7. [g EXCEPT ![o] = t] = [f EXCEPT ![o] = t]
    BY ReadyFacts
  <2>8. EpKeep(c, e, o) /\ EpWake(c, e)
    BY <1>3, <2>6, EpKeepTrans, EpWakeTrans
  <2> HIDE DEF g, s
  <2>9. s = St([f EXCEPT ![o] = t], e)
    BY <2>6, <2>7
  <2>10. t.start = f[o].start /\ (t.stop = "signal" <=> f[o].stop = "signal")
    BY <1>1, <2>2, <2>6
  <2> QED BY <2>1, <2>6, <2>8, <2>9, <2>10 DEF EpRan
<1> QED BY <1>5, <1>6

\* read_complete_with_done(): not before the item of the read is gone.
LEMMA RunDoneOp ==
  ASSUME NEW f \in [IoOps -> Operation], NEW c \in EpollCtx, EpLists(c), NEW o \in IoOps,
         EpGood(f[o], o \in c.elapsed, c.now), ~EpQueued(c, EpDoneOp(o)),
         EpStops(f[o], c.execute_[o], o \in c.elapsed, o \in c.cancelPending, o \in c.registered,
                 InList(c.timers_, o), InBatch(c, EpOp(o)), Behind(c, EpOp(o)), TRUE)
  PROVE  EpRan(f, c, o, Epoll!read_complete_with_done(St(f, c), o))
<1> DEFINE d == ToLocal(c, EpDoneOp(o))
           waits == Epoll!enqueued_(St(f, c), EpOp(o)) \/ Epoll!InLocalQueue(St(f, c), EpOp(o))
<1>1. ~Behind(c, EpOp(o))
  BY DEF EpStops
<1>2. waits <=> InBatch(c, EpOp(o))
  BY <1>1 DEF Epoll!enqueued_, Epoll!InLocalQueue, InBatch, Behind, InList, St
<1>3. Epoll!read_complete_with_done(St(f, c), o)
      = IF waits THEN Epoll!schedule_local(St(f, c), EpDoneOp(o))
        ELSE Epoll!ToUser(Epoll!Complete(St(f, c), o, "done"), o)
  BY EpSameItems DEF Epoll!read_complete_with_done
<1> HIDE DEF waits
<1>4. CASE waits
  <2>1. Epoll!read_complete_with_done(St(f, c), o) = St(f, d)
    BY <1>3, <1>4, EpParts
  <2>2. /\ EpKeep(c, d, o) /\ EpWake(c, d)
        /\ d.execute_ = c.execute_ /\ SameElsewhere(c, d, o) /\ d.timers_ = c.timers_
        /\ InBatch(d, EpOp(o)) <=> InBatch(c, EpOp(o))
        /\ Behind(d, EpOp(o)) <=> Behind(c, EpOp(o))
        /\ EpQueued(d, EpDoneOp(o))
    BY LocalKeeps, EpItemFacts
  <2> HIDE DEF d
  <2>3. EpAt(o, f[o], d)
    <3>1. EpGood(f[o], o \in d.elapsed, d.now)
      BY <2>2 DEF EpGood, SameElsewhere, EpKeep
    <3>2. EpStops(f[o], d.execute_[o], o \in d.elapsed, o \in d.cancelPending, o \in d.registered,
                  InList(d.timers_, o), InBatch(d, EpOp(o)), Behind(d, EpOp(o)), EpQueued(d, EpDoneOp(o)))
      BY <2>2 DEF EpStops, SameElsewhere
    <3> QED BY <3>1, <3>2 DEF EpAt, EpPhase
  <2>4. f = [f EXCEPT ![o] = f[o]] /\ f[o] \in Operation
    OBVIOUS
  <2> QED BY <2>1, <2>2, <2>3, <2>4 DEF EpRan
<1>5. CASE ~waits
  <2>1. Ready(f, c, o)
    BY <1>1, <1>2, <1>5 DEF Ready, EpQueued, EpGood, EpStops
  <2>2. /\ f[o].stopped /\ f[o].kind = "read" /\ ~InList(c.timers_, o) /\ o \notin c.registered
        /\ Wakening(f[o]) \/ CallbackOut(f[o]) \/ NoCall(f[o])
    BY DEF EpStops
  <2>3. EpRan(f, c, o, Epoll!ToUser(Epoll!Complete(St(f, c), o, "done"), o))
    BY <2>1, <2>2, RunDone
  <2> QED BY <1>3, <1>5, <2>3
<1> QED BY <1>4, <1>5

\* Execute(): whatever the item of an operation is to run.
EpMayRun(f, c, o) == f[o].cb = "running" => c.execute_[o] \notin
  {"on_read_complete", "maybe_complete_with_value", "remove_timer_from_queue_and_complete_with_done"}

LEMMA EpExecutes ==
  ASSUME NEW f, NEW c, NEW o, Ready(f, c, o), EpGood(f[o], o \in c.elapsed, c.now),
         EpPhase(f[o], c.execute_[o], o \in c.elapsed, o \in c.cancelPending, o \in c.registered,
                 InList(c.timers_, o), TRUE, FALSE, EpQueued(c, EpDoneOp(o))),
         EpMayRun(f, c, o), NEW result \in {"value", "error"}
  PROVE  EpRan(f, c, o, Epoll!Execute(St(f, c), o, result))
<1> DEFINE x == c.execute_[o]
           e == o \in c.elapsed
           p == o \in c.cancelPending
           g == o \in c.registered
           t == InList(c.timers_, o)
           d == EpQueued(c, EpDoneOp(o))
           s == Epoll!Execute(St(f, c), o, result)
<1>0. St(f, c).ctx.execute_[o] = x /\ (o \in St(f, c).ctx.elapsed <=> e)
  BY DEF St
<1>1. CASE EpStarts(f[o], x, e, p, g, t, TRUE, FALSE, d)
  <2>1. f[o].kind \in {"schedule", "timed", "read"} /\ NoCall(f[o]) /\ ~e /\ ~p /\ ~g /\ ~t /\ ~d
    BY <1>1, ReadyFacts DEF EpStarts, NoCall
  <2>2. CASE f[o].kind = "schedule"
    <3>1. x = "schedule"
      BY <1>1, <2>2 DEF EpStarts
    <3>2. s = Epoll!ToUser(Epoll!CompleteScheduled(St(f, c), o), o)
      BY <1>0, <3>1 DEF Epoll!Execute
    <3> QED BY <2>1, <2>2, <3>2, RunSchedule
  <2>3. CASE f[o].kind = "timed"
    <3>1. x = "start_local"
      BY <1>1, <2>3 DEF EpStarts
    <3>2. s = Epoll!start_local(St(f, c), o)
      BY <1>0, <3>1 DEF Epoll!Execute
    <3> QED BY <2>1, <2>3, <3>2, RunStartLocal
  <2>4. CASE f[o].kind = "read"
    <3>1. x = "start_io" /\ ~f[o].stopped
      BY <1>1, <2>4 DEF EpStarts
    <3>2. s = Epoll!start_io(St(f, c), o)
      BY <1>0, <3>1 DEF Epoll!Execute
    <3> QED BY <2>1, <2>4, <3>1, <3>2, RunStartIo
  <2> QED BY <2>1, <2>2, <2>3, <2>4
<1>2. CASE EpTimer(f[o], x, e, p, g, t, TRUE, FALSE, d)
  <2>1. x = "maybe_complete_with_value" /\ f[o].kind = "timed" /\ f[o].cb # "running" /\ e /\ ~t /\ ~g /\ ~d
    BY <1>2 DEF EpTimer, EpMayRun
  <2>2. f[o].stop = "no" /\ f[o].due <= c.now
    BY <1>2, <2>1 DEF EpTimer, EpGood
  <2>3. s = Epoll!ToUser(Epoll!CompleteScheduled(Epoll!Destruct(St(f, c), o), o), o)
    BY <1>0, <2>1 DEF Epoll!Execute
  <2> QED BY <2>1, <2>2, <2>3, RunExpired
<1>3. CASE EpLeaves(f[o], x, e, p, g, t, TRUE, FALSE, d)
  <2>1. f[o].stopped /\ ~g /\ ~d
    BY <1>3 DEF EpLeaves
  <2>2. CASE x = "complete_with_done"
    <3>1. ~t /\ NoCall(f[o])
      BY <1>3, <2>2 DEF EpLeaves
    <3>2. s = Epoll!ToUser(Epoll!Complete(St(f, c), o, "done"), o)
      BY <1>0, <2>2 DEF Epoll!Execute
    <3> QED BY <2>1, <3>1, <3>2, RunDone
  <2>3. CASE x # "complete_with_done"
    <3>1. /\ x = "remove_timer_from_queue_and_complete_with_done" /\ (t <=> ~e)
          /\ Wakening(f[o]) \/ CallbackOut(f[o])
      BY <1>3, <2>3 DEF EpLeaves
    <3>2. f[o].stop = "no"
      BY <3>1 DEF EpMayRun, Wakening, CallbackOut
    <3>3. s = Epoll!ToUser(Epoll!Complete(IF o \in c.elapsed THEN Epoll!Destruct(St(f, c), o)
                                          ELSE Epoll!remove_timer(Epoll!Destruct(St(f, c), o), o), o, "done"), o)
      BY <1>0, <3>1 DEF Epoll!Execute
    <3> QED BY <2>1, <3>1, <3>2, <3>3, RunRemove
  <2> QED BY <2>2, <2>3
<1>4. CASE EpReads(f[o], x, e, p, g, t, TRUE, FALSE, d) \/ EpStops(f[o], x, e, p, g, t, TRUE, FALSE, d)
  <2>1. x = "on_read_complete" /\ f[o].kind = "read" /\ f[o].cb # "running" /\ ~e /\ ~t
    BY <1>4 DEF EpReads, EpStops, EpMayRun
  <2>2. f[o].stop = "no" /\ (p <=> d) /\ (p => f[o].stopped)
    BY <1>4, <2>1 DEF EpReads, EpStops, Wakening, CallbackOut, NoCall
  <2>3. s = Epoll!on_read_complete(St(f, c), o, result)
    BY <1>0, <2>1 DEF Epoll!Execute
  <2> QED BY <2>1, <2>2, <2>3, RunRead
<1> HIDE DEF x, e, p, g, t, d
<1>5. /\ ~EpIdle(f[o], x, e, p, g, t, TRUE, FALSE, d)
      /\ ~EpOver(f[o], x, e, p, g, t, TRUE, FALSE, d)
  BY DEF EpIdle, EpOver
<1>6. EpPhase(f[o], x, e, p, g, t, TRUE, FALSE, d)
  BY DEF x, e, p, g, t, d
<1>7. \/ EpStarts(f[o], x, e, p, g, t, TRUE, FALSE, d) \/ EpTimer(f[o], x, e, p, g, t, TRUE, FALSE, d)
      \/ EpLeaves(f[o], x, e, p, g, t, TRUE, FALSE, d)
      \/ EpReads(f[o], x, e, p, g, t, TRUE, FALSE, d) \/ EpStops(f[o], x, e, p, g, t, TRUE, FALSE, d)
  BY <1>5, <1>6 DEF EpPhase
<1> QED BY <1>1, <1>2, <1>3, <1>4, <1>7

\* The next item is taken from the batch.
Taken(c) == [c EXCEPT !.batch = Tail(c.batch)]
LEMMA TakenFacts ==
  ASSUME NEW c \in EpollCtx, EpLists(c), c.batch # <<>>, c.pc = "items"
  PROVE  LET d == Taken(c) IN
         /\ d \in EpollCtx /\ EpLists(d) /\ EpWake(c, d) /\ d.now = c.now
         /\ d.execute_ = c.execute_ /\ d.elapsed = c.elapsed /\ d.cancelPending = c.cancelPending
         /\ d.registered = c.registered /\ d.timers_ = c.timers_
         /\ Head(c.batch) \in EpItems /\ InBatch(c, Head(c.batch)) /\ ~EpQueued(d, Head(c.batch))
         /\ \A i \in EpItems : /\ InBatch(c, i) <=> i = Head(c.batch) \/ InBatch(d, i)
                               /\ Behind(d, i) <=> Behind(c, i)
<1> DEFINE d == Taken(c)
<1>1. c.batch \in Seq(EpItems)
  BY DEF EpollCtx
<1>2. /\ Head(c.batch) \in EpItems /\ Tail(c.batch) \in Seq(EpItems) /\ InList(c.batch, Head(c.batch))
      /\ \A i \in EpItems : InList(c.batch, i) <=> i = Head(c.batch) \/ InList(Tail(c.batch), i)
      /\ Once(Tail(c.batch)) /\ ~InList(Tail(c.batch), Head(c.batch))
  BY <1>1, TailFacts DEF EpLists
<1>3. /\ d \in EpollCtx /\ d.execute_ = c.execute_ /\ d.elapsed = c.elapsed
      /\ d.cancelPending = c.cancelPending /\ d.registered = c.registered /\ d.timers_ = c.timers_
      /\ d.batch = Tail(c.batch) /\ d.localQueue_ = c.localQueue_ /\ d.remoteQueue_ = c.remoteQueue_ /\ d.pc = "items"
      /\ d.stopper = c.stopper /\ d.eventfd = c.eventfd /\ d.now = c.now
      /\ d.remoteQueueReadSubmitted_ = c.remoteQueueReadSubmitted_
  BY <1>2 DEF Taken, EpollCtx
<1> HIDE DEF d
<1>4. \A i : Behind(d, i) <=> Behind(c, i)
  BY <1>3 DEF Behind
<1>5. \A i \in EpItems : InBatch(c, i) <=> i = Head(c.batch) \/ InBatch(d, i)
  BY <1>2, <1>3 DEF InBatch
<1>6. ~InBatch(d, Head(c.batch)) /\ InBatch(c, Head(c.batch))
  BY <1>2, <1>3 DEF InBatch
<1>7. ~Behind(c, Head(c.batch))
  BY <1>2, <1>6 DEF EpLists
<1>8. EpLists(d)
  <2>1. Once(d.batch) /\ Once(d.localQueue_) /\ Once(Pending(d.remoteQueue_)) /\ Once(d.timers_)
    BY <1>2, <1>3 DEF EpLists
  <2>2. \A i \in EpItems : ~(InBatch(d, i) /\ Behind(d, i)) /\ ~(InList(d.localQueue_, i) /\ InList(Pending(d.remoteQueue_), i))
    BY <1>3, <1>4, <1>5 DEF EpLists
  <2>3. d.stopper = "no" => ~EpQueued(d, EpStopOp)
    BY <1>3, <1>4, <1>5, EpItemFacts DEF EpLists, EpQueued
  <2> QED BY <1>3, <2>1, <2>2, <2>3 DEF EpLists
<1> QED BY <1>2, <1>3, <1>4, <1>5, <1>6, <1>7, <1>8 DEF d, EpWake, EpQueued

\* A step that is about no operation.
LEMMA EpNothing ==
  ASSUME EpollInv, op' = op, ctx' \in EpollCtx, EpLists(ctx'), ctx'.now = ctx.now,
         \A p \in IoOps : SameView(ctx, ctx', p), Wakes(op', ctx')
  PROVE  EpollInv'
<1>1. \A p \in IoOps : EpAt(p, op[p], ctx')
  BY EpViewKept DEF EpollInv
<1> QED BY <1>1 DEF EpollInv

LEMMA EpAwake ==
  ASSUME EpollInv, op' = op, EpWake(ctx, ctx')
  PROVE  Wakes(op', ctx')
BY DEF EpollInv, Wakes, WakeToken, EpWake

-----------------------------------------------------------------------------
\* The steps of the I/O thread.  It runs the next item of the batch.
LEMMA EpBecome ==
  /\ Epoll!State = St(op, ctx)
  /\ \A f, d : Epoll!Become(St(f, d)) => op' = f /\ ctx' = d
BY DEF Epoll!State, Epoll!Become, St

LEMMA EpTaken ==
  ASSUME EpollInv, ctx.batch # <<>>, ctx.pc = "items", NEW o \in IoOps,
         Head(ctx.batch) = EpOp(o) \/ Head(ctx.batch) = EpDoneOp(o)
  PROVE  LET c == Taken(ctx) IN
         /\ EpKeep(ctx, c, o) /\ EpWake(ctx, c)
         /\ EpGood(op[o], o \in c.elapsed, c.now)
         /\ Head(ctx.batch) = EpOp(o) =>
              /\ Ready(op, c, o)
              /\ EpPhase(op[o], c.execute_[o], o \in c.elapsed, o \in c.cancelPending, o \in c.registered,
                         InList(c.timers_, o), TRUE, FALSE, EpQueued(c, EpDoneOp(o)))
         /\ Head(ctx.batch) = EpDoneOp(o) =>
              /\ ~EpQueued(c, EpDoneOp(o))
              /\ EpStops(op[o], c.execute_[o], o \in c.elapsed, o \in c.cancelPending, o \in c.registered,
                         InList(c.timers_, o), InBatch(c, EpOp(o)), Behind(c, EpOp(o)), TRUE)
<1> DEFINE c == Taken(ctx)
<1>0. ctx \in EpollCtx /\ EpLists(ctx) /\ op \in [IoOps -> Operation] /\ EpAt(o, op[o], ctx)
  BY DEF EpollInv
<1>1. /\ c \in EpollCtx /\ EpLists(c) /\ EpWake(ctx, c) /\ c.now = ctx.now
      /\ c.execute_ = ctx.execute_ /\ c.elapsed = ctx.elapsed /\ c.cancelPending = ctx.cancelPending
      /\ c.registered = ctx.registered /\ c.timers_ = ctx.timers_
      /\ Head(ctx.batch) \in EpItems /\ InBatch(ctx, Head(ctx.batch)) /\ ~EpQueued(c, Head(ctx.batch))
      /\ \A i \in EpItems : /\ InBatch(ctx, i) <=> i = Head(ctx.batch) \/ InBatch(c, i)
                            /\ Behind(c, i) <=> Behind(ctx, i)
  BY <1>0, TakenFacts
<1> HIDE DEF c
<1>2. EpKeep(ctx, c, o)
  <2>1. \A p \in IoOps : p # o => SameQueued(ctx, c, p)
    BY <1>1, EpItemFacts DEF SameQueued, EpQueued
  <2> QED BY <1>1, <2>1 DEF EpKeep, SameView, SameElsewhere
<1>3. EpGood(op[o], o \in c.elapsed, c.now)
  BY <1>0, <1>1 DEF EpAt
<1>4. ASSUME Head(ctx.batch) = EpOp(o)
      PROVE  /\ Ready(op, c, o)
             /\ EpPhase(op[o], c.execute_[o], o \in c.elapsed, o \in c.cancelPending, o \in c.registered,
                        InList(c.timers_, o), TRUE, FALSE, EpQueued(c, EpDoneOp(o)))
  <2>1. InBatch(ctx, EpOp(o)) /\ ~Behind(ctx, EpOp(o)) /\ (EpQueued(ctx, EpDoneOp(o)) <=> EpQueued(c, EpDoneOp(o)))
    BY <1>0, <1>1, <1>4, EpItemFacts DEF EpLists, EpQueued
  <2>2. EpPhase(op[o], c.execute_[o], o \in c.elapsed, o \in c.cancelPending, o \in c.registered,
                InList(c.timers_, o), TRUE, FALSE, EpQueued(c, EpDoneOp(o)))
    <3>1. /\ InBatch(ctx, EpOp(o)) = TRUE /\ Behind(ctx, EpOp(o)) = FALSE
          /\ EpQueued(ctx, EpDoneOp(o)) = EpQueued(c, EpDoneOp(o))
      BY <2>1 DEF InBatch, Behind, EpQueued, InList
    <3> QED BY <1>0, <1>1, <3>1 DEF EpAt
  <2>3. op[o].life = "started"
    BY <2>2 DEF EpPhase, EpIdle, EpStarts, EpTimer, EpLeaves, EpReads, EpStops, EpOver
  <2> QED BY <1>0, <1>1, <1>3, <1>4, <2>2, <2>3 DEF Ready, EpGood
<1>5. ASSUME Head(ctx.batch) = EpDoneOp(o)
      PROVE  /\ ~EpQueued(c, EpDoneOp(o))
             /\ EpStops(op[o], c.execute_[o], o \in c.elapsed, o \in c.cancelPending, o \in c.registered,
                        InList(c.timers_, o), InBatch(c, EpOp(o)), Behind(c, EpOp(o)), TRUE)
  <2>1. /\ EpQueued(ctx, EpDoneOp(o))
        /\ InBatch(ctx, EpOp(o)) <=> InBatch(c, EpOp(o))
        /\ Behind(ctx, EpOp(o)) <=> Behind(c, EpOp(o))
    BY <1>0, <1>1, <1>5, EpItemFacts DEF EpQueued
  <2> QED BY <1>0, <1>1, <1>5, <2>1 DEF EpAt, EpPhase, EpIdle, EpStarts, EpTimer, EpLeaves, EpReads, EpStops, EpOver
<1> QED BY <1>1, <1>2, <1>3, <1>4, <1>5 DEF c

LEMMA EpRanKeeps ==
  ASSUME EpollInv, NEW o \in IoOps, NEW c, EpKeep(ctx, c, o), EpWake(ctx, c),
         NEW s, EpRan(op, c, o, s), Epoll!Become(s)
  PROVE  EpollInv'
<1>1. PICK r \in Operation : \E d :
        /\ s = St([op EXCEPT ![o] = r], d)
        /\ EpKeep(c, d, o) /\ EpWake(c, d) /\ EpAt(o, r, d)
        /\ r.start = op[o].start /\ (r.stop = "signal" <=> op[o].stop = "signal")
  BY DEF EpRan
<1>2. PICK d : /\ s = St([op EXCEPT ![o] = r], d)
               /\ EpKeep(c, d, o) /\ EpWake(c, d) /\ EpAt(o, r, d)
               /\ r.start = op[o].start /\ (r.stop = "signal" <=> op[o].stop = "signal")
  BY <1>1
<1>3. op' = [op EXCEPT ![o] = r] /\ ctx' = d
  BY <1>2, EpBecome
<1>4. EpKeep(ctx, d, o) /\ EpWake(ctx, d)
  BY <1>2, EpKeepTrans, EpWakeTrans
<1> QED BY <1>2, <1>3, <1>4, EpMoves

LEMMA EpExecutesPending ==
  ASSUME EpollInv, Epoll!execute_pending_local
  PROVE  EpollInv'
<1> DEFINE c == Taken(ctx)
           item == Head(ctx.batch)
<1>1. ctx.pc = "items" /\ ctx.batch # <<>> /\ ~Epoll!Blocked(item)
  BY DEF Epoll!execute_pending_local
<1>2. [Epoll!State EXCEPT !.ctx.batch = Tail(@)] = St(op, c)
  <2>1. \A X : [Epoll!State EXCEPT !.ctx.batch = X] = St(op, [ctx EXCEPT !.batch = X])
    BY DEF Epoll!State, St
  <2>2. Epoll!State.ctx.batch = ctx.batch
    BY DEF Epoll!State
  <2> QED BY <2>1, <2>2 DEF Taken
<1>3. PICK result \in {"value", "error"} : Epoll!Become(Epoll!ExecuteItem(St(op, c), item, result))
  <2> HIDE DEF c
  <2> QED BY <1>2 DEF Epoll!execute_pending_local
<1>4. ctx \in EpollCtx /\ EpLists(ctx) /\ op \in [IoOps -> Operation]
  BY DEF EpollInv
<1>5. item \in EpItems
  BY <1>1, <1>4, TakenFacts
<1>6. ASSUME NEW o \in IoOps, item = EpOp(o)
      PROVE  EpollInv'
  <2>1. /\ EpKeep(ctx, c, o) /\ EpWake(ctx, c) /\ Ready(op, c, o) /\ EpGood(op[o], o \in c.elapsed, c.now)
        /\ EpPhase(op[o], c.execute_[o], o \in c.elapsed, o \in c.cancelPending, o \in c.registered,
                   InList(c.timers_, o), TRUE, FALSE, EpQueued(c, EpDoneOp(o)))
    BY <1>1, <1>6, EpTaken
  <2>2. EpMayRun(op, c, o)
    BY <1>1, <1>6, EpItemFacts DEF Epoll!Blocked, Epoll!MayDestruct, EpMayRun, Taken
  <2> HIDE DEF c
  <2>3. EpRan(op, c, o, Epoll!Execute(St(op, c), o, result))
    BY <2>1, <2>2, EpExecutes
  <2>4. Epoll!ExecuteItem(St(op, c), item, result) = Epoll!Execute(St(op, c), o, result)
    <3>1. item[1] = "op" /\ item[2] = o /\ item # Epoll!StopOp
      BY <1>6, EpItemFacts, EpSameItems
    <3> HIDE DEF item
    <3> QED BY <3>1 DEF Epoll!ExecuteItem
  <2> QED BY <1>3, <2>1, <2>3, <2>4, EpRanKeeps
<1>7. ASSUME NEW o \in IoOps, item = EpDoneOp(o)
      PROVE  EpollInv'
  <2>1. /\ EpKeep(ctx, c, o) /\ EpWake(ctx, c) /\ EpGood(op[o], o \in c.elapsed, c.now) /\ ~EpQueued(c, EpDoneOp(o))
        /\ EpStops(op[o], c.execute_[o], o \in c.elapsed, o \in c.cancelPending, o \in c.registered,
                   InList(c.timers_, o), InBatch(c, EpOp(o)), Behind(c, EpOp(o)), TRUE)
    BY <1>1, <1>7, EpTaken
  <2> HIDE DEF c
  <2>2. c \in EpollCtx /\ EpLists(c)
    BY <2>1 DEF EpKeep
  <2>3. EpRan(op, c, o, Epoll!read_complete_with_done(St(op, c), o))
    BY <1>4, <2>1, <2>2, RunDoneOp
  <2>4. Epoll!ExecuteItem(St(op, c), item, result) = Epoll!read_complete_with_done(St(op, c), o)
    <3>1. item[1] = "done_op" /\ item[2] = o /\ item # Epoll!StopOp
      BY <1>7, EpItemFacts, EpSameItems
    <3> HIDE DEF item
    <3> QED BY <3>1 DEF Epoll!ExecuteItem
  <2> QED BY <1>3, <2>1, <2>3, <2>4, EpRanKeeps
<1>8. ASSUME item = EpStopOp
      PROVE  EpollInv'
  <2>1. /\ c \in EpollCtx /\ EpLists(c) /\ EpWake(ctx, c) /\ c.now = ctx.now
        /\ c.execute_ = ctx.execute_ /\ c.elapsed = ctx.elapsed /\ c.cancelPending = ctx.cancelPending
        /\ c.registered = ctx.registered /\ c.timers_ = ctx.timers_
        /\ \A i \in EpItems : /\ InBatch(ctx, i) <=> i = Head(ctx.batch) \/ InBatch(c, i)
                              /\ Behind(c, i) <=> Behind(ctx, i)
    BY <1>1, <1>4, TakenFacts
  <2> HIDE DEF c
  <2>2. \A p \in IoOps : SameQueued(ctx, c, p)
    BY <1>8, <2>1, EpItemFacts DEF SameQueued, EpQueued
  <2> DEFINE d == [c EXCEPT !.shouldStop_ = TRUE]
  <2>3. Epoll!ExecuteItem(St(op, c), item, result) = St(op, d)
    BY <1>8, EpItemFacts, EpSameItems DEF Epoll!ExecuteItem, St
  <2>4. op' = op /\ ctx' = d
    BY <1>3, <2>3, EpBecome
  <2>5. /\ d \in EpollCtx /\ d.batch = c.batch /\ d.localQueue_ = c.localQueue_ /\ d.remoteQueue_ = c.remoteQueue_
        /\ d.timers_ = c.timers_ /\ d.stopper = c.stopper /\ d.pc = c.pc /\ d.now = c.now
        /\ d.execute_ = c.execute_ /\ d.elapsed = c.elapsed /\ d.cancelPending = c.cancelPending
        /\ d.registered = c.registered /\ d.eventfd = c.eventfd
        /\ d.remoteQueueReadSubmitted_ = c.remoteQueueReadSubmitted_
    BY <2>1 DEF EpollCtx
  <2> HIDE DEF d
  <2>6. /\ EpLists(d)
        /\ \A i : /\ InBatch(d, i) <=> InBatch(c, i)
                  /\ Behind(d, i) <=> Behind(c, i)
                  /\ EpQueued(d, i) <=> EpQueued(c, i)
    BY <2>1, <2>5, EpListsSame
  <2>7. \A p \in IoOps : SameView(ctx, d, p)
    BY <2>1, <2>2, <2>5, <2>6 DEF SameView, SameElsewhere, SameQueued
  <2>8. EpWake(ctx, d)
    BY <2>1, <2>5 DEF EpWake
  <2> QED BY <2>1, <2>4, <2>5, <2>6, <2>7, <2>8, EpAwake, EpNothing
<1> HIDE DEF item
<1> QED BY <1>5, <1>6, <1>7, <1>8 DEF EpItems

\* Steps that concern no operation.
EpBesides(c, d) ==
  /\ d.batch = c.batch /\ d.localQueue_ = c.localQueue_ /\ d.remoteQueue_ = c.remoteQueue_ /\ d.timers_ = c.timers_
  /\ d.execute_ = c.execute_ /\ d.elapsed = c.elapsed /\ d.cancelPending = c.cancelPending
  /\ d.registered = c.registered

EpStill(c, d) ==
  /\ EpBesides(c, d) /\ c.now <= d.now /\ d.stopper = c.stopper /\ d.eventfd = c.eventfd
  /\ d.remoteQueueReadSubmitted_ = c.remoteQueueReadSubmitted_
  /\ d.pc = c.pc \/ d.pc = "items" \/ d.batch = <<>>

LEMMA EpQuietStep ==
  ASSUME EpollInv, op' = op, ctx' \in EpollCtx, Wakes(op', ctx'),
         EpBesides(ctx, ctx'), ctx.now <= ctx'.now,
         ctx'.stopper = "no" => ctx.stopper = "no", ctx'.pc \in {"waiting", "returned"} => ctx'.batch = <<>>
  PROVE  EpollInv'
<1>1. ctx \in EpollCtx /\ EpLists(ctx) /\ op \in [IoOps -> Operation] /\ \A o \in IoOps : EpAt(o, op[o], ctx)
  BY DEF EpollInv
<1>2. /\ \A i : InBatch(ctx', i) <=> InBatch(ctx, i)
      /\ \A i : Behind(ctx', i) <=> Behind(ctx, i)
      /\ \A i : EpQueued(ctx', i) <=> EpQueued(ctx, i)
  BY DEF EpBesides, InBatch, Behind, EpQueued
<1>3. EpLists(ctx')
  BY <1>1, <1>2 DEF EpBesides, EpLists
<1>4. ASSUME NEW o \in IoOps
      PROVE  EpAt(o, op[o], ctx')
  <2> DEFINE r == op[o]
  <2>1. EpGood(r, o \in ctx.elapsed, ctx.now) /\ r \in Operation
    BY <1>1 DEF EpAt
  <2>2. ctx.now \in Int /\ ctx'.now \in Int
    BY <1>1 DEF EpollCtx
  <2>3. r.due \in Int
    BY <2>1 DEF Operation
  <2> HIDE DEF r
  <2>4. EpGood(r, o \in ctx'.elapsed, ctx'.now)
    BY <2>1, <2>2, <2>3 DEF EpGood, EpBesides
  <2>5. /\ InBatch(ctx', EpOp(o)) = InBatch(ctx, EpOp(o))
        /\ Behind(ctx', EpOp(o)) = Behind(ctx, EpOp(o))
        /\ EpQueued(ctx', EpDoneOp(o)) = EpQueued(ctx, EpDoneOp(o))
    BY DEF EpBesides, InBatch, Behind, EpQueued
  <2> QED BY <1>1, <2>4, <2>5 DEF EpBesides, EpAt, r
<1> QED BY <1>1, <1>3, <1>4 DEF EpollInv

\* The steps that leave the operations and the queues alone.
LEMMA EpQuiet ==
  ASSUME EpollInv,
         \/ Epoll!UserCodeReturns \/ Epoll!Tick \/ Epoll!ReturnFromRun \/ Epoll!Destroy
         \/ \E o \in IoOps : Epoll!BecomesReady(o)
  PROVE  EpollInv'
<1>0. ctx \in EpollCtx /\ EpLists(ctx) /\ ctx.now \in Int
  BY DEF EpollInv, EpollCtx
<1>1. ctx \in EpollCtx /\ EpLists(ctx) /\ ctx.now \in Int /\ ctx.now <= ctx.now
  BY <1>0
<1>2. op' = op /\ ctx' \in EpollCtx /\ EpStill(ctx, ctx')
  <2>1. CASE Epoll!UserCodeReturns
    <3>1. op' = op /\ ctx' = [ctx EXCEPT !.pc = "items"]
      BY <2>1 DEF Epoll!UserCodeReturns, Epoll!Become, Epoll!State
    <3>2. ctx' \in EpollCtx
      BY <1>1, <3>1 DEF EpollCtx, EpPc
    <3> QED BY <1>1, <3>1, <3>2 DEF EpollCtx, EpStill, EpBesides
  <2>2. CASE Epoll!Tick
    <3>1. op' = op /\ ctx' = [ctx EXCEPT !.now = ctx.now + 1] /\ ctx.now + 1 \in Int /\ ctx.now <= ctx.now + 1
      BY <1>1, <2>2 DEF Epoll!Tick, Epoll!Become, Epoll!State
    <3>2. ctx' \in EpollCtx
      BY <1>1, <3>1 DEF EpollCtx
    <3> QED BY <1>1, <3>1, <3>2 DEF EpollCtx, EpStill, EpBesides
  <2>3. CASE Epoll!ReturnFromRun
    <3>1. op' = op /\ ctx' = [ctx EXCEPT !.pc = "returned"] /\ ctx.batch = <<>>
      BY <2>3 DEF Epoll!ReturnFromRun, Epoll!Become, Epoll!State
    <3>2. ctx' \in EpollCtx
      BY <1>1, <3>1 DEF EpollCtx, EpPc
    <3> QED BY <1>1, <3>1, <3>2 DEF EpollCtx, EpStill, EpBesides
  <2>4. CASE Epoll!Destroy
    <3>1. op' = op /\ ctx' = [ctx EXCEPT !.destroyed = TRUE]
      BY <2>4 DEF Epoll!Destroy, Epoll!Become, Epoll!State
    <3>2. ctx' \in EpollCtx
      BY <1>1, <3>1 DEF EpollCtx
    <3> QED BY <1>1, <3>1, <3>2 DEF EpollCtx, EpStill, EpBesides
  <2>5. CASE \E o \in IoOps : Epoll!BecomesReady(o)
    <3>1. PICK o \in IoOps : op' = op /\ ctx' = [ctx EXCEPT !.ready = ctx.ready \cup {o}]
      BY <2>5 DEF Epoll!BecomesReady, Epoll!Become, Epoll!State
    <3>2. ctx' \in EpollCtx
      BY <1>1, <3>1 DEF EpollCtx
    <3> QED BY <1>1, <3>1, <3>2 DEF EpollCtx, EpStill, EpBesides
  <2> QED BY <2>1, <2>2, <2>3, <2>4, <2>5
<1>3. EpWake(ctx, ctx')
  BY <1>2 DEF EpStill, EpBesides, EpWake
<1>4. ctx'.pc \in {"waiting", "returned"} => ctx'.batch = <<>>
  BY <1>1, <1>2 DEF EpStill, EpBesides, EpLists
<1> QED BY <1>2, <1>3, <1>4, EpAwake, EpQuietStep DEF EpStill

LEMMA EpAdds ==
  ASSUME EpollInv, NEW o \in IoOps, Epoll!epoll_ctl_add(o), ~AddFails
  PROVE  EpollInv'
<1> DEFINE r == op[o]
           pc == IF ctx.pc = "register" THEN "items" ELSE "user"
           c == Handles(ctx, o, "on_read_complete")
           d == [c EXCEPT !.registered = ctx.registered \cup {o}]
           e == [d EXCEPT !.pc = pc]
<1>1. /\ op \in [IoOps -> Operation] /\ r \in Operation /\ EpAt(o, r, ctx) /\ ctx \in EpollCtx /\ EpLists(ctx)
      /\ op = [op EXCEPT ![o] = r]
  BY DEF EpollInv
<1>2. op' = op /\ ctx' = e
  <2> DEFINE s == Epoll!State
             s1 == [s EXCEPT !.ctx.execute_[o] = "on_read_complete"]
             s2 == [s1 EXCEPT !.ctx.registered = ctx.registered \cup {o}]
             s3 == [s2 EXCEPT !.ctx.pc = pc]
  <2>1. s.ctx = ctx
    BY DEF Epoll!State
  <2>2. Epoll!Become(s3)
    <3>1. PICK added \in BOOLEAN :
            /\ added \/ AddFails
            /\ Epoll!Become([s EXCEPT !.ctx.execute_[o] = "on_read_complete",
                                     !.ctx.registered = IF added THEN s.ctx.registered \cup {o} ELSE s.ctx.registered,
                                     !.ctx.pc = IF s.ctx.pc = "register" THEN "items" ELSE "user"])
      BY DEF Epoll!epoll_ctl_add
    <3>2. added
      BY <3>1
    <3> HIDE DEF s
    <3>3. (IF added THEN s.ctx.registered \cup {o} ELSE s.ctx.registered) = ctx.registered \cup {o}
      BY <2>1, <3>2
    <3>4. (IF s.ctx.pc = "register" THEN "items" ELSE "user") = pc
      BY <2>1
    <3> HIDE DEF pc
    <3> QED BY <3>1, <3>3, <3>4
  <2>3. s1 = St(op, c)
    BY <1>1, EpHandles, EpBecome
  <2> HIDE DEF s1, c, pc
  <2>4. s2 = St(op, d)
    BY <2>3 DEF St
  <2> HIDE DEF s2, d
  <2>5. s3 = St(op, e)
    BY <2>4 DEF St
  <2> HIDE DEF s3, e
  <2> QED BY <2>2, <2>5, EpBecome
<1>3. pc \in EpPc \ {"waiting", "returned"} /\ "on_read_complete" \in Handlers
  BY DEF EpPc, Handlers
<1> HIDE DEF pc, r
<1>4. /\ e \in EpollCtx /\ e.execute_ = [ctx.execute_ EXCEPT ![o] = "on_read_complete"] /\ e.elapsed = ctx.elapsed
      /\ e.cancelPending = ctx.cancelPending /\ e.registered = ctx.registered \cup {o} /\ e.timers_ = ctx.timers_
      /\ e.batch = ctx.batch /\ e.localQueue_ = ctx.localQueue_ /\ e.remoteQueue_ = ctx.remoteQueue_ /\ e.pc = pc
      /\ e.stopper = ctx.stopper /\ e.eventfd = ctx.eventfd /\ e.now = ctx.now
      /\ e.remoteQueueReadSubmitted_ = ctx.remoteQueueReadSubmitted_ /\ ctx.execute_ \in [IoOps -> Handlers]
  BY <1>1, <1>3 DEF Handles, EpollCtx
<1> HIDE DEF e
<1>5. e.execute_[o] = "on_read_complete" /\ \A p \in IoOps : p # o => e.execute_[p] = ctx.execute_[p]
  BY <1>4
<1>6. EpKeep(ctx, e, o) /\ EpWake(ctx, e) /\ SameQueued(ctx, e, o)
  BY <1>1, <1>3, <1>4, <1>5, EpListsSame DEF EpKeep, EpWake, SameView, SameElsewhere, SameQueued
<1>7. EpReads(r, "start_io", o \in ctx.elapsed, o \in ctx.cancelPending, o \in ctx.registered, InList(ctx.timers_, o),
              InBatch(ctx, EpOp(o)), Behind(ctx, EpOp(o)), EpQueued(ctx, EpDoneOp(o)))
  <2>1. ctx.execute_[o] = "start_io" /\ r.cb # "none"
    BY DEF Epoll!epoll_ctl_add, Epoll!Registering, r
  <2> QED BY <1>1, <2>1 DEF EpAt, EpPhase, EpIdle, EpStarts, EpTimer, EpLeaves, EpStops, EpOver
<1>8. EpAt(o, r, e)
  <2>1. EpGood(r, o \in e.elapsed, e.now)
    BY <1>1, <1>4 DEF EpAt
  <2>2. EpReads(r, e.execute_[o], o \in e.elapsed, o \in e.cancelPending, o \in e.registered, InList(e.timers_, o),
                InBatch(e, EpOp(o)), Behind(e, EpOp(o)), EpQueued(e, EpDoneOp(o)))
    BY <1>4, <1>5, <1>6, <1>7 DEF EpReads, SameQueued
  <2> QED BY <2>1, <2>2 DEF EpAt, EpPhase
<1> QED BY <1>1, <1>2, <1>6, <1>8, EpMoves DEF r

\* run() is told to stop.
LEMMA EpSignalStop ==
  ASSUME EpollInv, Epoll!SignalStop
  PROVE  EpollInv'
<1> DEFINE d == [ctx EXCEPT !.eventfd = TRUE, !.stopper = "done"]
<1>1. ctx \in EpollCtx /\ EpLists(ctx) /\ ctx.now \in Int
  BY DEF EpollInv, EpollCtx
<1>2. op' = op /\ ctx' = d /\ ctx.stopper = "signal"
  BY DEF Epoll!SignalStop, Epoll!Become, Epoll!State
<1>3. /\ ctx' \in EpollCtx /\ EpBesides(ctx, ctx') /\ ctx'.now = ctx.now
      /\ ctx'.eventfd /\ ctx'.stopper = "done" /\ ctx'.pc = ctx.pc
      /\ ctx'.remoteQueueReadSubmitted_ = ctx.remoteQueueReadSubmitted_
  BY <1>1, <1>2 DEF EpollCtx, EpBesides
<1>4. WakeToken(op, ctx, <<"stopper", "run">>)
  BY <1>2 DEF EpollInv, Wakes, WakeToken
<1>5. WakeToken(op', ctx', <<"eventfd", "run">>)
  BY <1>2, <1>3, <1>4 DEF WakeToken, EpBesides
<1>6. Wakes(op', ctx')
  BY <1>5 DEF Wakes
<1>7. ctx'.pc \in {"waiting", "returned"} => ctx'.batch = <<>>
  BY <1>1, <1>3 DEF EpBesides, EpLists
<1> QED BY <1>1, <1>2, <1>3, <1>6, <1>7, EpQuietStep

LEMMA EpStopRun ==
  ASSUME EpollInv, Epoll!StopRun
  PROVE  EpollInv'
<1> DEFINE c == ToRemote(ctx, EpStopOp)
           inactive == ctx.remoteQueue_ = EpInactive
           b == [ctx EXCEPT !.stopper = IF inactive THEN "signal" ELSE "done"]
           d == ToRemote(b, EpStopOp)
<1>0. ctx \in EpollCtx /\ EpLists(ctx)
  BY DEF EpollInv
<1>1. ctx.stopper = "no" /\ op' = op /\ ctx' = d
  <2>1. Epoll!schedule_remote(Epoll!State, Epoll!StopOp) = St(op, c)
    BY <1>0, EpBecome, EpParts, EpSameItems
  <2>2. d = [c EXCEPT !.stopper = IF inactive THEN "signal" ELSE "done"]
    BY <1>0 DEF ToRemote, EpollCtx
  <2>3. Epoll!MustSignal <=> inactive
    BY EpSameItems DEF Epoll!MustSignal
  <2>4. \A X : [St(op, c) EXCEPT !.ctx.stopper = X] = St(op, [c EXCEPT !.stopper = X])
    BY DEF St
  <2> HIDE DEF c, d, inactive
  <2> QED BY <2>1, <2>2, <2>3, <2>4, EpBecome DEF Epoll!StopRun
<1>2. /\ b \in EpollCtx /\ b.stopper = IF inactive THEN "signal" ELSE "done"
      /\ b.batch = ctx.batch /\ b.localQueue_ = ctx.localQueue_ /\ b.remoteQueue_ = ctx.remoteQueue_
      /\ b.timers_ = ctx.timers_ /\ b.pc = ctx.pc /\ b.execute_ = ctx.execute_ /\ b.elapsed = ctx.elapsed
      /\ b.cancelPending = ctx.cancelPending /\ b.registered = ctx.registered /\ b.now = ctx.now
      /\ b.eventfd = ctx.eventfd /\ b.remoteQueueReadSubmitted_ = ctx.remoteQueueReadSubmitted_
  BY <1>0 DEF EpollCtx
<1> HIDE DEF b
<1>3. /\ EpLists(b)
      /\ \A i : /\ InBatch(b, i) <=> InBatch(ctx, i)
                /\ Behind(b, i) <=> Behind(ctx, i)
                /\ EpQueued(b, i) <=> EpQueued(ctx, i)
  BY <1>0, <1>2, EpListsSame
<1>4. ~EpQueued(b, EpStopOp)
  BY <1>0, <1>1, <1>3 DEF EpLists
<1>5. /\ d \in EpollCtx /\ EpLists(d) /\ d.now = b.now /\ d.pc = b.pc
      /\ d.stopper = b.stopper /\ d.eventfd = b.eventfd /\ d.remoteQueue_ # EpInactive
      /\ d.remoteQueueReadSubmitted_ = b.remoteQueueReadSubmitted_
      /\ d.execute_ = b.execute_ /\ d.elapsed = b.elapsed /\ d.cancelPending = b.cancelPending
      /\ d.registered = b.registered /\ d.timers_ = b.timers_
      /\ \A i \in EpItems : /\ InBatch(d, i) <=> InBatch(b, i)
                            /\ Behind(d, i) <=> Behind(b, i) \/ i = EpStopOp
  <2>1. b.stopper # "no"
    BY <1>2
  <2> QED BY <1>2, <1>3, <1>4, <2>1, EpItemFacts, ToRemoteFacts
<1> HIDE DEF d
<1>6. \A p \in IoOps : SameView(ctx, d, p)
  BY <1>2, <1>3, <1>5, EpItemFacts DEF SameView, SameElsewhere, SameQueued, EpQueued
<1>7. Wakes(op, d)
  <2>1. PICK token \in {<<>>, <<"stopper", "run">>, <<"eventfd", "run">>} \cup {"start", "stop"} \X IoOps :
          WakeToken(op, ctx, token)
    BY DEF EpollInv, Wakes
  <2>2. CASE inactive
    <3>1. WakeToken(op, d, <<"stopper", "run">>)
      BY <1>1, <1>2, <1>5, <2>1, <2>2 DEF WakeToken
    <3> QED BY <3>1 DEF Wakes
  <2>3. CASE ~inactive
    <3>1. WakeToken(op, d, token)
      BY <1>1, <1>2, <1>5, <2>1, <2>3 DEF WakeToken
    <3> QED BY <3>1 DEF Wakes
  <2> QED BY <2>2, <2>3
<1> QED BY <1>1, <1>2, <1>5, <1>6, <1>7, EpNothing

-----------------------------------------------------------------------------
\* start(), from a thread by that is at pc.
Fresh(o, due, by, pc) == [Begun(op[o], by, pc) EXCEPT !.due = due]

LEMMA EpFresh ==
  ASSUME EpollInv, NEW o \in IoOps, op[o].life = "idle", NEW due \in Int, NEW by \in Callers, NEW pc \in Points
  PROVE  LET r == Fresh(o, due, by, pc)
             c == Handles(ctx, o, Epoll!FirstExecute(o)) IN
         /\ r \in Operation /\ r.life = "started" /\ r.signals = <<>> /\ ~r.stopped /\ NoCall(r)
         /\ r.start = pc /\ r.kind = op[o].kind
         /\ op[o].start = "no" /\ op[o].stop = "no"
         /\ EpKeep(ctx, c, o) /\ EpWake(ctx, c)
         /\ ~EpQueued(c, EpOp(o)) /\ ~EpQueued(c, EpDoneOp(o)) /\ c.execute_[o] = Epoll!FirstExecute(o)
         /\ o \notin c.elapsed /\ o \notin c.cancelPending /\ o \notin c.registered /\ ~InList(c.timers_, o)
<1> DEFINE r1 == Begun(op[o], by, pc)
           r == Fresh(o, due, by, pc)
           c == Handles(ctx, o, Epoll!FirstExecute(o))
<1>0. ctx \in EpollCtx /\ EpLists(ctx) /\ op \in [IoOps -> Operation] /\ op[o] \in Operation /\ EpAt(o, op[o], ctx)
  BY DEF EpollInv
<1>1. /\ op[o].start = "no" /\ op[o].stop = "no" /\ op[o].cb = "none" /\ ~op[o].stopped
      /\ ~InBatch(ctx, EpOp(o)) /\ ~Behind(ctx, EpOp(o)) /\ ~EpQueued(ctx, EpDoneOp(o))
      /\ o \notin ctx.elapsed /\ o \notin ctx.cancelPending /\ o \notin ctx.registered /\ ~InList(ctx.timers_, o)
  BY <1>0 DEF EpAt, EpPhase, EpIdle, EpStarts, EpTimer, EpLeaves, EpReads, EpStops, EpOver
<1>2. op[o].signals = <<>>
  BY <1>0 DEF EpAt, EpGood, Signalled, Operation
<1>3. /\ r1 \in Operation /\ r1.life = "started" /\ r1.signals = <<>> /\ ~r1.stopped /\ r1.cb = "none" /\ r1.stop = "no"
      /\ r1.start = pc /\ r1.kind = op[o].kind
  BY <1>0, <1>1, <1>2, BegunFacts
<1>4. r = [r1 EXCEPT !.due = due]
  BY DEF Fresh
<1> HIDE DEF r1, r
<1>5. /\ r \in Operation /\ r.life = "started" /\ r.signals = <<>> /\ ~r.stopped /\ NoCall(r)
      /\ r.start = pc /\ r.kind = op[o].kind
  BY <1>3, <1>4, DueFacts DEF NoCall
<1>6. Epoll!FirstExecute(o) \in Handlers
  BY <1>0 DEF Epoll!FirstExecute, Handlers, Operation
<1>7. /\ EpKeep(ctx, c, o) /\ EpWake(ctx, c)
      /\ c.execute_[o] = Epoll!FirstExecute(o) /\ SameElsewhere(ctx, c, o) /\ SameQueued(ctx, c, o)
      /\ c.timers_ = ctx.timers_
  BY <1>0, <1>6, HandlesFacts
<1> HIDE DEF c
<1>8. /\ ~EpQueued(c, EpOp(o)) /\ ~EpQueued(c, EpDoneOp(o))
      /\ o \notin c.elapsed /\ o \notin c.cancelPending /\ o \notin c.registered /\ ~InList(c.timers_, o)
  BY <1>1, <1>7 DEF SameElsewhere, SameQueued, EpQueued
<1> QED BY <1>1, <1>5, <1>7, <1>8 DEF c, r

LEMMA EpPrepared ==
  ASSUME NEW o \in IoOps, NEW due, NEW by, NEW pc, op \in [IoOps -> Operation]
  PROVE  Epoll!Prepared(o, due, by, pc)
         = St([op EXCEPT ![o] = Fresh(o, due, by, pc)], Handles(ctx, o, Epoll!FirstExecute(o)))
<1> DEFINE g == [op EXCEPT ![o] = Begun(op[o], by, pc)]
           x == Epoll!FirstExecute(o)
           s == Epoll!StartBegins(Epoll!State, o, by, pc)
<1>1. s = St(g, ctx)
  <2>1. Epoll!StartBegins(St(op, ctx), o, by, pc) = St(g, ctx)
    BY EpSame DEF Epoll!StartBegins, St
  <2> HIDE DEF g
  <2> QED BY <2>1, EpBecome
<1>2. g[o] = Begun(op[o], by, pc) /\ \A r : [g EXCEPT ![o] = r] = [op EXCEPT ![o] = r]
  OBVIOUS
<1>3. Epoll!Prepared(o, due, by, pc) = [s EXCEPT !.op[o].due = due, !.ctx.execute_[o] = x]
  BY DEF Epoll!Prepared
<1> HIDE DEF s, x, g
<1>4. [s EXCEPT !.op[o].due = due, !.ctx.execute_[o] = x]
      = St([g EXCEPT ![o] = [g[o] EXCEPT !.due = due]], Handles(ctx, o, x))
  <2> DEFINE h == [g EXCEPT ![o] = [g[o] EXCEPT !.due = due]]
             s1 == [s EXCEPT !.op[o].due = due]
  <2>1. s1 = St(h, ctx)
    BY <1>1 DEF St
  <2>2. [s EXCEPT !.op[o].due = due, !.ctx.execute_[o] = x] = [s1 EXCEPT !.ctx.execute_[o] = x]
    OBVIOUS
  <2> HIDE DEF h, s1
  <2>3. [s1 EXCEPT !.ctx.execute_[o] = x] = St(h, Handles(ctx, o, x))
    BY <2>1 DEF St, Handles
  <2> QED BY <2>2, <2>3 DEF h
<1>5. [g EXCEPT ![o] = [g[o] EXCEPT !.due = due]] = [op EXCEPT ![o] = Fresh(o, due, by, pc)]
  BY <1>2 DEF Fresh
<1> QED BY <1>3, <1>4, <1>5 DEF x

LEMMA EpStartsThere ==
  ASSUME NEW r \in Operation, NEW o \in IoOps, NEW d, r.life = "started", r.signals = <<>>, ~r.stopped, NoCall(r),
         r.kind = op[o].kind, d.execute_[o] = Epoll!FirstExecute(o), ~EpQueued(d, EpDoneOp(o)),
         o \notin d.elapsed, o \notin d.cancelPending, o \notin d.registered, ~InList(d.timers_, o)
  PROVE  /\ EpGood(r, o \in d.elapsed, d.now)
         /\ EpPhase(r, d.execute_[o], o \in d.elapsed, o \in d.cancelPending, o \in d.registered,
                    InList(d.timers_, o), TRUE, FALSE, EpQueued(d, EpDoneOp(o)))
         /\ Behind(d, EpOp(o)) => EpAt(o, r, d)
<1>1. EpGood(r, o \in d.elapsed, d.now)
  BY DEF EpGood, Signalled
<1>2. d.execute_[o] = CASE r.kind = "schedule" -> "schedule" [] r.kind = "read" -> "start_io" [] r.kind = "timed" -> "start_local"
  BY DEF Epoll!FirstExecute
<1>3. r.stop = "no" /\ r.cb = "none"
  BY DEF NoCall
<1>4. EpStarts(r, d.execute_[o], o \in d.elapsed, o \in d.cancelPending, o \in d.registered,
               InList(d.timers_, o), TRUE, FALSE, EpQueued(d, EpDoneOp(o)))
  BY <1>2, <1>3 DEF EpStarts
<1>5. ASSUME Behind(d, EpOp(o))
      PROVE  EpStarts(r, d.execute_[o], o \in d.elapsed, o \in d.cancelPending, o \in d.registered,
                      InList(d.timers_, o), InBatch(d, EpOp(o)), Behind(d, EpOp(o)), EpQueued(d, EpDoneOp(o)))
  BY <1>2, <1>3, <1>5 DEF EpStarts
<1> QED BY <1>1, <1>4, <1>5 DEF EpPhase, EpAt

LEMMA EpStartRemote ==
  ASSUME EpollInv, NEW o \in IoOps, Epoll!start_remote(o), ContextsAssumption
  PROVE  EpollInv'
<1>1. PICK due \in Epoll!DueTimes(o) :
        LET s == Epoll!schedule_remote(Epoll!Prepared(o, due, Epoll!Outside, "signal"), Epoll!Op(o))
        IN  Epoll!Become(IF Epoll!MustSignal THEN s ELSE Epoll!StartReturns(s, o))
  BY DEF Epoll!start_remote
<1> DEFINE r == Fresh(o, due, Outside, "signal")
           c == Handles(ctx, o, Epoll!FirstExecute(o))
           d == ToRemote(c, EpOp(o))
           inactive == ctx.remoteQueue_ = EpInactive
           t == IF inactive THEN r ELSE Returned(r)
           g == [op EXCEPT ![o] = r]
<1>2. due \in Int
  BY DEF Epoll!DueTimes, ContextsAssumption
<1>3. op[o].life = "idle" /\ op \in [IoOps -> Operation]
  BY DEF Epoll!start_remote, EpollInv
<1>4. /\ r \in Operation /\ r.life = "started" /\ r.signals = <<>> /\ ~r.stopped /\ NoCall(r)
      /\ r.start = "signal" /\ r.kind = op[o].kind
      /\ op[o].start = "no" /\ op[o].stop = "no"
      /\ EpKeep(ctx, c, o) /\ EpWake(ctx, c)
      /\ ~EpQueued(c, EpOp(o)) /\ ~EpQueued(c, EpDoneOp(o)) /\ c.execute_[o] = Epoll!FirstExecute(o)
      /\ o \notin c.elapsed /\ o \notin c.cancelPending /\ o \notin c.registered /\ ~InList(c.timers_, o)
  <2>1. Outside \in Callers /\ "signal" \in Points
    BY DEF Callers, Points
  <2> QED BY <1>2, <1>3, <2>1, EpFresh
<1>5. /\ t \in Operation /\ t.life = "started" /\ t.signals = <<>> /\ ~t.stopped /\ NoCall(t)
      /\ t.start = (IF inactive THEN "signal" ELSE "returned") /\ t.kind = op[o].kind
  <2>1. CASE inactive
    BY <1>4, <2>1
  <2>2. CASE ~inactive
    <3>1. t = Returned(r)
      BY <2>2
    <3> HIDE DEF t, r
    <3> QED BY <1>4, <2>2, <3>1, ReturnedFacts DEF NoCall
  <2> QED BY <2>1, <2>2
<1>6. Epoll!Prepared(o, due, Epoll!Outside, "signal") = St(g, c)
  BY <1>3, EpPrepared, EpSame
<1>7. c \in EpollCtx /\ EpLists(c)
  BY <1>4 DEF EpKeep
<1> HIDE DEF r, c
<1>8. Epoll!schedule_remote(Epoll!Prepared(o, due, Epoll!Outside, "signal"), Epoll!Op(o)) = St(g, d)
  <2> HIDE DEF g
  <2> QED BY <1>6, <1>7, EpParts, EpSameItems
<1>9. Epoll!MustSignal <=> inactive
  BY EpSameItems DEF Epoll!MustSignal
<1>10. op' = [op EXCEPT ![o] = t] /\ ctx' = d
  <2>1. g[o] = r /\ [g EXCEPT ![o] = Returned(r)] = [op EXCEPT ![o] = Returned(r)]
    BY Zenon, <1>3
  <2> HIDE DEF d, g
  <2>2. Epoll!StartReturns(St(g, d), o) = St([op EXCEPT ![o] = Returned(r)], d)
    BY <2>1, EpStartReturns
  <2>3. CASE inactive
    <3>1. Epoll!Become(St(g, d))
      BY <1>1, <1>8, <1>9, <2>3
    <3> QED BY <2>3, <3>1, EpBecome DEF g
  <2>4. CASE ~inactive
    <3>1. Epoll!Become(St([op EXCEPT ![o] = Returned(r)], d))
      BY <1>1, <1>8, <1>9, <2>2, <2>4
    <3> QED BY <2>4, <3>1, EpBecome
  <2> QED BY <2>3, <2>4
<1>11. /\ EpKeep(c, d, o)
       /\ d.stopper = c.stopper /\ d.eventfd = c.eventfd /\ d.remoteQueue_ # EpInactive
       /\ d.remoteQueueReadSubmitted_ = c.remoteQueueReadSubmitted_
       /\ d.execute_ = c.execute_ /\ SameElsewhere(c, d, o) /\ d.timers_ = c.timers_
       /\ Behind(d, EpOp(o)) /\ (EpQueued(d, EpDoneOp(o)) <=> EpQueued(c, EpDoneOp(o)))
  BY <1>4, <1>7, RemoteKeeps
<1> HIDE DEF d, t
<1>12. EpAt(o, t, d)
  <2>1. /\ d.execute_[o] = Epoll!FirstExecute(o) /\ ~EpQueued(d, EpDoneOp(o)) /\ Behind(d, EpOp(o))
        /\ o \notin d.elapsed /\ o \notin d.cancelPending /\ o \notin d.registered /\ ~InList(d.timers_, o)
    BY <1>4, <1>11 DEF SameElsewhere
  <2> QED BY <1>5, <2>1, EpStartsThere
<1>13. EpKeep(ctx, d, o)
  BY <1>4, <1>11, EpKeepTrans
<1>14. /\ d.stopper = ctx.stopper /\ d.eventfd = ctx.eventfd
       /\ d.remoteQueueReadSubmitted_ = ctx.remoteQueueReadSubmitted_
  BY <1>4, <1>11 DEF EpWake
<1>15. t.stop = "no"
  BY <1>5 DEF NoCall
<1> QED BY <1>4, <1>5, <1>10, <1>11, <1>12, <1>13, <1>14, <1>15, EpEnqueues

LEMMA EpIoThread ==
  ASSUME ContextsAssumption
  PROVE  Epoll!IoThread \in Callers
<1>1. Cardinality(Workers) \in Nat
  BY FS_CardinalityType DEF ContextsAssumption
<1>2. PICK w \in Workers : TRUE
  BY DEF ContextsAssumption
<1>3. w \in 1 .. Cardinality(Workers)
  BY DEF ContextsAssumption
<1>4. 1 \in 1 .. Cardinality(Workers)
  BY <1>1, <1>3
<1> QED BY <1>4 DEF ContextsAssumption, Epoll!IoThread, Callers

LEMMA EpStartHere ==
  ASSUME EpollInv, NEW o \in IoOps, Epoll!start_here(o), ContextsAssumption
  PROVE  EpollInv'
<1>1. PICK due \in Epoll!DueTimes(o) :
        LET s == Epoll!StartReturns(Epoll!Prepared(o, due, Epoll!IoThread, "start"), o)
        IN  Epoll!Become(IF op[o].kind = "schedule" THEN Epoll!schedule_local(s, Epoll!Op(o))
                         ELSE Epoll!Execute(s, o, "value"))
  BY DEF Epoll!start_here
<1> DEFINE r == Fresh(o, due, Epoll!IoThread, "start")
           c == Handles(ctx, o, Epoll!FirstExecute(o))
           d == ToLocal(c, EpOp(o))
           t == Returned(r)
           g == [op EXCEPT ![o] = r]
           h == [op EXCEPT ![o] = t]
<1>2. due \in Int
  BY DEF Epoll!DueTimes, ContextsAssumption
<1>3. op[o].life = "idle" /\ op \in [IoOps -> Operation]
  BY DEF Epoll!start_here, EpollInv
<1>4. /\ r \in Operation /\ r.life = "started" /\ r.signals = <<>> /\ ~r.stopped /\ NoCall(r)
      /\ r.start = "start" /\ r.kind = op[o].kind
      /\ op[o].start = "no" /\ op[o].stop = "no"
      /\ EpKeep(ctx, c, o) /\ EpWake(ctx, c)
      /\ ~EpQueued(c, EpOp(o)) /\ ~EpQueued(c, EpDoneOp(o)) /\ c.execute_[o] = Epoll!FirstExecute(o)
      /\ o \notin c.elapsed /\ o \notin c.cancelPending /\ o \notin c.registered /\ ~InList(c.timers_, o)
  <2>1. Epoll!IoThread \in Callers /\ "start" \in Points
    BY EpIoThread DEF Points
  <2> QED BY <1>2, <1>3, <2>1, EpFresh
<1>5. Epoll!Prepared(o, due, Epoll!IoThread, "start") = St(g, c)
  BY <1>3, EpPrepared
<1>6. c \in EpollCtx /\ EpLists(c)
  BY <1>4 DEF EpKeep
<1> HIDE DEF r, c
<1>7. /\ t \in Operation /\ t.life = "started" /\ t.signals = <<>> /\ ~t.stopped /\ NoCall(t)
      /\ t.start = "returned" /\ t.kind = op[o].kind
  BY <1>4, ReturnedFacts DEF NoCall
<1>8. Epoll!StartReturns(Epoll!Prepared(o, due, Epoll!IoThread, "start"), o) = St(h, c)
  <2>1. g[o] = r /\ [g EXCEPT ![o] = t] = h
    BY Zenon, <1>3
  <2> HIDE DEF g
  <2>2. Epoll!StartReturns(St(g, c), o) = St(h, c)
    BY <2>1, EpStartReturns
  <2> QED BY <1>5, <2>2
<1>9. h \in [IoOps -> Operation] /\ h[o] = t
  BY <1>3, <1>7
<1> HIDE DEF h, t
<1>10. Epoll!Become(IF op[o].kind = "schedule" THEN Epoll!schedule_local(St(h, c), EpOp(o))
                    ELSE Epoll!Execute(St(h, c), o, "value"))
  BY <1>1, <1>8, EpSameItems
<1>11. CASE op[o].kind = "schedule"
  <2>1. Epoll!schedule_local(St(h, c), EpOp(o)) = St(h, d)
    BY <1>6, EpParts
  <2>2. op' = [op EXCEPT ![o] = t] /\ ctx' = d
    <3> HIDE DEF d
    <3> QED BY <1>10, <1>11, <2>1, EpBecome DEF h
  <2>3. /\ EpKeep(c, d, o) /\ EpWake(c, d)
        /\ d.execute_ = c.execute_ /\ SameElsewhere(c, d, o) /\ d.timers_ = c.timers_
        /\ Behind(d, EpOp(o)) /\ (EpQueued(d, EpDoneOp(o)) <=> EpQueued(c, EpDoneOp(o)))
    BY <1>4, <1>6, LocalKeeps
  <2> HIDE DEF d
  <2>4. EpAt(o, t, d)
    <3>1. /\ d.execute_[o] = Epoll!FirstExecute(o) /\ ~EpQueued(d, EpDoneOp(o))
          /\ o \notin d.elapsed /\ o \notin d.cancelPending /\ o \notin d.registered /\ ~InList(d.timers_, o)
      BY <1>4, <2>3 DEF SameElsewhere
    <3> QED BY <1>7, <2>3, <3>1, EpStartsThere
  <2>5. EpKeep(ctx, d, o) /\ EpWake(ctx, d)
    BY <1>4, <2>3, EpKeepTrans, EpWakeTrans
  <2>6. t.stop = "no"
    BY <1>7 DEF NoCall
  <2> QED BY <1>4, <1>7, <2>2, <2>4, <2>5, <2>6, EpMoves
<1>12. CASE op[o].kind # "schedule"
  <2> DEFINE s == Epoll!Execute(St(h, c), o, "value")
  <2>1. /\ EpGood(t, o \in c.elapsed, c.now)
        /\ EpPhase(t, c.execute_[o], o \in c.elapsed, o \in c.cancelPending, o \in c.registered,
                   InList(c.timers_, o), TRUE, FALSE, EpQueued(c, EpDoneOp(o)))
    BY <1>4, <1>7, EpStartsThere
  <2>2. Ready(h, c, o)
    <3>1. t.life = "started" /\ Signalled(t)
      BY <1>7 DEF Signalled
    <3>2. h[o].life = "started" /\ Signalled(h[o])
      BY <1>9, <3>1
    <3> QED BY <1>4, <1>6, <1>9, <3>2 DEF Ready
  <2>3. EpMayRun(h, c, o)
    BY <1>7, <1>9 DEF EpMayRun, NoCall
  <2>4. EpRan(h, c, o, s)
    BY <1>9, <2>1, <2>2, <2>3, EpExecutes
  <2> HIDE DEF s
  <2>5. PICK u \in Operation : \E e :
          /\ s = St([h EXCEPT ![o] = u], e)
          /\ EpKeep(c, e, o) /\ EpWake(c, e) /\ EpAt(o, u, e)
          /\ u.start = h[o].start /\ (u.stop = "signal" <=> h[o].stop = "signal")
    BY <2>4 DEF EpRan
  <2>6. PICK e : /\ s = St([h EXCEPT ![o] = u], e)
                 /\ EpKeep(c, e, o) /\ EpWake(c, e) /\ EpAt(o, u, e)
                 /\ u.start = h[o].start /\ (u.stop = "signal" <=> h[o].stop = "signal")
    BY <2>5
  <2>7. [h EXCEPT ![o] = u] = [op EXCEPT ![o] = u]
    BY <1>3 DEF h
  <2>8. op' = [op EXCEPT ![o] = u] /\ ctx' = e
    <3>1. Epoll!Become(s)
      BY <1>10, <1>12 DEF s
    <3> QED BY <2>6, <2>7, <3>1, EpBecome
  <2>9. EpKeep(ctx, e, o) /\ EpWake(ctx, e)
    BY <1>4, <2>6, EpKeepTrans, EpWakeTrans
  <2>10. u.start = "returned" /\ u.stop # "signal"
    BY <1>7, <1>9, <2>6 DEF NoCall
  <2> QED BY <1>4, <2>6, <2>8, <2>9, <2>10, EpMoves
<1> QED BY <1>11, <1>12

\* The eventfd is written to.
LEMMA EpSignals ==
  ASSUME EpollInv, NEW o \in IoOps, NEW r \in Operation, op' = [op EXCEPT ![o] = r],
         op[o].start = "signal" \/ op[o].stop = "signal", r.start # "signal", r.stop # "signal",
         ctx' = [ctx EXCEPT !.eventfd = TRUE], EpAt(o, r, ctx)
  PROVE  EpollInv'
<1>1. ctx \in EpollCtx /\ EpLists(ctx) /\ op \in [IoOps -> Operation]
  BY DEF EpollInv
<1>2. /\ ctx' \in EpollCtx /\ ctx'.batch = ctx.batch /\ ctx'.localQueue_ = ctx.localQueue_
      /\ ctx'.remoteQueue_ = ctx.remoteQueue_ /\ ctx'.timers_ = ctx.timers_ /\ ctx'.execute_ = ctx.execute_
      /\ ctx'.elapsed = ctx.elapsed /\ ctx'.cancelPending = ctx.cancelPending /\ ctx'.registered = ctx.registered
      /\ ctx'.now = ctx.now /\ ctx'.pc = ctx.pc /\ ctx'.stopper = ctx.stopper /\ ctx'.eventfd
      /\ ctx'.remoteQueueReadSubmitted_ = ctx.remoteQueueReadSubmitted_
  BY <1>1 DEF EpollCtx
<1>3. /\ EpLists(ctx')
      /\ \A item : /\ InBatch(ctx', item) <=> InBatch(ctx, item)
                   /\ Behind(ctx', item) <=> Behind(ctx, item)
                   /\ EpQueued(ctx', item) <=> EpQueued(ctx, item)
  BY <1>1, <1>2, EpListsSame
<1>4. \A p \in IoOps : SameView(ctx, ctx', p)
  BY <1>2, <1>3 DEF SameView, SameElsewhere, SameQueued
<1>5. EpKeep(ctx, ctx', o)
  BY <1>2, <1>3, <1>4 DEF EpKeep
<1>6. EpAt(o, r, ctx')
  BY <1>2, <1>4, EpViewKept
<1>7. Wakes(op', ctx')
  <2>1. PICK token \in {<<>>, <<"stopper", "run">>, <<"eventfd", "run">>} \cup {"start", "stop"} \X IoOps :
          WakeToken(op, ctx, token)
    BY DEF EpollInv, Wakes
  <2>2. token = <<"start", o>> \/ token = <<"stop", o>>
    BY <2>1 DEF WakeToken
  <2>3. /\ op'[o] = r /\ \A p \in IoOps : p # o => op'[p] = op[p]
    BY <1>1
  <2>4. \A p \in IoOps : op'[p].start # "signal" /\ op'[p].stop # "signal"
    BY <2>1, <2>2, <2>3 DEF WakeToken
  <2>5. ctx.stopper # "signal" /\ ctx.remoteQueue_ # EpInactive /\ ctx.remoteQueueReadSubmitted_
    BY <2>1, <2>2 DEF WakeToken
  <2>6. WakeToken(op', ctx', <<"eventfd", "run">>)
    BY <1>2, <2>4, <2>5 DEF WakeToken
  <2> QED BY <2>6 DEF Wakes
<1> QED BY <1>5, <1>6, <1>7, EpChanges

LEMMA EpSignalRemote ==
  ASSUME EpollInv, NEW o \in IoOps, Epoll!signal_remote_queue(o)
  PROVE  EpollInv'
<1> DEFINE r == Returned(op[o])
           c == [ctx EXCEPT !.eventfd = TRUE]
<1>0. /\ op \in [IoOps -> Operation] /\ op[o] \in Operation /\ EpAt(o, op[o], ctx)
      /\ op[o].start = "signal"
  BY DEF EpollInv, Epoll!signal_remote_queue
<1>1. op' = [op EXCEPT ![o] = r] /\ ctx' = c
  BY EpSame DEF Epoll!signal_remote_queue, Epoll!StartReturns, Epoll!Become, Epoll!State
<1>2. /\ r \in Operation /\ r.start = "returned"
      /\ r.life = op[o].life /\ r.kind = op[o].kind /\ r.signals = op[o].signals /\ r.stopped = op[o].stopped
      /\ r.cb = op[o].cb /\ r.stop = op[o].stop /\ r.due = op[o].due
  BY <1>0, ReturnedFacts
<1> HIDE DEF r
<1>3. EpAt(o, r, ctx)
  <2>1. EpGood(r, o \in ctx.elapsed, ctx.now)
    BY <1>0, <1>2 DEF EpAt, EpGood, Signalled
  <2> QED BY <1>0, <1>2, <2>1 DEF EpAt, EpPhase, EpIdle, EpStarts, EpTimer, EpLeaves, EpReads, EpStops, EpOver,
               Wakening, CallbackOut, NoCall
<1>4. r.stop # "signal"
  BY <1>0, <1>2 DEF EpollInv, Wakes, WakeToken
<1> QED BY <1>0, <1>1, <1>2, <1>3, <1>4, EpSignals

LEMMA EpStopSignal ==
  ASSUME EpollInv, NEW o \in IoOps, Epoll!StopSignal(o)
  PROVE  EpollInv'
<1> DEFINE r == CallbackReturned(op[o])
           c == [ctx EXCEPT !.eventfd = TRUE]
<1>0. /\ op \in [IoOps -> Operation] /\ op[o] \in Operation /\ EpAt(o, op[o], ctx)
      /\ op[o].stop = "signal"
  BY DEF EpollInv, Epoll!StopSignal
<1>1. op' = [op EXCEPT ![o] = r] /\ ctx' = c
  BY EpSame DEF Epoll!StopSignal, Epoll!CallbackReturns, Epoll!Become, Epoll!State
<1>2. /\ r \in Operation /\ r.start = op[o].start
      /\ r.life = op[o].life /\ r.kind = op[o].kind /\ r.signals = op[o].signals /\ r.stopped = op[o].stopped
      /\ r.cb = "ran" /\ r.stop = "no" /\ r.due = op[o].due
  BY <1>0, CallbackReturnedFacts
<1> HIDE DEF r
<1>3. EpAt(o, r, ctx)
  <2>1. EpGood(r, o \in ctx.elapsed, ctx.now)
    BY <1>0, <1>2 DEF EpAt, EpGood, Signalled
  <2> QED BY <1>0, <1>2, <2>1 DEF EpAt, EpPhase, EpIdle, EpStarts, EpTimer, EpLeaves, EpReads, EpStops, EpOver,
               Wakening, CallbackOut, NoCall
<1>4. r.start # "signal"
  BY <1>0, <1>2 DEF EpollInv, Wakes, WakeToken
<1> QED BY <1>0, <1>1, <1>2, <1>3, <1>4, EpSignals

-----------------------------------------------------------------------------
\* Stop requests.  A read is asked only once it waits.
LEMMA EpMayStop ==
  ASSUME EpollInv, NEW o \in IoOps, Epoll!MayStop(o), ~EarlyStop
  PROVE  /\ op \in [IoOps -> Operation] /\ op[o] \in Operation /\ ~op[o].stopped /\ op[o].life # "idle"
         /\ op[o].kind = "read" => op[o].cb = "set" /\ ctx.execute_[o] = "on_read_complete"
         /\ EpAt(o, op[o], ctx) /\ ctx \in EpollCtx /\ EpLists(ctx)
BY DEF EpollInv, Epoll!MayStop, Epoll!MayRequestStop

LEMMA EpStays ==
  ASSUME NEW c \in EpollCtx, EpLists(c), NEW o
  PROVE  EpKeep(c, c, o) /\ EpWake(c, c)
BY DEF EpKeep, EpWake, SameView, SameElsewhere, SameQueued

LEMMA EpStopBegun ==
  ASSUME EpollInv, NEW o \in IoOps, Epoll!MayStop(o), ~EarlyStop, Epoll!Become(Epoll!StopBegins(Epoll!State, o, "flag"))
  PROVE  EpollInv'
<1> DEFINE r == StopBegun(op[o], "flag")
<1>1. op' = [op EXCEPT ![o] = r] /\ ctx' = ctx
  BY EpSame DEF Epoll!StopBegins, Epoll!Become, Epoll!State
<1>2. /\ op[o] \in Operation /\ ~op[o].stopped /\ op[o].life # "idle"
      /\ op[o].kind = "read" => op[o].cb = "set" /\ ctx.execute_[o] = "on_read_complete"
      /\ EpAt(o, op[o], ctx) /\ ctx \in EpollCtx /\ EpLists(ctx)
  BY EpMayStop
<1>3. /\ r \in Operation /\ r.stopped
      /\ op[o].cb = "set" => r.cb = "running" /\ r.stop = "flag"
      /\ op[o].cb # "set" => r.cb = op[o].cb /\ r.stop = op[o].stop
      /\ r.life = op[o].life /\ r.signals = op[o].signals /\ r.start = op[o].start
      /\ r.kind = op[o].kind /\ r.due = op[o].due
  <2>1. "flag" \in Points
    BY DEF Points
  <2> QED BY <1>2, <2>1, StopBegunFacts
<1> HIDE DEF r
<1>4. EpAt(o, r, ctx)
  <2>1. EpGood(r, o \in ctx.elapsed, ctx.now)
    BY <1>2, <1>3 DEF EpAt, EpGood, Signalled
  <2> QED BY <1>2, <1>3, <2>1 DEF EpAt, EpPhase, EpIdle, EpStarts, EpTimer, EpLeaves, EpReads, EpStops, EpOver,
               Wakening, CallbackOut, NoCall
<1>5. EpKeep(ctx, ctx', o) /\ EpWake(ctx, ctx')
  BY <1>1, <1>2, EpStays
<1>6. r.stop = "signal" <=> op[o].stop = "signal"
  <2>1. op[o].cb = "set" => op[o].stop # "signal"
    BY <1>2 DEF EpAt, EpPhase, EpIdle, EpStarts, EpTimer, EpLeaves, EpReads, EpStops, EpOver,
               Wakening, CallbackOut, NoCall
  <2> QED BY <1>3, <2>1
<1>7. EpAt(o, r, ctx')
  BY <1>1, <1>4
<1> QED BY <1>1, <1>3, <1>5, <1>6, <1>7, EpMoves

LEMMA EpRequestStopRemote ==
  ASSUME EpollInv, NEW o \in IoOps, ~EarlyStop, Epoll!request_stop_remote(o)
  PROVE  EpollInv'
BY EpStopBegun DEF Epoll!request_stop_remote

\* The callback on another thread.
LEMMA EpStopFlag ==
  ASSUME EpollInv, NEW o \in IoOps, Epoll!StopFlag(o)
  PROVE  EpollInv'
<1> DEFINE c == Flagged(ctx, o)
           pc == IF op[o].kind = "read" THEN "deregister" ELSE "enqueue"
           r == IF o \in ctx.elapsed THEN CallbackReturned(op[o]) ELSE [op[o] EXCEPT !.stop = pc]
<1>0. /\ op \in [IoOps -> Operation] /\ op[o] \in Operation /\ EpAt(o, op[o], ctx) /\ ctx \in EpollCtx /\ EpLists(ctx)
      /\ op[o].stop = "flag"
  BY DEF EpollInv, Epoll!StopFlag
<1>1. op' = [op EXCEPT ![o] = r] /\ ctx' = c
  <2>1. CASE o \in ctx.elapsed
    BY <2>1, EpSame DEF Epoll!StopFlag, Epoll!CallbackReturns, Epoll!Become, Epoll!State, Flagged
  <2>2. CASE o \notin ctx.elapsed
    BY <2>2 DEF Epoll!StopFlag, Epoll!Become, Epoll!State, Flagged
  <2> QED BY <2>1, <2>2
<1>2. /\ r \in Operation /\ r.start = op[o].start
      /\ r.life = op[o].life /\ r.kind = op[o].kind /\ r.signals = op[o].signals /\ r.stopped = op[o].stopped
      /\ r.due = op[o].due
      /\ o \in ctx.elapsed => r.cb = "ran" /\ r.stop = "no"
      /\ o \notin ctx.elapsed => r.cb = op[o].cb /\ r.stop = pc
  <2>1. CASE o \in ctx.elapsed
    <3>1. r = CallbackReturned(op[o])
      BY <2>1
    <3> HIDE DEF r
    <3> QED BY <1>0, <2>1, <3>1, CallbackReturnedFacts
  <2>2. CASE o \notin ctx.elapsed
    <3>1. r = [op[o] EXCEPT !.stop = pc]
      BY <2>2
    <3>2. pc \in Points
      BY DEF Points
    <3> HIDE DEF r, pc
    <3> QED BY <1>0, <2>2, <3>1, <3>2, MovedFacts
  <2> QED BY <2>1, <2>2
<1>3. /\ EpKeep(ctx, c, o) /\ EpWake(ctx, c)
      /\ c.execute_ = ctx.execute_ /\ c.elapsed = ctx.elapsed /\ o \in c.cancelPending
      /\ c.registered = ctx.registered /\ SameQueued(ctx, c, o) /\ c.timers_ = ctx.timers_ /\ c.now = ctx.now
  BY <1>0, FlaggedFacts DEF EpKeep
<1> HIDE DEF r, c
<1>4. EpAt(o, r, c)
  <2>1. EpGood(r, o \in c.elapsed, c.now)
    BY <1>0, <1>2, <1>3 DEF EpAt, EpGood, Signalled
  <2> QED BY <1>0, <1>2, <1>3, <2>1 DEF EpAt, EpPhase, EpIdle, EpStarts, EpTimer, EpLeaves, EpReads, EpStops, EpOver,
               Wakening, CallbackOut, NoCall, SameQueued
<1>5. r.stop # "signal"
  BY <1>2
<1> QED BY <1>0, <1>1, <1>2, <1>3, <1>4, <1>5, EpMoves

LEMMA EpStopDeregister ==
  ASSUME EpollInv, NEW o \in IoOps, Epoll!StopDeregister(o)
  PROVE  EpollInv'
<1> DEFINE c == Unregistered(ctx, o)
           r == [op[o] EXCEPT !.stop = "enqueue"]
<1>0. /\ op \in [IoOps -> Operation] /\ op[o] \in Operation /\ EpAt(o, op[o], ctx) /\ ctx \in EpollCtx /\ EpLists(ctx)
      /\ op[o].stop = "deregister"
  BY DEF EpollInv, Epoll!StopDeregister
<1>1. op' = [op EXCEPT ![o] = r] /\ ctx' = c
  BY DEF Epoll!StopDeregister, Epoll!Deregister, Epoll!Become, Epoll!State, Unregistered
<1>2. /\ r \in Operation /\ r.start = op[o].start /\ r.cb = op[o].cb /\ r.stop = "enqueue"
      /\ r.life = op[o].life /\ r.kind = op[o].kind /\ r.signals = op[o].signals /\ r.stopped = op[o].stopped
      /\ r.due = op[o].due
  <2>1. "enqueue" \in Points
    BY DEF Points
  <2> QED BY <1>0, <2>1, MovedFacts
<1>3. /\ EpKeep(ctx, c, o) /\ EpWake(ctx, c)
      /\ c.execute_ = ctx.execute_ /\ c.elapsed = ctx.elapsed /\ c.cancelPending = ctx.cancelPending
      /\ o \notin c.registered /\ SameQueued(ctx, c, o) /\ c.timers_ = ctx.timers_ /\ c.now = ctx.now
  BY <1>0, UnregisteredFacts DEF EpKeep
<1> HIDE DEF r, c
<1>4. EpAt(o, r, c)
  <2>1. EpGood(r, o \in c.elapsed, c.now)
    BY <1>0, <1>2, <1>3 DEF EpAt, EpGood, Signalled
  <2> QED BY <1>0, <1>2, <1>3, <2>1 DEF EpAt, EpPhase, EpIdle, EpStarts, EpTimer, EpLeaves, EpReads, EpStops, EpOver,
               Wakening, CallbackOut, NoCall, SameQueued
<1>5. r.stop # "signal"
  BY <1>2
<1> QED BY <1>0, <1>1, <1>2, <1>3, <1>4, <1>5, EpMoves

\* The callback hands the operation over to the I/O thread.
LEMMA EpSignalNext ==
  ASSUME NEW o \in IoOps, op \in [IoOps -> Operation]
  PROVE  Epoll!SignalNext(Epoll!State, o)
         = St([op EXCEPT ![o] = IF ctx.remoteQueue_ = EpInactive THEN [op[o] EXCEPT !.stop = "signal"]
                                ELSE CallbackReturned(op[o])], ctx)
<1>1. Epoll!MustSignal <=> ctx.remoteQueue_ = EpInactive
  BY EpSameItems DEF Epoll!MustSignal
<1>2. [St(op, ctx) EXCEPT !.op[o].stop = "signal"] = St([op EXCEPT ![o] = [op[o] EXCEPT !.stop = "signal"]], ctx)
  BY DEF St
<1>3. Epoll!CallbackReturns(St(op, ctx), o) = St([op EXCEPT ![o] = CallbackReturned(op[o])], ctx)
  BY EpCallbackReturns
<1>4. Epoll!State = St(op, ctx)
  BY EpBecome
<1> QED BY <1>1, <1>2, <1>3, <1>4 DEF Epoll!SignalNext

LEMMA EpStopEnqueue ==
  ASSUME EpollInv, NEW o \in IoOps, Epoll!StopEnqueue(o)
  PROVE  EpollInv'
<1> DEFINE inactive == ctx.remoteQueue_ = EpInactive
           r == IF inactive THEN [op[o] EXCEPT !.stop = "signal"] ELSE CallbackReturned(op[o])
           g == [op EXCEPT ![o] = r]
           x == "remove_timer_from_queue_and_complete_with_done"
           read == op[o].kind = "read"
           c == IF read THEN ctx ELSE Handles(ctx, o, x)
           item == IF read THEN EpDoneOp(o) ELSE EpOp(o)
           d == ToRemote(c, item)
<1>1. /\ op \in [IoOps -> Operation] /\ op[o] \in Operation /\ EpAt(o, op[o], ctx) /\ ctx \in EpollCtx /\ EpLists(ctx)
      /\ op[o].stop = "enqueue" /\ op[o].start \in Points
  BY DEF EpollInv, Epoll!StopEnqueue, Operation
<1>2. /\ r \in Operation /\ r.start = op[o].start
      /\ r.life = op[o].life /\ r.kind = op[o].kind /\ r.signals = op[o].signals /\ r.stopped = op[o].stopped
      /\ r.due = op[o].due
      /\ inactive => r.cb = op[o].cb /\ r.stop = "signal"
      /\ ~inactive => r.cb = "ran" /\ r.stop = "no"
  <2>1. CASE inactive
    <3>1. r = [op[o] EXCEPT !.stop = "signal"] /\ "signal" \in Points
      BY <2>1 DEF Points
    <3> HIDE DEF r
    <3> QED BY Zenon, <1>1, <2>1, <3>1, MovedFacts
  <2>2. CASE ~inactive
    <3>1. r = CallbackReturned(op[o])
      BY <2>2
    <3> HIDE DEF r
    <3> QED BY <1>1, <2>2, <3>1, CallbackReturnedFacts
  <2> QED BY <2>1, <2>2
<1>3. Epoll!SignalNext(Epoll!State, o) = St(g, ctx)
  BY <1>1, EpSignalNext
<1> HIDE DEF r
<1>4. x \in Handlers
  BY DEF Handlers
<1>5. /\ EpKeep(ctx, c, o) /\ EpWake(ctx, c)
      /\ c.execute_[o] = (IF read THEN ctx.execute_[o] ELSE x)
      /\ SameElsewhere(ctx, c, o) /\ SameQueued(ctx, c, o) /\ c.timers_ = ctx.timers_
  <2>1. CASE read
    <3>1. c = ctx
      BY <2>1
    <3> HIDE DEF c
    <3> QED BY <1>1, <2>1, <3>1, EpStays DEF SameElsewhere, SameQueued
  <2>2. CASE ~read
    <3>1. c = Handles(ctx, o, x)
      BY <2>2
    <3> HIDE DEF c, x
    <3> QED BY <1>1, <1>4, <2>2, <3>1, HandlesFacts
  <2> QED BY <2>1, <2>2
<1>6. c \in EpollCtx /\ EpLists(c)
  BY <1>5 DEF EpKeep
<1>7. op' = g /\ ctx' = d
  <2>1. CASE read
    <3>1. Epoll!Become(Epoll!schedule_remote(St(g, ctx), EpDoneOp(o)))
      BY <1>3, <2>1, EpSameItems DEF Epoll!StopEnqueue
    <3>2. Epoll!schedule_remote(St(g, ctx), EpDoneOp(o)) = St(g, ToRemote(ctx, EpDoneOp(o)))
      <4> HIDE DEF g
      <4> QED BY <1>1, EpParts
    <3> QED BY <2>1, <3>1, <3>2, EpBecome
  <2>2. CASE ~read
    <3>1. Epoll!Become(Epoll!schedule_remote([St(g, ctx) EXCEPT !.ctx.execute_[o] = x], EpOp(o)))
      BY <1>3, <2>2, EpSameItems DEF Epoll!StopEnqueue
    <3>2. [St(g, ctx) EXCEPT !.ctx.execute_[o] = x] = St(g, Handles(ctx, o, x))
      <4> HIDE DEF g, x
      <4> QED BY <1>1, EpHandles
    <3>3. c = Handles(ctx, o, x) /\ item = EpOp(o)
      BY <2>2
    <3> HIDE DEF g, c
    <3>4. Epoll!schedule_remote(St(g, c), EpOp(o)) = St(g, ToRemote(c, EpOp(o)))
      BY <1>6, EpParts
    <3> QED BY <3>1, <3>2, <3>3, <3>4, EpBecome
  <2> QED BY <2>1, <2>2
<1>8. ~EpQueued(ctx, item) /\ item \in {EpOp(o), EpDoneOp(o)}
  BY <1>1 DEF EpAt, EpPhase, EpIdle, EpStarts, EpTimer, EpLeaves, EpReads, EpStops, EpOver, Wakening, CallbackOut,
              NoCall, EpQueued
<1>9. ~EpQueued(c, item)
  BY <1>5, <1>8 DEF SameQueued, EpQueued
<1> HIDE DEF c
<1>10. /\ EpKeep(c, d, o)
       /\ d.stopper = c.stopper /\ d.eventfd = c.eventfd /\ d.remoteQueue_ # EpInactive
       /\ d.remoteQueueReadSubmitted_ = c.remoteQueueReadSubmitted_
       /\ d.execute_ = c.execute_ /\ SameElsewhere(c, d, o) /\ d.timers_ = c.timers_
       /\ item = EpOp(o) => /\ InBatch(d, EpOp(o)) <=> InBatch(c, EpOp(o))
                            /\ Behind(d, EpOp(o))
                            /\ EpQueued(d, EpDoneOp(o)) <=> EpQueued(c, EpDoneOp(o))
       /\ item = EpDoneOp(o) => /\ InBatch(d, EpOp(o)) <=> InBatch(c, EpOp(o))
                                /\ Behind(d, EpOp(o)) <=> Behind(c, EpOp(o))
                                /\ EpQueued(d, EpDoneOp(o))
  <2> HIDE DEF item
  <2> QED BY <1>6, <1>8, <1>9, RemoteKeeps
<1>11. item = IF read THEN EpDoneOp(o) ELSE EpOp(o)
  OBVIOUS
<1> HIDE DEF d, item
<1>12. EpAt(o, r, d)
  <2>1. EpGood(r, o \in d.elapsed, d.now)
    BY <1>1, <1>2, <1>5, <1>10 DEF EpAt, EpGood, Signalled, SameElsewhere, EpKeep
  <2>2. Wakening(r) \/ CallbackOut(r)
    BY <1>1, <1>2 DEF EpAt, EpPhase, EpIdle, EpStarts, EpTimer, EpLeaves, EpReads, EpStops, EpOver, Wakening,
                      CallbackOut, NoCall
  <2>3. CASE read
    <3>1. EpReads(op[o], ctx.execute_[o], o \in ctx.elapsed, o \in ctx.cancelPending, o \in ctx.registered,
                  InList(ctx.timers_, o), InBatch(ctx, EpOp(o)), Behind(ctx, EpOp(o)), EpQueued(ctx, EpDoneOp(o)))
      BY <1>1, <2>3 DEF EpAt, EpPhase, EpIdle, EpStarts, EpTimer, EpLeaves, EpReads, EpStops, EpOver, Wakening,
                        CallbackOut, NoCall
    <3>2. EpStops(r, d.execute_[o], o \in d.elapsed, o \in d.cancelPending, o \in d.registered,
                  InList(d.timers_, o), InBatch(d, EpOp(o)), Behind(d, EpOp(o)), EpQueued(d, EpDoneOp(o)))
      BY <1>1, <1>2, <1>5, <1>10, <1>11, <2>2, <2>3, <3>1 DEF EpReads, EpStops, SameElsewhere, SameQueued
    <3> QED BY <2>1, <3>2 DEF EpAt, EpPhase
  <2>4. CASE ~read
    <3>1. EpTimer(op[o], ctx.execute_[o], o \in ctx.elapsed, o \in ctx.cancelPending, o \in ctx.registered,
                  InList(ctx.timers_, o), InBatch(ctx, EpOp(o)), Behind(ctx, EpOp(o)), EpQueued(ctx, EpDoneOp(o)))
      BY <1>1, <2>4 DEF EpAt, EpPhase, EpIdle, EpStarts, EpTimer, EpLeaves, EpReads, EpStops, EpOver, Wakening,
                        CallbackOut, NoCall
    <3>2. EpLeaves(r, d.execute_[o], o \in d.elapsed, o \in d.cancelPending, o \in d.registered,
                   InList(d.timers_, o), InBatch(d, EpOp(o)), Behind(d, EpOp(o)), EpQueued(d, EpDoneOp(o)))
      BY <1>1, <1>2, <1>5, <1>10, <1>11, <2>2, <2>4, <3>1 DEF EpTimer, EpLeaves, SameElsewhere, SameQueued
    <3> QED BY <2>1, <3>2 DEF EpAt, EpPhase
  <2> QED BY <2>3, <2>4
<1>13. EpKeep(ctx, d, o)
  BY <1>5, <1>10, EpKeepTrans
<1>14. /\ d.stopper = ctx.stopper /\ d.eventfd = ctx.eventfd /\ d.remoteQueueReadSubmitted_ = ctx.remoteQueueReadSubmitted_
  BY <1>5, <1>10 DEF EpWake
<1>15. op[o].start # "signal" \/ ~inactive
  <2>1. PICK token : WakeToken(op, ctx, token)
    BY DEF EpollInv, Wakes
  <2> QED BY <2>1 DEF WakeToken
<1> QED BY <1>1, <1>2, <1>7, <1>10, <1>12, <1>13, <1>14, <1>15, EpEnqueues DEF g

\* The callback on the I/O thread: a timer is unlinked at once.
LEMMA EpCallbackHere ==
  ASSUME EpollInv, NEW o \in IoOps, Epoll!MayStop(o), ~EarlyStop, op[o].cb = "set"
  PROVE  LET r == CallbackReturned(StopBegun(op[o], "flag")) IN
         /\ op[o] \in Operation /\ op[o].stop = "no" /\ op[o].life = "started"
         /\ r \in Operation /\ r.stopped /\ r.cb = "ran" /\ r.stop = "no"
         /\ r.life = op[o].life /\ r.signals = op[o].signals /\ r.start = op[o].start
         /\ r.kind = op[o].kind /\ r.due = op[o].due
         /\ Epoll!CallbackReturns(Epoll!StopBegins(Epoll!State, o, "flag"), o) = St([op EXCEPT ![o] = r], ctx)
         /\ op[o].kind = "timed" =>
              EpTimer(op[o], ctx.execute_[o], o \in ctx.elapsed, o \in ctx.cancelPending, o \in ctx.registered,
                      InList(ctx.timers_, o), InBatch(ctx, EpOp(o)), Behind(ctx, EpOp(o)), EpQueued(ctx, EpDoneOp(o)))
         /\ op[o].kind # "timed" =>
              EpReads(op[o], ctx.execute_[o], o \in ctx.elapsed, o \in ctx.cancelPending, o \in ctx.registered,
                      InList(ctx.timers_, o), InBatch(ctx, EpOp(o)), Behind(ctx, EpOp(o)), EpQueued(ctx, EpDoneOp(o)))
<1> DEFINE r1 == StopBegun(op[o], "flag")
           r == CallbackReturned(r1)
<1>1. op \in [IoOps -> Operation] /\ op[o] \in Operation /\ EpAt(o, op[o], ctx)
  BY EpMayStop
<1>2. "flag" \in Points
  BY DEF Points
<1>3. /\ r1 \in Operation /\ r1.stopped
      /\ r1.life = op[o].life /\ r1.signals = op[o].signals /\ r1.start = op[o].start
      /\ r1.kind = op[o].kind /\ r1.due = op[o].due
  BY <1>1, <1>2, StopBegunFacts
<1>4. Epoll!CallbackReturns(Epoll!StopBegins(Epoll!State, o, "flag"), o) = St([op EXCEPT ![o] = r], ctx)
  <2> DEFINE g == [op EXCEPT ![o] = r1]
  <2>1. Epoll!StopBegins(Epoll!State, o, "flag") = St(g, ctx)
    BY EpStopBegins, EpBecome
  <2>2. [g EXCEPT ![o] = CallbackReturned(g[o])] = [op EXCEPT ![o] = r]
    BY <1>1
  <2> HIDE DEF g, r
  <2>3. Epoll!CallbackReturns(St(g, ctx), o) = St([op EXCEPT ![o] = r], ctx)
    BY <2>2, EpCallbackReturns
  <2> QED BY <2>1, <2>3
<1> HIDE DEF r1
<1>5. /\ r \in Operation /\ r.stopped /\ r.cb = "ran" /\ r.stop = "no"
      /\ r.life = op[o].life /\ r.signals = op[o].signals /\ r.start = op[o].start
      /\ r.kind = op[o].kind /\ r.due = op[o].due
  BY <1>3, CallbackReturnedFacts
<1> HIDE DEF r
<1>6. /\ op[o].stop = "no" /\ op[o].life = "started"
      /\ op[o].kind = "timed" =>
              EpTimer(op[o], ctx.execute_[o], o \in ctx.elapsed, o \in ctx.cancelPending, o \in ctx.registered,
                      InList(ctx.timers_, o), InBatch(ctx, EpOp(o)), Behind(ctx, EpOp(o)), EpQueued(ctx, EpDoneOp(o)))
      /\ op[o].kind # "timed" =>
              EpReads(op[o], ctx.execute_[o], o \in ctx.elapsed, o \in ctx.cancelPending, o \in ctx.registered,
                      InList(ctx.timers_, o), InBatch(ctx, EpOp(o)), Behind(ctx, EpOp(o)), EpQueued(ctx, EpDoneOp(o)))
  BY <1>1 DEF EpAt, EpPhase, EpIdle, EpStarts, EpTimer, EpLeaves, EpReads, EpStops, EpOver, Wakening, CallbackOut,
              NoCall
<1> QED BY <1>1, <1>4, <1>5, <1>6 DEF r, r1

LEMMA EpStopTimerHere ==
  ASSUME EpollInv, NEW o \in IoOps, Epoll!MayStop(o), ~EarlyStop, op[o].cb = "set", op[o].kind = "timed",
         Epoll!Become(Epoll!request_stop_local(Epoll!CallbackReturns(Epoll!StopBegins(Epoll!State, o, "flag"), o), o))
  PROVE  EpollInv'
<1> DEFINE r == CallbackReturned(StopBegun(op[o], "flag"))
           u == Destructed(r)
           g == [op EXCEPT ![o] = u]
           x == "complete_with_done"
           c == Handles(ctx, o, x)
           d == OffTimers(c, o)
           e == ToLocal(d, EpOp(o))
           z == IF o \in ctx.elapsed THEN c ELSE e
<1>1. op \in [IoOps -> Operation] /\ EpAt(o, op[o], ctx) /\ ctx \in EpollCtx /\ EpLists(ctx)
  BY EpMayStop
<1>2. /\ op[o] \in Operation /\ op[o].stop = "no" /\ op[o].life = "started"
      /\ r \in Operation /\ r.stopped /\ r.cb = "ran" /\ r.stop = "no"
      /\ r.life = op[o].life /\ r.signals = op[o].signals /\ r.start = op[o].start
      /\ r.kind = op[o].kind /\ r.due = op[o].due
      /\ Epoll!CallbackReturns(Epoll!StopBegins(Epoll!State, o, "flag"), o) = St([op EXCEPT ![o] = r], ctx)
      /\ EpTimer(op[o], ctx.execute_[o], o \in ctx.elapsed, o \in ctx.cancelPending, o \in ctx.registered,
                 InList(ctx.timers_, o), InBatch(ctx, EpOp(o)), Behind(ctx, EpOp(o)), EpQueued(ctx, EpDoneOp(o)))
  BY EpCallbackHere
<1> HIDE DEF r
<1>3. /\ u \in Operation /\ u.cb = "none" /\ u.stop = "no" /\ u.stopped /\ u.life = "started" /\ u.kind = "timed"
      /\ u.start = op[o].start /\ u.signals = op[o].signals /\ u.due = op[o].due
  BY <1>2, DestructedFacts
<1>4. x \in Handlers
  BY DEF Handlers
<1>5. /\ EpKeep(ctx, c, o) /\ EpWake(ctx, c)
      /\ c.execute_[o] = x /\ SameElsewhere(ctx, c, o) /\ SameQueued(ctx, c, o) /\ c.timers_ = ctx.timers_
  <2> HIDE DEF x
  <2> QED BY <1>1, <1>4, HandlesFacts
<1>6. c \in EpollCtx /\ EpLists(c)
  BY <1>5 DEF EpKeep
<1>7. Epoll!Destruct([St([op EXCEPT ![o] = r], ctx) EXCEPT !.ctx.execute_[o] = x], o) = St(g, c)
  <2> DEFINE h == [op EXCEPT ![o] = r]
  <2>1. [h EXCEPT ![o] = Destructed(h[o])] = g
    BY Zenon, <1>1
  <2> HIDE DEF h, x, g
  <2>2. [St(h, ctx) EXCEPT !.ctx.execute_[o] = x] = St(h, c)
    BY <1>1, EpHandles
  <2> HIDE DEF c
  <2>3. Epoll!Destruct(St(h, c), o) = St(g, c)
    BY <2>1, EpDestruct
  <2> QED BY <2>2, <2>3 DEF h
<1> HIDE DEF u, c
<1>8. /\ EpKeep(c, d, o) /\ EpWake(c, d)
      /\ d.execute_ = c.execute_ /\ SameElsewhere(c, d, o) /\ SameQueued(c, d, o) /\ ~InList(d.timers_, o)
      /\ d \in EpollCtx /\ EpLists(d)
  BY <1>6, OffTimersFacts DEF EpKeep
<1>9. ASSUME o \notin ctx.elapsed
      PROVE  /\ EpKeep(d, e, o) /\ EpWake(d, e)
             /\ e.execute_ = d.execute_ /\ SameElsewhere(d, e, o) /\ e.timers_ = d.timers_
             /\ Behind(e, EpOp(o)) /\ (EpQueued(e, EpDoneOp(o)) <=> EpQueued(d, EpDoneOp(o)))
  <2>1. ~EpQueued(ctx, EpOp(o))
    BY <1>2, <1>9 DEF EpTimer, EpQueued
  <2>2. ~EpQueued(d, EpOp(o))
    BY <1>5, <1>8, <2>1 DEF SameQueued, EpQueued
  <2> HIDE DEF d
  <2> QED BY <1>8, <2>2, LocalKeeps
<1>10. op' = g /\ ctx' = z
  <2> DEFINE s == St([op EXCEPT ![o] = r], ctx)
             t == Epoll!Destruct([s EXCEPT !.ctx.execute_[o] = x], o)
  <2>1. Epoll!Become(IF o \in s.ctx.elapsed THEN t
                     ELSE Epoll!schedule_local(Epoll!remove_timer(t, o), Epoll!Op(o)))
    BY <1>2 DEF Epoll!request_stop_local
  <2>2. s.ctx.elapsed = ctx.elapsed
    BY DEF St
  <2>3. t = St(g, c)
    BY <1>7
  <2> HIDE DEF s, t, g
  <2>4. Epoll!remove_timer(St(g, c), o) = St(g, d)
    BY <1>6, EpParts
  <2> HIDE DEF d
  <2>5. Epoll!schedule_local(St(g, d), Epoll!Op(o)) = St(g, e)
    BY <1>8, EpParts, EpSameItems
  <2> HIDE DEF e
  <2>6. CASE o \in ctx.elapsed
    BY <2>1, <2>2, <2>3, <2>6, EpBecome
  <2>7. CASE o \notin ctx.elapsed
    BY <2>1, <2>2, <2>3, <2>4, <2>5, <2>7, EpBecome
  <2> QED BY <2>6, <2>7
<1>11. EpKeep(ctx, z, o) /\ EpWake(ctx, z)
  <2>1. CASE o \in ctx.elapsed
    BY <1>5, <2>1
  <2>2. CASE o \notin ctx.elapsed
    <3>1. EpKeep(ctx, d, o) /\ EpWake(ctx, d)
      BY <1>5, <1>8, EpKeepTrans, EpWakeTrans
    <3>2. EpKeep(ctx, e, o) /\ EpWake(ctx, e)
      <4> HIDE DEF d, e
      <4> QED BY <1>9, <2>2, <3>1, EpKeepTrans, EpWakeTrans
    <3> QED BY <2>2, <3>2
  <2> QED BY <2>1, <2>2
<1> HIDE DEF d, e
<1>12. EpLeaves(u, z.execute_[o], o \in z.elapsed, o \in z.cancelPending, o \in z.registered,
                InList(z.timers_, o), InBatch(z, EpOp(o)), Behind(z, EpOp(o)), EpQueued(z, EpDoneOp(o)))
  <2>1. CASE o \in ctx.elapsed
    BY <1>2, <1>3, <1>5, <2>1 DEF EpTimer, EpLeaves, SameElsewhere, SameQueued, NoCall
  <2>2. CASE o \notin ctx.elapsed
    BY <1>2, <1>3, <1>5, <1>8, <1>9, <2>2 DEF EpTimer, EpLeaves, SameElsewhere, SameQueued, NoCall
  <2> QED BY <2>1, <2>2
<1>13. EpGood(u, o \in z.elapsed, z.now)
  <2>1. z.now = ctx.now /\ (o \in z.elapsed => o \in ctx.elapsed)
    <3>1. z.now = ctx.now
      BY <1>11 DEF EpKeep
    <3>2. CASE o \in ctx.elapsed
      BY <3>1, <3>2
    <3>3. CASE o \notin ctx.elapsed
      BY <1>5, <1>8, <1>9, <3>1, <3>3 DEF SameElsewhere
    <3> QED BY <3>2, <3>3
  <2> HIDE DEF z
  <2>2. EpGood(op[o], o \in ctx.elapsed, ctx.now)
    BY <1>1 DEF EpAt
  <2> QED BY <1>2, <1>3, <2>1, <2>2 DEF EpGood, Signalled
<1> HIDE DEF z
<1>14. EpAt(o, u, z)
  BY <1>12, <1>13 DEF EpAt, EpPhase
<1> QED BY <1>2, <1>3, <1>10, <1>11, <1>14, EpMoves DEF g

\* A read: its done_op is queued, and the eventfd written to if need be.
Raised(c, w) == [c EXCEPT !.eventfd = w]
LEMMA RaisedFacts ==
  ASSUME NEW c \in EpollCtx, EpLists(c), NEW o \in IoOps, NEW w \in BOOLEAN
  PROVE  LET d == Raised(c, w) IN
         /\ EpKeep(c, d, o)
         /\ d.eventfd = w /\ d.stopper = c.stopper /\ d.remoteQueue_ = c.remoteQueue_
         /\ d.remoteQueueReadSubmitted_ = c.remoteQueueReadSubmitted_
         /\ d.execute_ = c.execute_ /\ d.elapsed = c.elapsed /\ d.cancelPending = c.cancelPending
         /\ d.registered = c.registered /\ SameQueued(c, d, o) /\ d.timers_ = c.timers_
<1> DEFINE d == Raised(c, w)
<1>1. /\ d \in EpollCtx /\ d.eventfd = w /\ d.stopper = c.stopper /\ d.remoteQueue_ = c.remoteQueue_
      /\ d.remoteQueueReadSubmitted_ = c.remoteQueueReadSubmitted_
      /\ d.execute_ = c.execute_ /\ d.elapsed = c.elapsed /\ d.cancelPending = c.cancelPending
      /\ d.registered = c.registered /\ d.timers_ = c.timers_
      /\ d.batch = c.batch /\ d.localQueue_ = c.localQueue_ /\ d.pc = c.pc /\ d.now = c.now
  BY DEF Raised, EpollCtx
<1> HIDE DEF d
<1>2. /\ EpLists(d)
      /\ \A item : /\ InBatch(d, item) <=> InBatch(c, item)
                   /\ Behind(d, item) <=> Behind(c, item)
                   /\ EpQueued(d, item) <=> EpQueued(c, item)
      /\ \A p : InList(d.timers_, p) <=> InList(c.timers_, p)
  BY <1>1, EpListsSame
<1> QED BY <1>1, <1>2 DEF d, EpKeep, SameView, SameElsewhere, SameQueued

LEMMA EpStopReadHere ==
  ASSUME EpollInv, NEW o \in IoOps, Epoll!MayStop(o), ~EarlyStop, op[o].cb = "set", op[o].kind # "timed",
         Epoll!Become([Epoll!schedule_remote(Epoll!Deregister(
                         Epoll!CallbackReturns(Epoll!StopBegins(Epoll!State, o, "flag"), o), o), Epoll!DoneOp(o)) EXCEPT
                         !.ctx.cancelPending = @ \cup {o}, !.ctx.eventfd = @ \/ Epoll!MustSignal])
  PROVE  EpollInv'
<1> DEFINE r == CallbackReturned(StopBegun(op[o], "flag"))
           g == [op EXCEPT ![o] = r]
           inactive == ctx.remoteQueue_ = EpInactive
           c == Unregistered(ctx, o)
           d == ToRemote(c, EpDoneOp(o))
           e == Flagged(d, o)
           z == Raised(e, ctx.eventfd \/ inactive)
<1>1. /\ op \in [IoOps -> Operation] /\ EpAt(o, op[o], ctx) /\ ctx \in EpollCtx /\ EpLists(ctx)
      /\ op[o].kind = "read" => ctx.execute_[o] = "on_read_complete"
  BY EpMayStop
<1>2. /\ op[o] \in Operation /\ op[o].stop = "no" /\ op[o].life = "started"
      /\ r \in Operation /\ r.stopped /\ r.cb = "ran" /\ r.stop = "no"
      /\ r.life = op[o].life /\ r.signals = op[o].signals /\ r.start = op[o].start
      /\ r.kind = op[o].kind /\ r.due = op[o].due
      /\ Epoll!CallbackReturns(Epoll!StopBegins(Epoll!State, o, "flag"), o) = St(g, ctx)
      /\ EpReads(op[o], ctx.execute_[o], o \in ctx.elapsed, o \in ctx.cancelPending, o \in ctx.registered,
                 InList(ctx.timers_, o), InBatch(ctx, EpOp(o)), Behind(ctx, EpOp(o)), EpQueued(ctx, EpDoneOp(o)))
  BY EpCallbackHere
<1> HIDE DEF r
<1>3. /\ EpKeep(ctx, c, o) /\ EpWake(ctx, c)
      /\ c.execute_ = ctx.execute_ /\ c.elapsed = ctx.elapsed /\ c.cancelPending = ctx.cancelPending
      /\ o \notin c.registered /\ SameQueued(ctx, c, o) /\ c.timers_ = ctx.timers_
      /\ c \in EpollCtx /\ EpLists(c)
  BY <1>1, UnregisteredFacts DEF EpKeep
<1>4. ~EpQueued(c, EpDoneOp(o))
  <2> HIDE DEF c
  <2> QED BY <1>2, <1>3 DEF EpReads, SameQueued
<1>5. Epoll!schedule_remote(Epoll!Deregister(St(g, ctx), o), Epoll!DoneOp(o)) = St(g, d)
  <2> HIDE DEF g
  <2>1. Epoll!Deregister(St(g, ctx), o) = St(g, c)
    BY <1>1, EpParts
  <2> HIDE DEF c
  <2> QED BY <1>3, <2>1, EpParts, EpSameItems
<1> HIDE DEF c
<1>6. /\ EpKeep(c, d, o)
      /\ d.stopper = c.stopper /\ d.eventfd = c.eventfd /\ d.remoteQueue_ # EpInactive
      /\ d.remoteQueueReadSubmitted_ = c.remoteQueueReadSubmitted_
      /\ d.execute_ = c.execute_ /\ SameElsewhere(c, d, o) /\ d.timers_ = c.timers_
      /\ InBatch(d, EpOp(o)) <=> InBatch(c, EpOp(o))
      /\ Behind(d, EpOp(o)) <=> Behind(c, EpOp(o))
      /\ EpQueued(d, EpDoneOp(o))
      /\ d \in EpollCtx /\ EpLists(d)
  BY <1>3, <1>4, RemoteKeeps DEF EpKeep
<1> HIDE DEF d
<1>7. /\ EpKeep(d, e, o) /\ EpWake(d, e)
      /\ e.execute_ = d.execute_ /\ e.elapsed = d.elapsed /\ e.cancelPending = d.cancelPending \cup {o}
      /\ e.registered = d.registered /\ SameQueued(d, e, o) /\ e.timers_ = d.timers_
      /\ e \in EpollCtx /\ EpLists(e)
  BY <1>6, FlaggedFacts DEF EpKeep
<1>8. (ctx.eventfd \/ inactive) \in BOOLEAN /\ e.eventfd = ctx.eventfd
  BY <1>1, <1>3, <1>6, <1>7 DEF EpollCtx, EpWake
<1>9. /\ EpKeep(e, z, o)
      /\ z.eventfd = (ctx.eventfd \/ inactive) /\ z.stopper = e.stopper /\ z.remoteQueue_ = e.remoteQueue_
      /\ z.remoteQueueReadSubmitted_ = e.remoteQueueReadSubmitted_
      /\ z.execute_ = e.execute_ /\ z.elapsed = e.elapsed /\ z.cancelPending = e.cancelPending
      /\ z.registered = e.registered /\ SameQueued(e, z, o) /\ z.timers_ = e.timers_
  <2> HIDE DEF e
  <2> QED BY <1>7, <1>8, RaisedFacts
<1>10. op' = g /\ ctx' = z
  <2>1. Epoll!MustSignal <=> inactive
    BY EpSameItems DEF Epoll!MustSignal
  <2>2. Epoll!Become([St(g, d) EXCEPT !.ctx.cancelPending = @ \cup {o}, !.ctx.eventfd = @ \/ Epoll!MustSignal])
    BY <1>2, <1>5
  <2>3. [St(g, d) EXCEPT !.ctx.cancelPending = @ \cup {o}, !.ctx.eventfd = @ \/ Epoll!MustSignal]
        = St(g, Raised(e, d.eventfd \/ Epoll!MustSignal))
    <3> HIDE DEF g
    <3> DEFINE s == St(g, d)
               s1 == [s EXCEPT !.ctx.cancelPending = s.ctx.cancelPending \cup {o}]
               w == d.eventfd \/ Epoll!MustSignal
    <3>1. s.ctx.eventfd = d.eventfd
      BY DEF St
    <3>2. [s EXCEPT !.ctx.cancelPending = @ \cup {o}, !.ctx.eventfd = @ \/ Epoll!MustSignal]
          = [s1 EXCEPT !.ctx.eventfd = s.ctx.eventfd \/ Epoll!MustSignal]
      OBVIOUS
    <3>3. [St(g, d) EXCEPT !.ctx.cancelPending = @ \cup {o}] = St(g, e)
      BY <1>6, EpFlags
    <3>5. s1 = St(g, e)
      BY <3>3
    <3> HIDE DEF s, s1, e, w
    <3>4. [s1 EXCEPT !.ctx.eventfd = w] = St(g, Raised(e, w))
      BY <3>5 DEF St, Raised
    <3> QED BY <3>1, <3>2, <3>4 DEF s, w
  <2>4. d.eventfd = ctx.eventfd
    BY <1>3, <1>6 DEF EpWake
  <2>5. (d.eventfd \/ Epoll!MustSignal) = (ctx.eventfd \/ inactive)
    BY <2>1, <2>4
  <2> HIDE DEF g, e
  <2>6. St(g, Raised(e, d.eventfd \/ Epoll!MustSignal)) = St(g, z)
    BY <2>5
  <2> QED BY <2>2, <2>3, <2>6, EpBecome
<1> HIDE DEF e, z
<1>11. EpKeep(ctx, z, o)
  BY <1>3, <1>6, <1>7, <1>9, EpKeepTrans
<1>12. EpStops(r, z.execute_[o], o \in z.elapsed, o \in z.cancelPending, o \in z.registered,
               InList(z.timers_, o), InBatch(z, EpOp(o)), Behind(z, EpOp(o)), EpQueued(z, EpDoneOp(o)))
  <2>1. CallbackOut(r)
    BY <1>2 DEF CallbackOut
  <2> QED BY <1>1, <1>2, <1>3, <1>6, <1>7, <1>9, <2>1 DEF EpReads, EpStops, SameElsewhere, SameQueued
<1>13. EpGood(r, o \in z.elapsed, z.now)
  <2>1. z.now = ctx.now /\ (o \in z.elapsed <=> o \in ctx.elapsed)
    BY <1>3, <1>6, <1>7, <1>9, <1>11 DEF EpKeep, SameElsewhere
  <2>2. EpGood(op[o], o \in ctx.elapsed, ctx.now)
    BY <1>1 DEF EpAt
  <2> QED BY <1>2, <2>1, <2>2 DEF EpGood, Signalled
<1>14. EpAt(o, r, z)
  BY <1>12, <1>13 DEF EpAt, EpPhase
<1>15. /\ z.stopper = ctx.stopper /\ z.remoteQueueReadSubmitted_ = ctx.remoteQueueReadSubmitted_
       /\ z.remoteQueue_ # EpInactive
  BY <1>3, <1>6, <1>7, <1>9 DEF EpWake
<1>16. CASE inactive
  <2>1. PICK token : WakeToken(op, ctx, token)
    BY DEF EpollInv, Wakes
  <2>2. token = <<>>
    BY <1>16, <2>1 DEF WakeToken
  <2>3. /\ \A p \in IoOps : op[p].start # "signal" /\ op[p].stop # "signal"
        /\ ctx.stopper # "signal" /\ ctx.remoteQueueReadSubmitted_
    BY <1>16, <2>1, <2>2 DEF WakeToken
  <2>4. \A p \in IoOps : g[p].start # "signal" /\ g[p].stop # "signal"
    BY <1>1, <1>2, <2>3
  <2> HIDE DEF g
  <2>5. WakeToken(g, z, <<"eventfd", "run">>)
    BY <1>9, <1>15, <1>16, <2>3, <2>4 DEF WakeToken
  <2>6. Wakes(op', ctx')
    BY <1>10, <2>5 DEF Wakes
  <2> QED BY <1>2, <1>10, <1>11, <1>14, <2>6, EpChanges DEF g
<1>17. CASE ~inactive
  <2>1. EpWake(ctx, z)
    BY <1>1, <1>9, <1>15, <1>17 DEF EpWake, EpollCtx
  <2> QED BY <1>2, <1>10, <1>11, <1>14, <2>1, EpMoves DEF g
<1> QED BY <1>16, <1>17

LEMMA EpRequestStopHere ==
  ASSUME EpollInv, NEW o \in IoOps, ~EarlyStop, Epoll!request_stop_here(o)
  PROVE  EpollInv'
<1>1. CASE op[o].cb # "set"
  BY <1>1, EpStopBegun DEF Epoll!request_stop_here
<1>2. CASE op[o].cb = "set" /\ op[o].kind = "timed"
  BY <1>2, EpStopTimerHere DEF Epoll!request_stop_here
<1>3. CASE op[o].cb = "set" /\ op[o].kind # "timed"
  BY Zenon, <1>3, EpStopReadHere DEF Epoll!request_stop_here
<1> QED BY <1>1, <1>2, <1>3

-----------------------------------------------------------------------------
\* What a loop over a list keeps of it.
KeptStep(list, passed, f, i) ==
  IF i = 0 THEN <<>> ELSE IF list[i] \in passed THEN f[i - 1] ELSE Append(f[i - 1], list[i])
KeptUpTo(list, passed, f, n) ==
  /\ f = [i \in 0 .. n |-> f[i]]
  /\ \A i \in 0 .. n : f[i] = KeptStep(list, passed, f, i)

LEMMA ExcludingStarts ==
  ASSUME NEW list, NEW passed
  PROVE  \E f : KeptUpTo(list, passed, f, 0)
<1> DEFINE f == [i \in 0 .. 0 |-> <<>>]
<1>1. KeptUpTo(list, passed, f, 0)
  BY DEF KeptUpTo, KeptStep
<1> QED BY <1>1

LEMMA ExcludingGoesOn ==
  ASSUME NEW list, NEW passed, NEW n \in Nat, NEW f, KeptUpTo(list, passed, f, n)
  PROVE  \E g : KeptUpTo(list, passed, g, n + 1)
<1> DEFINE g == [i \in 0 .. n + 1 |-> IF i \in 0 .. n THEN f[i] ELSE KeptStep(list, passed, f, i)]
<1>1. /\ \A i \in 0 .. n : g[i] = f[i]
      /\ g[n + 1] = KeptStep(list, passed, f, n + 1)
      /\ g = [i \in 0 .. n + 1 |-> g[i]]
  OBVIOUS
<1> HIDE DEF g
<1>2. ASSUME NEW i \in 0 .. n + 1
      PROVE  KeptStep(list, passed, g, i) = KeptStep(list, passed, f, i)
  <2>1. i # 0 => g[i - 1] = f[i - 1]
    <3>1. i # 0 => i - 1 \in 0 .. n
      OBVIOUS
    <3> QED BY <1>1, <3>1
  <2> QED BY <2>1 DEF KeptStep
<1>3. KeptStep(list, passed, g, n + 1) = KeptStep(list, passed, f, n + 1)
  BY <1>2
<1>4. ASSUME NEW i \in 0 .. n + 1
      PROVE  g[i] = KeptStep(list, passed, g, i)
  <2>1. CASE i \in 0 .. n
    BY <1>1, <1>2, <2>1 DEF KeptUpTo
  <2>2. CASE i = n + 1
    BY <1>1, <1>3, <2>2
  <2> QED BY <2>1, <2>2
<1> QED BY <1>1, <1>4 DEF KeptUpTo

LEMMA ExcludingExists ==
  ASSUME NEW list, NEW passed, NEW n \in Nat
  PROVE  \E f : KeptUpTo(list, passed, f, n)
<1> DEFINE S == {m \in Nat : ~\E f : KeptUpTo(list, passed, f, m)}
<1> SUFFICES ASSUME S # {} PROVE FALSE
  OBVIOUS
<1>1. PICK m \in S : \A k \in S : m <= k
  BY LeastExists
<1>2. m # 0
  BY <1>1, ExcludingStarts
<1>3. m - 1 \in Nat /\ m - 1 \notin S /\ m = (m - 1) + 1
  BY <1>1, <1>2
<1>4. PICK f : KeptUpTo(list, passed, f, m - 1)
  BY <1>3
<1> HIDE DEF S
<1>5. \E g : KeptUpTo(list, passed, g, (m - 1) + 1)
  BY <1>3, <1>4, ExcludingGoesOn
<1> QED BY <1>1, <1>3, <1>5 DEF S

LEMMA ExcludingUnfolds ==
  ASSUME NEW list, NEW passed, Len(list) \in Nat
  PROVE  \E f : KeptUpTo(list, passed, f, Len(list)) /\ Excluding(list, passed) = f[Len(list)]
<1> DEFINE n == Len(list)
           Is(f) == f = [i \in 0 .. n |-> IF i = 0 THEN <<>> ELSE IF list[i] \in passed THEN f[i - 1]
                                          ELSE Append(f[i - 1], list[i])]
           kept == CHOOSE f : Is(f)
<1>1. Excluding(list, passed) = kept[n]
  BY DEF Excluding
<1>2. PICK f : KeptUpTo(list, passed, f, n)
  BY ExcludingExists
<1>3. Is(f)
  BY <1>2 DEF KeptUpTo, KeptStep
<1>4. Is(kept)
  <2> HIDE DEF Is
  <2> QED BY <1>3
<1> HIDE DEF kept
<1>5. kept = [i \in 0 .. n |-> kept[i]]
  BY <1>4
<1>6. \A i \in 0 .. n : kept[i] = KeptStep(list, passed, kept, i)
  BY <1>4 DEF KeptStep
<1> QED BY <1>1, <1>5, <1>6 DEF KeptUpTo

LEMMA ExcludingFacts ==
  ASSUME NEW S, NEW list \in Seq(S), NEW passed, Once(list)
  PROVE  /\ Excluding(list, passed) \in Seq(S)
         /\ \A x \in S : InList(Excluding(list, passed), x) <=> x \notin passed /\ InList(list, x)
         /\ Once(Excluding(list, passed))
<1> DEFINE n == Len(list)
<1>1. n \in Nat /\ \A i \in 1 .. n : list[i] \in S
  OBVIOUS
<1>2. PICK f : KeptUpTo(list, passed, f, n) /\ Excluding(list, passed) = f[n]
  BY <1>1, ExcludingUnfolds
<1> DEFINE Good(m) == /\ f[m] \in Seq(S) /\ Once(f[m])
                      /\ \A x \in S : InList(f[m], x) <=> x \notin passed /\ \E j \in 1 .. m : list[j] = x
           Bad == {m \in 0 .. n : ~Good(m)}
<1>3. Good(0)
  <2>1. f[0] = <<>>
    BY <1>1, <1>2 DEF KeptUpTo, KeptStep
  <2>2. <<>> \in Seq(S) /\ Once(<<>>) /\ \A x : ~InList(<<>>, x)
    BY DEF Once, InList
  <2>3. ~\E j \in 1 .. 0 : TRUE
    OBVIOUS
  <2> QED BY <2>1, <2>2, <2>3
<1>4. ASSUME NEW m \in 1 .. n, Good(m - 1)
      PROVE  Good(m)
  <2>2. m \in 0 .. n /\ m # 0 /\ list[m] \in S
    BY <1>1
  <2>1. f[m] = IF list[m] \in passed THEN f[m - 1] ELSE Append(f[m - 1], list[m])
    <3>1. f[m] = KeptStep(list, passed, f, m)
      BY <1>2, <2>2 DEF KeptUpTo
    <3> QED BY <2>2, <3>1 DEF KeptStep
  <2>3. \A x : (\E j \in 1 .. m : list[j] = x) <=> x = list[m] \/ \E j \in 1 .. m - 1 : list[j] = x
    BY <1>1
  <2>4. CASE list[m] \in passed
    <3>1. f[m] = f[m - 1]
      BY <2>1, <2>4
    <3> QED BY <1>4, <2>3, <2>4, <3>1
  <2>5. CASE list[m] \notin passed
    <3>1. f[m] = Append(f[m - 1], list[m])
      BY <2>1, <2>5
    <3>2. ~\E j \in 1 .. m - 1 : list[j] = list[m]
      <4>1. \A i, j \in 1 .. n : list[i] = list[j] => i = j
        BY <1>1 DEF Once
      <4> QED BY <1>1, <4>1
    <3>3. ~InList(f[m - 1], list[m])
      BY <1>4, <2>2, <3>2
    <3>4. /\ Append(f[m - 1], list[m]) \in Seq(S)
          /\ \A p \in S : InList(Append(f[m - 1], list[m]), p) <=> p = list[m] \/ InList(f[m - 1], p)
          /\ Once(Append(f[m - 1], list[m]))
      BY <1>4, <2>2, <3>3, AppendFacts
    <3> QED BY <1>4, <2>3, <2>5, <3>1, <3>4
  <2> QED BY <2>4, <2>5
<1>5. Bad = {}
  <2> SUFFICES ASSUME Bad # {} PROVE FALSE
    OBVIOUS
  <2>1. Bad \subseteq Nat
    BY <1>1
  <2>2. PICK m \in Bad : \A k \in Bad : m <= k
    <3> HIDE DEF Bad
    <3> QED BY <2>1, LeastExists
  <2>3. m \in 0 .. n /\ ~Good(m)
    OBVIOUS
  <2>4. m # 0
    <3> HIDE DEF Good, Bad
    <3> QED BY <1>3, <2>3
  <2>5. m - 1 \in 0 .. n /\ m \in 1 .. n /\ m - 1 \notin Bad
    <3>1. m - 1 \in 0 .. n /\ m \in 1 .. n /\ ~(m <= m - 1)
      BY <1>1, <2>3, <2>4
    <3> HIDE DEF Bad
    <3> QED BY <2>2, <3>1
  <2>6. Good(m - 1)
    <3> HIDE DEF Good
    <3> QED BY <2>5
  <2> HIDE DEF Good, Bad
  <2> QED BY <1>4, <2>3, <2>5, <2>6
<1>6. Good(n)
  <2> HIDE DEF Good
  <2> QED BY <1>1, <1>5
<1>7. \A x : InList(list, x) <=> \E j \in 1 .. n : list[j] = x
  BY <1>1 DEF InList
<1> QED BY <1>2, <1>6, <1>7

\* The timers that have elapsed are at the front.
LEMMA SplitFacts ==
  ASSUME NEW S, NEW q \in Seq(S), Once(q), NEW k \in 1 .. Len(q) + 1
  PROVE  LET a == SubSeq(q, 1, k - 1)
             b == SubSeq(q, k, Len(q)) IN
         /\ a \in Seq(S) /\ b \in Seq(S) /\ Once(a) /\ Once(b)
         /\ \A x : InList(q, x) <=> InList(a, x) \/ InList(b, x)
         /\ \A x : ~(InList(a, x) /\ InList(b, x))
         /\ \A x : InList(a, x) => \E i \in 1 .. k - 1 : q[i] = x
<1> DEFINE n == Len(q)
           a == SubSeq(q, 1, k - 1)
           b == SubSeq(q, k, n)
<1>1. n \in Nat /\ k \in Int /\ 1 <= k /\ k <= n + 1 /\ \A i \in 1 .. n : q[i] \in S
  OBVIOUS
<1>2. /\ \A i, j \in 1 .. n : q[i] = q[j] => i = j
      /\ \A x : InList(q, x) <=> \E i \in 1 .. n : q[i] = x
  BY <1>1 DEF Once, InList
<1>3. a \in Seq(S) /\ Len(a) = k - 1 /\ \A i \in 1 .. k - 1 : a[i] = q[i]
  <2>1. \A i \in 1 .. k - 1 : i \in 1 .. n
    BY <1>1
  <2> QED BY <1>1, <2>1
<1>4. b \in Seq(S) /\ Len(b) = n - k + 1 /\ \A i \in 1 .. n - k + 1 : b[i] = q[i + k - 1]
  <2>1. \A i \in k .. n : i \in 1 .. n
    BY <1>1
  <2> QED BY <1>1, <2>1
<1> HIDE DEF a, b, n
<1>5. DOMAIN a = 1 .. k - 1 /\ DOMAIN b = 1 .. n - k + 1
  BY <1>1, <1>3, <1>4
<1>6. \A x : InList(a, x) <=> \E i \in 1 .. k - 1 : q[i] = x
  BY <1>3, <1>5 DEF InList
<1>7. \A x : InList(b, x) <=> \E i \in k .. n : q[i] = x
  <2>1. ASSUME NEW x, InList(b, x)
        PROVE  \E i \in k .. n : q[i] = x
    <3>1. PICK i \in 1 .. n - k + 1 : b[i] = x
      BY <1>5, <2>1 DEF InList
    <3>2. i + k - 1 \in k .. n /\ q[i + k - 1] = x
      BY <1>1, <1>4, <3>1
    <3> QED BY <3>2
  <2>2. ASSUME NEW x, NEW i \in k .. n, q[i] = x
        PROVE  InList(b, x)
    <3>1. i - k + 1 \in 1 .. n - k + 1 /\ (i - k + 1) + k - 1 = i
      BY <1>1
    <3>2. b[i - k + 1] = x
      BY <1>4, <2>2, <3>1
    <3> QED BY <1>5, <3>1, <3>2 DEF InList
  <2> QED BY <2>1, <2>2
<1>8. \A i \in 1 .. n : (i \in 1 .. k - 1 \/ i \in k .. n) /\ ~(i \in 1 .. k - 1 /\ i \in k .. n)
  BY <1>1
<1>9. (\A i \in 1 .. k - 1 : i \in 1 .. n) /\ (\A i \in k .. n : i \in 1 .. n)
  BY <1>1
<1>10. \A x : InList(q, x) <=> InList(a, x) \/ InList(b, x)
  BY <1>2, <1>6, <1>7, <1>8, <1>9
<1>11. \A x : ~(InList(a, x) /\ InList(b, x))
  BY <1>2, <1>6, <1>7, <1>8, <1>9
<1>12. Once(a)
  BY <1>2, <1>3, <1>5, <1>9 DEF Once
<1>13. Once(b)
  <2> SUFFICES ASSUME NEW i \in 1 .. n - k + 1, NEW j \in 1 .. n - k + 1, b[i] = b[j]
               PROVE  i = j
    BY <1>5 DEF Once
  <2>1. q[i + k - 1] = q[j + k - 1] /\ i + k - 1 \in 1 .. n /\ j + k - 1 \in 1 .. n
    BY <1>1, <1>4
  <2>2. i + k - 1 = j + k - 1
    BY <1>2, <2>1
  <2> QED BY <1>1, <2>2
<1> QED BY <1>3, <1>4, <1>6, <1>10, <1>11, <1>12, <1>13 DEF a, b, n

LEMMA ElapsedFacts ==
  ASSUME NEW f, NEW S, NEW q \in Seq(S), NEW now
  PROVE  \A i \in 1 .. FirstLater(f, q, now) - 1 : i \in DOMAIN q /\ ~(f[q[i]].due > now)
<1> DEFINE later == {i \in DOMAIN q : f[q[i]].due > now}
<1>0. Len(q) \in Nat /\ DOMAIN q = 1 .. Len(q)
  OBVIOUS
<1>1. CASE later = {}
  <2>1. FirstLater(f, q, now) = Len(q) + 1
    BY <1>1 DEF FirstLater
  <2>2. \A i \in 1 .. (Len(q) + 1) - 1 : i \in DOMAIN q
    BY <1>0
  <2> QED BY <1>1, <2>1, <2>2
<1>2. CASE later # {}
  <2>1. later \subseteq Nat
    BY <1>0
  <2> DEFINE least == CHOOSE i \in later : \A j \in later : i <= j
  <2>2. FirstLater(f, q, now) = least
    BY <1>2 DEF FirstLater
  <2>3. least \in later /\ \A j \in later : least <= j
    <3>1. \E i \in later : \A j \in later : i <= j
      <4> HIDE DEF later
      <4> QED BY <1>2, <2>1, LeastExists
    <3> HIDE DEF later
    <3> QED BY <3>1
  <2>4. least \in 1 .. Len(q)
    BY <1>0, <2>3
  <2> HIDE DEF least
  <2>5. \A i \in 1 .. least - 1 : i \in DOMAIN q /\ ~(least <= i)
    BY <1>0, <2>4
  <2>6. \A i \in 1 .. least - 1 : i \notin later
    <3> HIDE DEF later
    <3> QED BY <2>3, <2>5
  <2> QED BY <2>2, <2>5, <2>6
<1> QED BY <1>1, <1>2

\* The items of a list of operations.
AsItems(q) == [i \in DOMAIN q |-> EpOp(q[i])]
LEMMA AsItemsFacts ==
  ASSUME NEW q \in Seq(IoOps), Once(q)
  PROVE  /\ AsItems(q) \in Seq(EpItems) /\ Once(AsItems(q))
         /\ \A item : InList(AsItems(q), item) <=> \E o \in IoOps : item = EpOp(o) /\ InList(q, o)
<1>1. Len(q) \in Nat /\ DOMAIN q = 1 .. Len(q) /\ \A i \in DOMAIN q : q[i] \in IoOps
  OBVIOUS
<1>2. /\ \A i \in DOMAIN q : AsItems(q)[i] = EpOp(q[i]) /\ EpOp(q[i]) \in EpItems
      /\ DOMAIN AsItems(q) = DOMAIN q
  BY <1>1, EpItemFacts DEF AsItems
<1>3. AsItems(q) \in Seq(EpItems)
  <2>1. AsItems(q) \in [1 .. Len(q) -> EpItems]
    BY <1>1, <1>2 DEF AsItems
  <2> QED BY <1>1, <2>1
<1>4. Once(AsItems(q))
  BY <1>1, <1>2, EpItemFacts DEF Once
<1>5. \A item : InList(AsItems(q), item) <=> \E o \in IoOps : item = EpOp(o) /\ InList(q, o)
  BY <1>1, <1>2 DEF InList
<1> QED BY <1>3, <1>4, <1>5

-----------------------------------------------------------------------------
\* The I/O thread goes through states in which no other thread acts.
EpHolds(f, c) ==
  /\ f \in [IoOps -> Operation] /\ c \in EpollCtx
  /\ EpLists(c)
  /\ Wakes(f, c)
  /\ \A o \in IoOps : EpAt(o, f[o], c)

LEMMA EpHoldsBesides ==
  ASSUME NEW f, NEW c, EpHolds(f, c), NEW d \in EpollCtx, EpBesides(c, d), Wakes(f, d), d.now = c.now,
         d.stopper = "no" => c.stopper = "no", d.pc \in {"waiting", "returned"} => d.batch = <<>>
  PROVE  EpHolds(f, d)
<1>1. c \in EpollCtx /\ EpLists(c) /\ f \in [IoOps -> Operation] /\ \A o \in IoOps : EpAt(o, f[o], c)
  BY DEF EpHolds
<1>2. /\ \A i : InBatch(d, i) <=> InBatch(c, i)
      /\ \A i : Behind(d, i) <=> Behind(c, i)
      /\ \A i : EpQueued(d, i) <=> EpQueued(c, i)
  BY DEF EpBesides, InBatch, Behind, EpQueued
<1>3. EpLists(d)
  BY <1>1, <1>2 DEF EpBesides, EpLists
<1>4. \A o : SameView(c, d, o)
  BY <1>2 DEF EpBesides, SameView, SameElsewhere, SameQueued
<1>5. \A o \in IoOps : EpAt(o, f[o], d)
  BY <1>1, <1>4, EpViewKept
<1> QED BY <1>1, <1>3, <1>5 DEF EpHolds

\* A timer that has elapsed: its item is queued unless a stop request is
\* about to queue it or has.
LEMMA EpTimerWaits ==
  ASSUME NEW r, NEW c, NEW o, EpAt(o, r, c), InList(c.timers_, o)
  PROVE  /\ r.kind = "timed"
         /\ o \notin c.cancelPending => ~InBatch(c, EpOp(o)) /\ ~Behind(c, EpOp(o))
BY DEF EpAt, EpPhase, EpIdle, EpStarts, EpTimer, EpLeaves, EpReads, EpStops, EpOver

LEMMA EpTimerElapses ==
  ASSUME NEW r, NEW c, NEW d, NEW o, EpAt(o, r, c), InList(c.timers_, o), r.due <= d.now,
         d.execute_ = c.execute_, o \in d.elapsed, d.cancelPending = c.cancelPending, d.registered = c.registered,
         ~InList(d.timers_, o), InBatch(d, EpOp(o)) <=> InBatch(c, EpOp(o)),
         Behind(d, EpOp(o)) <=> Behind(c, EpOp(o)) \/ o \notin c.cancelPending,
         EpQueued(d, EpDoneOp(o)) <=> EpQueued(c, EpDoneOp(o))
  PROVE  EpAt(o, r, d)
<1>1. EpGood(r, o \in d.elapsed, d.now)
  BY DEF EpAt, EpGood
<1>2. CASE EpTimer(r, c.execute_[o], o \in c.elapsed, o \in c.cancelPending, o \in c.registered,
                   InList(c.timers_, o), InBatch(c, EpOp(o)), Behind(c, EpOp(o)), EpQueued(c, EpDoneOp(o)))
  <2>1. EpTimer(r, d.execute_[o], o \in d.elapsed, o \in d.cancelPending, o \in d.registered,
                InList(d.timers_, o), InBatch(d, EpOp(o)), Behind(d, EpOp(o)), EpQueued(d, EpDoneOp(o)))
    BY <1>2 DEF EpTimer
  <2> QED BY <1>1, <2>1 DEF EpAt, EpPhase
<1>3. CASE EpLeaves(r, c.execute_[o], o \in c.elapsed, o \in c.cancelPending, o \in c.registered,
                    InList(c.timers_, o), InBatch(c, EpOp(o)), Behind(c, EpOp(o)), EpQueued(c, EpDoneOp(o)))
  <2>1. EpLeaves(r, d.execute_[o], o \in d.elapsed, o \in d.cancelPending, o \in d.registered,
                 InList(d.timers_, o), InBatch(d, EpOp(o)), Behind(d, EpOp(o)), EpQueued(d, EpDoneOp(o)))
    BY <1>3 DEF EpLeaves
  <2> QED BY <1>1, <2>1 DEF EpAt, EpPhase
<1> QED BY <1>2, <1>3 DEF EpAt, EpPhase, EpIdle, EpStarts, EpReads, EpStops, EpOver

\* update_timers(): the timers that have elapsed are taken.
Elapsing(f, c) == SubSeq(c.timers_, 1, FirstLater(f, c.timers_, c.now) - 1)
Staying(f, c) == SubSeq(c.timers_, FirstLater(f, c.timers_, c.now), Len(c.timers_))
Expired(f, c) == AsItems(Excluding(Elapsing(f, c), c.cancelPending))
Reaped(f, c) ==
  [c EXCEPT !.timers_ = Staying(f, c), !.elapsed = c.elapsed \cup Items(Elapsing(f, c)),
            !.localQueue_ = c.localQueue_ \o Expired(f, c)]

LEMMA ElapsingFacts ==
  ASSUME NEW f \in [IoOps -> Operation], NEW c \in EpollCtx, EpLists(c)
  PROVE  LET a == Elapsing(f, c)
             b == Staying(f, c) IN
         /\ a \in Seq(IoOps) /\ b \in Seq(IoOps) /\ Once(a) /\ Once(b)
         /\ \A o : InList(c.timers_, o) <=> InList(a, o) \/ InList(b, o)
         /\ \A o : ~(InList(a, o) /\ InList(b, o))
         /\ \A o : InList(a, o) => o \in IoOps /\ f[o].due <= c.now
         /\ Expired(f, c) \in Seq(EpItems) /\ Once(Expired(f, c))
         /\ \A o \in IoOps : InList(Expired(f, c), EpOp(o)) <=> o \notin c.cancelPending /\ InList(a, o)
         /\ \A item : InList(Expired(f, c), item) => \E o \in IoOps : item = EpOp(o) /\ InList(Expired(f, c), EpOp(o))
<1> DEFINE a == Elapsing(f, c)
           b == Staying(f, c)
           t == c.timers_
           k == FirstLater(f, t, c.now)
<1>1. t \in Seq(IoOps) /\ Once(t) /\ c.now \in Int
  BY DEF EpollCtx, EpLists
<1>2. k \in 1 .. Len(t) + 1
  BY <1>1, FirstLaterPlace
<1>3. \A i \in 1 .. k - 1 : i \in DOMAIN t /\ ~(f[t[i]].due > c.now)
  BY <1>1, ElapsedFacts
<1> HIDE DEF k, t
<1>4. a = SubSeq(t, 1, k - 1) /\ b = SubSeq(t, k, Len(t))
  BY DEF Elapsing, Staying, k, t
<1>5. /\ a \in Seq(IoOps) /\ b \in Seq(IoOps) /\ Once(a) /\ Once(b)
      /\ \A x : InList(t, x) <=> InList(a, x) \/ InList(b, x)
      /\ \A x : ~(InList(a, x) /\ InList(b, x))
      /\ \A x : InList(a, x) => \E i \in 1 .. k - 1 : t[i] = x
  <2> HIDE DEF a, b
  <2> QED BY <1>1, <1>2, <1>4, SplitFacts
<1> HIDE DEF a, b
<1>6. ASSUME NEW o, InList(a, o)
      PROVE  o \in IoOps /\ f[o].due <= c.now
  <2>1. PICK i \in 1 .. k - 1 : t[i] = o
    BY <1>5, <1>6
  <2>2. i \in DOMAIN t /\ ~(f[o].due > c.now)
    BY <1>3, <2>1
  <2>3. o \in IoOps
    BY <1>1, <2>1, <2>2
  <2>4. f[o].due \in Int
    BY <2>3 DEF Operation
  <2> QED BY <1>1, <2>2, <2>3, <2>4
<1> DEFINE q == Excluding(a, c.cancelPending)
<1>7. /\ q \in Seq(IoOps) /\ Once(q)
      /\ \A x \in IoOps : InList(q, x) <=> x \notin c.cancelPending /\ InList(a, x)
  BY <1>5, ExcludingFacts
<1> HIDE DEF q
<1>8. Expired(f, c) = AsItems(q)
  BY DEF Expired, q, a
<1>9. /\ Expired(f, c) \in Seq(EpItems) /\ Once(Expired(f, c))
      /\ \A item : InList(Expired(f, c), item) <=> \E o \in IoOps : item = EpOp(o) /\ InList(q, o)
  BY <1>7, <1>8, AsItemsFacts
<1>10. ASSUME NEW o \in IoOps
       PROVE  InList(Expired(f, c), EpOp(o)) <=> o \notin c.cancelPending /\ InList(a, o)
  <2>1. \A p \in IoOps : EpOp(o) = EpOp(p) => o = p
    BY EpItemFacts
  <2> QED BY <1>7, <1>9, <2>1
<1>11. \A item : InList(Expired(f, c), item) => \E o \in IoOps : item = EpOp(o) /\ InList(Expired(f, c), EpOp(o))
  BY <1>9
<1> QED BY <1>5, <1>6, <1>9, <1>10, <1>11 DEF t, a, b

LEMMA EpReaps ==
  ASSUME NEW f, NEW c, EpHolds(f, c)
  PROVE  LET d == Reaped(f, c) IN
         /\ EpHolds(f, d)
         /\ d.batch = c.batch /\ d.pc = c.pc /\ d.stopper = c.stopper /\ d.eventfd = c.eventfd /\ d.now = c.now
         /\ d.remoteQueue_ = c.remoteQueue_ /\ d.remoteQueueReadSubmitted_ = c.remoteQueueReadSubmitted_
<1> DEFINE d == Reaped(f, c)
           a == Elapsing(f, c)
           b == Staying(f, c)
           items == Expired(f, c)
<1>1. /\ f \in [IoOps -> Operation] /\ c \in EpollCtx /\ EpLists(c) /\ Wakes(f, c)
      /\ \A o \in IoOps : EpAt(o, f[o], c)
  BY DEF EpHolds
<1>2. /\ a \in Seq(IoOps) /\ b \in Seq(IoOps) /\ Once(a) /\ Once(b)
      /\ \A o : InList(c.timers_, o) <=> InList(a, o) \/ InList(b, o)
      /\ \A o : ~(InList(a, o) /\ InList(b, o))
      /\ \A o : InList(a, o) => o \in IoOps /\ f[o].due <= c.now
      /\ items \in Seq(EpItems) /\ Once(items)
      /\ \A o \in IoOps : InList(items, EpOp(o)) <=> o \notin c.cancelPending /\ InList(a, o)
      /\ \A item : InList(items, item) => \E o \in IoOps : item = EpOp(o) /\ InList(items, EpOp(o))
  BY <1>1, ElapsingFacts
<1>3. d = [c EXCEPT !.timers_ = b, !.elapsed = c.elapsed \cup Items(a), !.localQueue_ = c.localQueue_ \o items]
  BY DEF Reaped
<1> HIDE DEF d, a, b, items
<1>4. \A o : o \in Items(a) <=> InList(a, o)
  BY DEF Items, InList
<1>5. ASSUME NEW o \in IoOps, InList(a, o)
      PROVE  o \notin c.cancelPending => ~InBatch(c, EpOp(o)) /\ ~Behind(c, EpOp(o))
  <2>1. EpAt(o, f[o], c) /\ InList(c.timers_, o)
    BY <1>1, <1>2, <1>5
  <2> QED BY <2>1, EpTimerWaits
<1>6. c.localQueue_ \in Seq(EpItems) /\ Once(c.localQueue_)
  BY <1>1 DEF EpollCtx, EpLists
<1>7. ASSUME NEW item \in EpItems, InList(items, item)
      PROVE  ~InBatch(c, item) /\ ~Behind(c, item) /\ item # EpStopOp
  <2>1. PICK o \in IoOps : item = EpOp(o) /\ InList(items, EpOp(o))
    BY <1>2, <1>7
  <2>2. o \notin c.cancelPending /\ InList(a, o)
    BY <1>2, <2>1
  <2> QED BY <1>5, <2>1, <2>2, EpItemFacts
<1>8. /\ c.localQueue_ \o items \in Seq(EpItems) /\ Once(c.localQueue_ \o items)
      /\ \A item \in EpItems : InList(c.localQueue_ \o items, item) <=> InList(c.localQueue_, item) \/ InList(items, item)
  <2>1. \A item \in EpItems : ~(InList(c.localQueue_, item) /\ InList(items, item))
    BY <1>7 DEF Behind
  <2> QED BY <1>2, <1>6, <2>1, ConcatFacts
<1>9. /\ d \in EpollCtx
      /\ d.timers_ = b /\ d.elapsed = c.elapsed \cup Items(a) /\ d.localQueue_ = c.localQueue_ \o items
      /\ d.batch = c.batch /\ d.pc = c.pc /\ d.stopper = c.stopper /\ d.eventfd = c.eventfd /\ d.now = c.now
      /\ d.remoteQueue_ = c.remoteQueue_ /\ d.remoteQueueReadSubmitted_ = c.remoteQueueReadSubmitted_
      /\ d.execute_ = c.execute_ /\ d.cancelPending = c.cancelPending /\ d.registered = c.registered
  <2>1. c.elapsed \cup Items(a) \in SUBSET IoOps
    BY <1>1, <1>2, <1>4 DEF EpollCtx
  <2> DEFINE l == c.localQueue_ \o items
             m == c.elapsed \cup Items(a)
  <2>2. d = [c EXCEPT !.timers_ = b, !.elapsed = m, !.localQueue_ = l] /\ l \in Seq(EpItems) /\ m \in SUBSET IoOps
    BY <1>3, <1>8, <2>1
  <2> HIDE DEF l, m
  <2>3. /\ d \in EpollCtx
        /\ d.timers_ = b /\ d.elapsed = m /\ d.localQueue_ = l
        /\ d.batch = c.batch /\ d.pc = c.pc /\ d.stopper = c.stopper /\ d.eventfd = c.eventfd /\ d.now = c.now
        /\ d.remoteQueue_ = c.remoteQueue_ /\ d.remoteQueueReadSubmitted_ = c.remoteQueueReadSubmitted_
        /\ d.execute_ = c.execute_ /\ d.cancelPending = c.cancelPending /\ d.registered = c.registered
    BY <1>1, <1>2, <2>2 DEF EpollCtx
  <2> QED BY <2>3 DEF l, m
<1>10. /\ \A i \in EpItems : InBatch(d, i) <=> InBatch(c, i)
       /\ \A i \in EpItems : Behind(d, i) <=> Behind(c, i) \/ InList(items, i)
  BY <1>8, <1>9 DEF InBatch, Behind
<1>11. EpLists(d)
  <2>1. Once(d.batch) /\ Once(d.localQueue_) /\ Once(Pending(d.remoteQueue_)) /\ Once(d.timers_)
    BY <1>1, <1>2, <1>8, <1>9 DEF EpLists
  <2>2. ASSUME NEW i \in EpItems
        PROVE  ~(InBatch(d, i) /\ Behind(d, i)) /\ ~(InList(d.localQueue_, i) /\ InList(Pending(d.remoteQueue_), i))
    <3>1. ~(InBatch(c, i) /\ Behind(c, i)) /\ ~(InList(c.localQueue_, i) /\ InList(Pending(c.remoteQueue_), i))
      BY <1>1 DEF EpLists
    <3>2. InList(items, i) => ~InList(Pending(c.remoteQueue_), i)
      BY <1>7 DEF Behind
    <3> QED BY <1>7, <1>8, <1>9, <1>10, <3>1, <3>2
  <2>3. d.stopper = "no" => ~EpQueued(d, EpStopOp)
    <3>1. EpStopOp \in EpItems /\ ~InList(items, EpStopOp)
      BY <1>7, EpItemFacts
    <3> QED BY <1>1, <1>9, <1>10, <3>1 DEF EpLists, EpQueued
  <2>4. d.pc \in {"waiting", "returned"} => d.batch = <<>>
    BY <1>1, <1>9 DEF EpLists
  <2> QED BY <2>1, <2>2, <2>3, <2>4 DEF EpLists
<1>12. Wakes(f, d)
  BY <1>1, <1>9 DEF Wakes, WakeToken
<1>13. ASSUME NEW o \in IoOps
       PROVE  EpAt(o, f[o], d)
  <2>1. EpOp(o) \in EpItems /\ EpDoneOp(o) \in EpItems /\ ~InList(items, EpDoneOp(o))
    BY <1>2, EpItemFacts
  <2>2. /\ InBatch(d, EpOp(o)) <=> InBatch(c, EpOp(o))
        /\ Behind(d, EpOp(o)) <=> Behind(c, EpOp(o)) \/ (o \notin c.cancelPending /\ InList(a, o))
        /\ EpQueued(d, EpDoneOp(o)) <=> EpQueued(c, EpDoneOp(o))
    BY <1>2, <1>10, <2>1 DEF EpQueued
  <2>3. CASE ~InList(a, o)
    <3>1. o \in d.elapsed <=> o \in c.elapsed
      BY <1>4, <1>9, <2>3
    <3>2. InList(d.timers_, o) <=> InList(c.timers_, o)
      BY <1>2, <1>9, <2>3
    <3>3. SameView(c, d, o)
      BY <1>9, <2>2, <2>3, <3>1, <3>2 DEF SameView, SameElsewhere, SameQueued
    <3> QED BY <1>1, <1>9, <3>3, EpViewKept
  <2>4. CASE InList(a, o)
    <3>1. /\ EpAt(o, f[o], c) /\ InList(c.timers_, o) /\ f[o].due <= d.now
          /\ o \in d.elapsed /\ ~InList(d.timers_, o)
          /\ Behind(d, EpOp(o)) <=> Behind(c, EpOp(o)) \/ o \notin c.cancelPending
      BY <1>1, <1>2, <1>4, <1>9, <2>2, <2>4
    <3> QED BY <1>9, <2>2, <3>1, EpTimerElapses
  <2> QED BY <2>3, <2>4
<1> QED BY <1>1, <1>9, <1>11, <1>12, <1>13 DEF EpHolds, d

\* The state between two steps of update_timers() and of run_impl().
EpBetween(f, c, d) ==
  /\ EpHolds(f, d)
  /\ d.batch = c.batch /\ d.pc = c.pc /\ d.stopper = c.stopper /\ d.eventfd = c.eventfd /\ d.now = c.now
  /\ d.remoteQueue_ = c.remoteQueue_ /\ d.remoteQueueReadSubmitted_ = c.remoteQueueReadSubmitted_

LEMMA EpSameLoops ==
  /\ \A list, passed : Epoll!Excluding(list, passed) = Excluding(list, passed)
  /\ \A list : Epoll!Items(list) = Items(list)
<1>1. \A list, passed : Epoll!Excluding(list, passed) = Excluding(list, passed)
  BY DEF Epoll!Excluding, Excluding
<1>2. \A list : Epoll!Items(list) = Items(list)
  BY DEF Epoll!Items, Items
<1> QED BY <1>1, <1>2

LEMMA EpReapTimers ==
  ASSUME NEW f, NEW c \in EpollCtx
  PROVE  Epoll!ReapTimers(St(f, c)) = St(f, Reaped(f, c))
<1> DEFINE s == St(f, c)
           q == Excluding(Elapsing(f, c), c.cancelPending)
           items == [i \in DOMAIN q |-> Epoll!Op(q[i])]
           r == [s EXCEPT !.ctx.timers_ = SubSeq(@, FirstLater(f, c.timers_, c.now), Len(@)),
                          !.ctx.elapsed = @ \cup Items(Elapsing(f, c)),
                          !.ctx.localQueue_ = @ \o items]
<1>1. s.op = f /\ s.ctx = c
  BY DEF St
<1>2. Epoll!ReapTimers(s) = r
  BY <1>1, EpSameLists, EpSameLoops DEF Epoll!ReapTimers, Elapsing
<1>3. items = Expired(f, c)
  BY EpSameItems DEF Expired, AsItems
<1> HIDE DEF q, items
<1>4. r = [s EXCEPT !.ctx = Reaped(f, c)]
  <2> DEFINE a == Elapsing(f, c)
             s1 == [s EXCEPT !.ctx.timers_ = Staying(f, c)]
             s2 == [s1 EXCEPT !.ctx.elapsed = c.elapsed \cup Items(a)]
             s3 == [s2 EXCEPT !.ctx.localQueue_ = c.localQueue_ \o items]
             c1 == [c EXCEPT !.timers_ = Staying(f, c)]
             c2 == [c1 EXCEPT !.elapsed = c.elapsed \cup Items(a)]
             c3 == [c2 EXCEPT !.localQueue_ = c.localQueue_ \o items]
  <2>1. r = s3
    BY <1>1 DEF Staying
  <2>2. s1 = St(f, c1)
    BY DEF St
  <2>3. \A x, e : [St(f, x) EXCEPT !.ctx.elapsed = e] = St(f, [x EXCEPT !.elapsed = e])
    BY DEF St
  <2>4. \A x, e : [St(f, x) EXCEPT !.ctx.localQueue_ = e] = St(f, [x EXCEPT !.localQueue_ = e])
    BY DEF St
  <2>5. Reaped(f, c) = c3
    BY <1>3 DEF Reaped
  <2>6. [s EXCEPT !.ctx = Reaped(f, c)] = St(f, Reaped(f, c))
    BY DEF St
  <2> HIDE DEF r, s, s1, c1
  <2>7. s2 = St(f, c2)
    BY <2>2, <2>3
  <2> HIDE DEF s2, c2
  <2>8. s3 = St(f, c3)
    BY <2>4, <2>7
  <2> HIDE DEF s3, c3
  <2> QED BY <2>1, <2>5, <2>6, <2>8
<1>5. [s EXCEPT !.ctx = Reaped(f, c)] = St(f, Reaped(f, c))
  BY DEF St
<1> QED BY <1>2, <1>4, <1>5

\* The timerfd.
Armed(c, due, dirty) == [c EXCEPT !.currentDueTime_ = due, !.timersAreDirty_ = dirty]
LEMMA ArmedFacts ==
  ASSUME NEW f, NEW c, EpHolds(f, c), NEW due \in Seq(Int), NEW dirty \in BOOLEAN
  PROVE  EpBetween(f, c, Armed(c, due, dirty))
<1> DEFINE d == Armed(c, due, dirty)
<1>1. c \in EpollCtx /\ EpLists(c) /\ Wakes(f, c)
  BY DEF EpHolds
<1>2. /\ d \in EpollCtx /\ EpBesides(c, d)
      /\ d.batch = c.batch /\ d.pc = c.pc /\ d.stopper = c.stopper /\ d.eventfd = c.eventfd /\ d.now = c.now
      /\ d.remoteQueue_ = c.remoteQueue_ /\ d.remoteQueueReadSubmitted_ = c.remoteQueueReadSubmitted_
  BY <1>1 DEF Armed, EpollCtx, EpBesides
<1> HIDE DEF d
<1>3. Wakes(f, d)
  BY <1>1, <1>2 DEF Wakes, WakeToken
<1>4. d.pc \in {"waiting", "returned"} => d.batch = <<>>
  BY <1>1, <1>2 DEF EpLists
<1>5. EpHolds(f, d)
  BY <1>2, <1>3, <1>4, EpHoldsBesides
<1> QED BY <1>2, <1>5 DEF EpBetween, d

Arming(s, v, w) == [s EXCEPT !.ctx.currentDueTime_ = v, !.ctx.timersAreDirty_ = w]
LEMMA EpArmed ==
  ASSUME NEW f, NEW c, NEW v, NEW w
  PROVE  Arming(St(f, c), v, w) = St(f, Armed(c, v, w))
<1> DEFINE s == St(f, c)
           c1 == [c EXCEPT !.currentDueTime_ = v]
           s1 == [s EXCEPT !.ctx.currentDueTime_ = v]
<1>1. s1 = St(f, c1)
  BY DEF St
<1>2. Arming(s, v, w) = [s1 EXCEPT !.ctx.timersAreDirty_ = w]
  BY DEF Arming
<1>3. Armed(c, v, w) = [c1 EXCEPT !.timersAreDirty_ = w]
  BY DEF Armed
<1> HIDE DEF s, s1, c1
<1>4. [s1 EXCEPT !.ctx.timersAreDirty_ = w] = St(f, [c1 EXCEPT !.timersAreDirty_ = w])
  BY <1>1 DEF St
<1> QED BY <1>2, <1>3, <1>4 DEF s

LEMMA EpArms ==
  ASSUME NEW f, NEW c, EpHolds(f, c)
  PROVE  \E d : Epoll!ArmTimer(St(f, c)) = St(f, d) /\ EpBetween(f, c, d)
<1> DEFINE s == St(f, c)
           due == f[Head(c.timers_)].due
           sooner == c.currentDueTime_ = <<>> \/ due < c.currentDueTime_[1]
           v == IF sooner THEN <<due>> ELSE c.currentDueTime_
<1>0. c \in EpollCtx /\ f \in [IoOps -> Operation] /\ c.currentDueTime_ \in Seq(Int) /\ c.timers_ \in Seq(IoOps)
  BY DEF EpHolds, EpollCtx
<1>1. s.op = f /\ s.ctx = c
  BY DEF St
<1>2. CASE c.timers_ = <<>> /\ c.currentDueTime_ = <<>>
  <2>1. Epoll!ArmTimer(s) = St(f, c)
    BY <1>1, <1>2 DEF Epoll!ArmTimer
  <2> QED BY <2>1 DEF EpBetween
<1>3. CASE c.timers_ = <<>> /\ c.currentDueTime_ # <<>>
  <2> DEFINE u == <<>>
             w == FALSE
  <2>1. Epoll!ArmTimer(s) = Arming(s, u, w)
    BY <1>1, <1>3 DEF Epoll!ArmTimer, Arming
  <2>2. u \in Seq(Int) /\ w \in BOOLEAN
    OBVIOUS
  <2> HIDE DEF u, w
  <2>3. Arming(s, u, w) = St(f, Armed(c, u, w))
    BY EpArmed
  <2>4. EpBetween(f, c, Armed(c, u, w))
    BY <2>2, ArmedFacts
  <2> QED BY <2>1, <2>3, <2>4
<1>4. CASE c.timers_ # <<>>
  <2> DEFINE w == FALSE
  <2>1. Epoll!ArmTimer(s) = Arming(s, v, w) /\ w \in BOOLEAN
    BY <1>1, <1>4 DEF Epoll!ArmTimer, Arming
  <2>2. Head(c.timers_) \in IoOps
    BY <1>0, <1>4
  <2>3. due \in Int
    BY <1>0, <2>2 DEF Operation
  <2>4. v \in Seq(Int)
    BY <1>0, <2>3
  <2> HIDE DEF v, w
  <2>5. Arming(s, v, w) = St(f, Armed(c, v, w))
    BY EpArmed
  <2>6. EpBetween(f, c, Armed(c, v, w))
    BY <2>1, <2>4, ArmedFacts
  <2> QED BY <2>1, <2>5, <2>6
<1> QED BY <1>2, <1>3, <1>4

LEMMA EpUpdatesTimers ==
  ASSUME NEW f, NEW c, EpHolds(f, c)
  PROVE  \E d : Epoll!update_timers(St(f, c)) = St(f, d) /\ EpBetween(f, c, d)
<1>1. St(f, c).ctx = c /\ c \in EpollCtx
  BY DEF St, EpHolds
<1>2. CASE c.timersAreDirty_
  <2> DEFINE r == Reaped(f, c)
  <2>1. EpBetween(f, c, r)
    BY EpReaps DEF EpBetween
  <2>2. Epoll!ReapTimers(St(f, c)) = St(f, r)
    BY <1>1, EpReapTimers
  <2> HIDE DEF r
  <2>3. PICK d : Epoll!ArmTimer(St(f, r)) = St(f, d) /\ EpBetween(f, r, d)
    BY <2>1, EpArms DEF EpBetween
  <2>4. EpBetween(f, c, d)
    BY <2>1, <2>3 DEF EpBetween
  <2> QED BY <1>1, <1>2, <2>2, <2>3, <2>4 DEF Epoll!update_timers
<1>3. CASE ~c.timersAreDirty_
  <2>1. Epoll!update_timers(St(f, c)) = St(f, c)
    BY <1>1, <1>3 DEF Epoll!update_timers
  <2> QED BY <2>1 DEF EpBetween
<1> QED BY <1>2, <1>3

\* A new batch: what was queued here, and the reads that are ready.
LEMMA EpRebatched ==
  ASSUME NEW r, NEW c, NEW d, NEW o, EpAt(o, r, c), ~InBatch(c, EpOp(o)), d.now = c.now,
         d.execute_ = c.execute_, d.elapsed = c.elapsed, d.cancelPending = c.cancelPending,
         d.registered = c.registered, d.timers_ = c.timers_,
         Behind(d, EpOp(o)) => Behind(c, EpOp(o)), Behind(c, EpOp(o)) => InBatch(d, EpOp(o)) \/ Behind(d, EpOp(o)),
         InBatch(d, EpOp(o)) => Behind(c, EpOp(o)) \/ o \in c.registered,
         EpQueued(d, EpDoneOp(o)) <=> EpQueued(c, EpDoneOp(o))
  PROVE  EpAt(o, r, d)
<1>1. EpGood(r, o \in d.elapsed, d.now)
  BY DEF EpAt, EpGood
<1> DEFINE A(P(_, _, _, _, _, _, _, _, _), x) ==
             P(r, x.execute_[o], o \in x.elapsed, o \in x.cancelPending, o \in x.registered, InList(x.timers_, o),
               InBatch(x, EpOp(o)), Behind(x, EpOp(o)), EpQueued(x, EpDoneOp(o)))
<1>2. A(EpIdle, c) => A(EpIdle, d)
  BY DEF EpIdle
<1>3. A(EpStarts, c) => A(EpStarts, d)
  BY DEF EpStarts
<1>4. A(EpTimer, c) => A(EpTimer, d)
  BY DEF EpTimer
<1>5. A(EpLeaves, c) => A(EpLeaves, d)
  BY DEF EpLeaves
<1>6. A(EpReads, c) => A(EpReads, d)
  BY DEF EpReads
<1>7. A(EpStops, c) => A(EpStops, d)
  BY DEF EpStops
<1>8. A(EpOver, c) => A(EpOver, d)
  BY DEF EpOver
<1> QED BY <1>1, <1>2, <1>3, <1>4, <1>5, <1>6, <1>7, <1>8 DEF EpAt, EpPhase

LEMMA EpTakesBatch ==
  ASSUME NEW f, NEW c, EpHolds(f, c), c.batch = <<>>, NEW d \in EpollCtx, Once(d.batch), Wakes(f, d),
         d.localQueue_ = <<>>, d.pc = "items", d.remoteQueue_ = c.remoteQueue_, d.timers_ = c.timers_,
         d.execute_ = c.execute_, d.elapsed = c.elapsed, d.cancelPending = c.cancelPending,
         d.registered = c.registered, d.now = c.now, d.stopper = "no" => c.stopper = "no",
         \A i \in EpItems : InList(c.localQueue_, i) => InList(d.batch, i),
         \A i \in EpItems : InList(d.batch, i) => InList(c.localQueue_, i) \/ \E o \in c.registered : i = EpOp(o)
  PROVE  EpHolds(f, d)
<1>1. /\ f \in [IoOps -> Operation] /\ c \in EpollCtx /\ EpLists(c) /\ \A o \in IoOps : EpAt(o, f[o], c)
      /\ c.registered \subseteq IoOps
  BY DEF EpHolds, EpollCtx
<1>2. \A i : ~InBatch(c, i) /\ ~InList(<<>>, i)
  BY DEF InBatch, InList
<1>3. \A i : Behind(d, i) <=> InList(Pending(c.remoteQueue_), i)
  BY <1>2 DEF Behind
<1>4. \A i \in EpItems : InBatch(d, i) <=> InList(d.batch, i)
  BY DEF InBatch
<1>5. ASSUME NEW o \in IoOps, o \in c.registered
      PROVE  ~Behind(c, EpOp(o))
  BY <1>1, <1>5 DEF EpAt, EpPhase, EpIdle, EpStarts, EpTimer, EpLeaves, EpReads, EpStops, EpOver
<1>6. EpLists(d)
  <2>1. Once(d.localQueue_) /\ Once(Pending(d.remoteQueue_)) /\ Once(d.timers_)
    BY <1>1 DEF EpLists, Once
  <2>2. ASSUME NEW i \in EpItems
        PROVE  ~(InBatch(d, i) /\ Behind(d, i)) /\ ~(InList(d.localQueue_, i) /\ InList(Pending(d.remoteQueue_), i))
    <3>1. ~(InList(c.localQueue_, i) /\ InList(Pending(c.remoteQueue_), i))
      BY <1>1 DEF EpLists
    <3>2. (\E o \in c.registered : i = EpOp(o)) => ~InList(Pending(c.remoteQueue_), i)
      BY <1>1, <1>5 DEF Behind
    <3> QED BY <1>2, <1>3, <1>4, <3>1, <3>2
  <2>3. d.stopper = "no" => ~EpQueued(d, EpStopOp)
    <3>1. EpStopOp \in EpItems /\ \A o \in c.registered : EpStopOp # EpOp(o)
      BY <1>1, EpItemFacts
    <3> QED BY <1>1, <1>3, <1>4, <3>1 DEF EpLists, EpQueued, Behind
  <2> QED BY <2>1, <2>2, <2>3 DEF EpLists
<1>7. ASSUME NEW o \in IoOps
      PROVE  EpAt(o, f[o], d)
  <2>1. /\ EpOp(o) \in EpItems /\ EpDoneOp(o) \in EpItems
        /\ \A p \in c.registered : EpDoneOp(o) # EpOp(p) /\ (EpOp(o) = EpOp(p) => o = p)
    BY <1>1, EpItemFacts
  <2>2. EpQueued(d, EpDoneOp(o)) <=> EpQueued(c, EpDoneOp(o))
    BY <1>2, <1>3, <1>4, <2>1 DEF EpQueued, Behind
  <2>3. /\ Behind(d, EpOp(o)) => Behind(c, EpOp(o))
        /\ Behind(c, EpOp(o)) => InBatch(d, EpOp(o)) \/ Behind(d, EpOp(o))
        /\ InBatch(d, EpOp(o)) => Behind(c, EpOp(o)) \/ o \in c.registered
    BY <1>3, <1>4, <2>1 DEF Behind
  <2> QED BY <1>1, <1>2, <2>2, <2>3, EpRebatched
<1> QED BY <1>1, <1>6, <1>7 DEF EpHolds

\* run_impl(): what other threads have queued is taken, or they are told
\* to wake this one.
LEMMA EpBehindAgain ==
  ASSUME NEW f, NEW c, EpHolds(f, c), NEW d \in EpollCtx, Wakes(f, d), d.batch = c.batch, d.timers_ = c.timers_,
         d.execute_ = c.execute_, d.elapsed = c.elapsed, d.cancelPending = c.cancelPending,
         d.registered = c.registered, d.now = c.now, d.stopper = c.stopper, c.batch = <<>>,
         Once(d.localQueue_), Once(Pending(d.remoteQueue_)), \A i : ~InList(Pending(d.remoteQueue_), i),
         \A i \in EpItems : Behind(d, i) <=> Behind(c, i)
  PROVE  EpHolds(f, d)
<1>1. f \in [IoOps -> Operation] /\ c \in EpollCtx /\ EpLists(c) /\ \A o \in IoOps : EpAt(o, f[o], c)
  BY DEF EpHolds
<1>2. \A i \in EpItems : /\ InBatch(d, i) <=> InBatch(c, i)
                         /\ EpQueued(d, i) <=> EpQueued(c, i)
  BY DEF InBatch, EpQueued
<1>3. EpLists(d)
  <2>1. EpStopOp \in EpItems
    BY EpItemFacts
  <2> QED BY <1>1, <1>2, <2>1 DEF EpLists
<1>4. ASSUME NEW o \in IoOps
      PROVE  EpAt(o, f[o], d)
  <2>1. EpOp(o) \in EpItems /\ EpDoneOp(o) \in EpItems
    BY EpItemFacts
  <2>2. SameView(c, d, o)
    BY <1>2, <2>1 DEF SameView, SameElsewhere, SameQueued
  <2> QED BY <1>1, <2>2, EpViewKept
<1> QED BY <1>1, <1>3, <1>4 DEF EpHolds

Fetched(c) == [c EXCEPT !.localQueue_ = c.localQueue_ \o c.remoteQueue_, !.remoteQueue_ = <<>>]
Asked(c) == [c EXCEPT !.remoteQueue_ = EpInactive, !.remoteQueueReadSubmitted_ = TRUE]
LEMMA EpTries ==
  ASSUME NEW f, NEW c
  PROVE  Epoll!try_schedule_local_remote_queue_contents(St(f, c))
         = IF c.remoteQueue_ # <<>> THEN St(f, Fetched(c)) ELSE St(f, Asked(c))
<1> DEFINE s == St(f, c)
<1>1. s.op = f /\ s.ctx = c
  BY DEF St
<1>2. CASE c.remoteQueue_ # <<>>
  <2> DEFINE l == c.localQueue_ \o c.remoteQueue_
             e == <<>>
             c1 == [c EXCEPT !.localQueue_ = l]
             s1 == [s EXCEPT !.ctx.localQueue_ = l]
  <2>1. Epoll!try_schedule_local_remote_queue_contents(s) = [s1 EXCEPT !.ctx.remoteQueue_ = e]
    BY <1>1, <1>2 DEF Epoll!try_schedule_local_remote_queue_contents
  <2>2. Fetched(c) = [c1 EXCEPT !.remoteQueue_ = e]
    BY DEF Fetched
  <2> HIDE DEF l
  <2>3. s1 = St(f, c1)
    BY DEF St
  <2> HIDE DEF c1, s1, e
  <2>4. [s1 EXCEPT !.ctx.remoteQueue_ = e] = St(f, [c1 EXCEPT !.remoteQueue_ = e])
    BY <2>3 DEF St
  <2> QED BY <1>2, <2>1, <2>2, <2>4
<1>3. CASE c.remoteQueue_ = <<>>
  <2> DEFINE w == TRUE
             c1 == [c EXCEPT !.remoteQueue_ = EpInactive]
             s1 == [s EXCEPT !.ctx.remoteQueue_ = EpInactive]
  <2>1. Epoll!try_schedule_local_remote_queue_contents(s) = [s1 EXCEPT !.ctx.remoteQueueReadSubmitted_ = w]
    BY <1>1, <1>3, EpSameItems DEF Epoll!try_schedule_local_remote_queue_contents
  <2>2. Asked(c) = [c1 EXCEPT !.remoteQueueReadSubmitted_ = w]
    BY DEF Asked
  <2>3. s1 = St(f, c1)
    BY DEF St
  <2> HIDE DEF c1, s1, w
  <2>4. [s1 EXCEPT !.ctx.remoteQueueReadSubmitted_ = w] = St(f, [c1 EXCEPT !.remoteQueueReadSubmitted_ = w])
    BY <2>3 DEF St
  <2> QED BY <1>3, <2>1, <2>2, <2>4
<1> QED BY <1>2, <1>3

LEMMA EpFetches ==
  ASSUME NEW f, NEW c, EpHolds(f, c), c.batch = <<>>, ~c.remoteQueueReadSubmitted_
  PROVE  LET d == Fetched(c) IN
         /\ EpHolds(f, d) /\ d.batch = <<>> /\ d.remoteQueueReadSubmitted_ = c.remoteQueueReadSubmitted_
<1> DEFINE d == Fetched(c)
           l == c.localQueue_ \o c.remoteQueue_
<1>1. c \in EpollCtx /\ EpLists(c)
  BY DEF EpHolds
<1>2. PICK token : WakeToken(f, c, token)
  BY DEF EpHolds, Wakes
<1>3. token = <<>> /\ c.remoteQueue_ # EpInactive
  BY <1>2 DEF WakeToken
<1>4. c.remoteQueue_ \in Seq(EpItems) /\ Pending(c.remoteQueue_) = c.remoteQueue_ /\ c.localQueue_ \in Seq(EpItems)
  BY <1>1, <1>3 DEF EpollCtx, Pending
<1>5. /\ l \in Seq(EpItems) /\ Once(l)
      /\ \A i \in EpItems : InList(l, i) <=> InList(c.localQueue_, i) \/ InList(c.remoteQueue_, i)
  BY <1>1, <1>4, ConcatFacts DEF EpLists
<1>6. d = [c EXCEPT !.localQueue_ = l, !.remoteQueue_ = <<>>]
  BY DEF Fetched
<1> HIDE DEF d, l
<1>7. /\ d \in EpollCtx /\ d.localQueue_ = l /\ d.remoteQueue_ = <<>> /\ d.batch = c.batch /\ d.timers_ = c.timers_
      /\ d.execute_ = c.execute_ /\ d.elapsed = c.elapsed /\ d.cancelPending = c.cancelPending
      /\ d.registered = c.registered /\ d.now = c.now /\ d.stopper = c.stopper
      /\ d.remoteQueueReadSubmitted_ = c.remoteQueueReadSubmitted_ /\ d.eventfd = c.eventfd
  <2>1. <<>> \in Seq(EpItems)
    OBVIOUS
  <2> QED BY <1>1, <1>5, <1>6, <2>1 DEF EpollCtx
<1>8. <<>> # EpInactive
  BY DEF EpInactive
<1>9. Wakes(f, d)
  <2>1. WakeToken(f, d, token)
    BY <1>2, <1>3, <1>7, <1>8 DEF WakeToken
  <2> QED BY <1>3, <2>1 DEF Wakes
<1>10. Pending(d.remoteQueue_) = <<>> /\ Once(<<>>) /\ \A i : ~InList(<<>>, i)
  BY <1>7, <1>8 DEF Pending, Once, InList
<1>11. \A i \in EpItems : Behind(d, i) <=> Behind(c, i)
  BY <1>4, <1>5, <1>7, <1>10 DEF Behind
<1>12. EpHolds(f, d)
  BY <1>5, <1>7, <1>9, <1>10, <1>11, EpBehindAgain
<1> QED BY <1>7, <1>12 DEF d

\* It waits, with the queue marked inactive.
Sleeping(c) == [c EXCEPT !.pc = "waiting"]
LEMMA EpAsks ==
  ASSUME NEW f, NEW c, EpHolds(f, c), c.batch = <<>>, ~c.remoteQueueReadSubmitted_, c.remoteQueue_ = <<>>
  PROVE  LET d == Asked(c) IN
         EpHolds(f, d) /\ d.batch = <<>> /\ d.remoteQueueReadSubmitted_
<1> DEFINE d == Asked(c)
<1>1. c \in EpollCtx /\ EpLists(c)
  BY DEF EpHolds
<1>2. PICK token : WakeToken(f, c, token)
  BY DEF EpHolds, Wakes
<1>3. token = <<>>
  BY <1>2 DEF WakeToken
<1>4. /\ d \in EpollCtx /\ d.localQueue_ = c.localQueue_ /\ d.remoteQueue_ = EpInactive /\ d.batch = c.batch
      /\ d.timers_ = c.timers_
      /\ d.execute_ = c.execute_ /\ d.elapsed = c.elapsed /\ d.cancelPending = c.cancelPending
      /\ d.registered = c.registered /\ d.now = c.now /\ d.stopper = c.stopper
      /\ d.remoteQueueReadSubmitted_ = TRUE /\ d.eventfd = c.eventfd
  BY <1>1 DEF EpollCtx, Asked
<1> HIDE DEF d
<1>5. Wakes(f, d)
  <2>1. WakeToken(f, d, token)
    BY <1>2, <1>3, <1>4 DEF WakeToken
  <2> QED BY <1>3, <2>1 DEF Wakes
<1>6. <<>> # EpInactive
  BY DEF EpInactive
<1>7. Pending(d.remoteQueue_) = <<>> /\ Pending(c.remoteQueue_) = <<>> /\ Once(<<>>) /\ \A i : ~InList(<<>>, i)
  BY <1>4, <1>6 DEF Pending, Once, InList
<1>8. \A i \in EpItems : Behind(d, i) <=> Behind(c, i)
  BY <1>4, <1>7 DEF Behind
<1>9. Once(d.localQueue_)
  BY <1>1, <1>4 DEF EpLists
<1>10. EpHolds(f, d)
  BY <1>4, <1>5, <1>7, <1>8, <1>9, EpBehindAgain
<1> QED BY <1>4, <1>10 DEF d

LEMMA EpSleeps ==
  ASSUME NEW f, NEW c, EpHolds(f, c), c.batch = <<>>
  PROVE  EpHolds(f, Sleeping(c))
<1> DEFINE d == Sleeping(c)
<1>1. c \in EpollCtx /\ Wakes(f, c)
  BY DEF EpHolds
<1>2. /\ d \in EpollCtx /\ EpBesides(c, d) /\ d.batch = c.batch /\ d.stopper = c.stopper /\ d.eventfd = c.eventfd
      /\ d.now = c.now /\ d.remoteQueue_ = c.remoteQueue_
      /\ d.remoteQueueReadSubmitted_ = c.remoteQueueReadSubmitted_
  BY <1>1 DEF Sleeping, EpollCtx, EpPc, EpBesides
<1> HIDE DEF d
<1>3. Wakes(f, d)
  BY <1>1, <1>2 DEF Wakes, WakeToken
<1>4. EpHolds(f, d)
  BY <1>2, <1>3, EpHoldsBesides
<1> QED BY <1>4 DEF d

LEMMA EpBatches ==
  ASSUME NEW f, NEW c, EpHolds(f, c), c.batch = <<>>
  PROVE  EpHolds(f, Epoll!TakeBatch(c))
<1> DEFINE d == Epoll!TakeBatch(c)
<1>1. c \in EpollCtx /\ EpLists(c) /\ Wakes(f, c) /\ c.localQueue_ \in Seq(EpItems) /\ Once(c.localQueue_)
  BY DEF EpHolds, EpollCtx, EpLists
<1>2. d = [c EXCEPT !.batch = c.localQueue_, !.localQueue_ = <<>>, !.pc = "items"]
  BY DEF Epoll!TakeBatch
<1> HIDE DEF d
<1>3. /\ d \in EpollCtx /\ d.batch = c.localQueue_ /\ d.localQueue_ = <<>> /\ d.pc = "items"
      /\ d.remoteQueue_ = c.remoteQueue_ /\ d.timers_ = c.timers_
      /\ d.execute_ = c.execute_ /\ d.elapsed = c.elapsed /\ d.cancelPending = c.cancelPending
      /\ d.registered = c.registered /\ d.now = c.now /\ d.stopper = c.stopper
      /\ d.remoteQueueReadSubmitted_ = c.remoteQueueReadSubmitted_ /\ d.eventfd = c.eventfd
  <2>1. <<>> \in Seq(EpItems) /\ "items" \in EpPc
    BY DEF EpPc
  <2> QED BY <1>1, <1>2, <2>1 DEF EpollCtx
<1>4. Wakes(f, d)
  BY <1>1, <1>3 DEF Wakes, WakeToken
<1> QED BY <1>1, <1>3, <1>4, EpTakesBatch DEF d

LEMMA EpPoll ==
  ASSUME EpollInv, Epoll!Poll
  PROVE  EpollInv'
<1>1. EpHolds(op, ctx) /\ ctx.batch = <<>>
  BY DEF EpollInv, EpHolds, Epoll!Poll
<1>2. PICK d : Epoll!update_timers(St(op, ctx)) = St(op, d) /\ EpBetween(op, ctx, d)
  BY <1>1, EpUpdatesTimers
<1>3. EpHolds(op, d) /\ d.batch = <<>> /\ d.remoteQueueReadSubmitted_ = ctx.remoteQueueReadSubmitted_
  BY <1>1, <1>2 DEF EpBetween
<1> DEFINE s == Epoll!update_timers(Epoll!State)
           t == IF ctx.remoteQueueReadSubmitted_ THEN s ELSE Epoll!try_schedule_local_remote_queue_contents(s)
<1>4. Epoll!Become([t EXCEPT !.ctx = IF t.ctx.remoteQueueReadSubmitted_ THEN [@ EXCEPT !.pc = "waiting"]
                                    ELSE Epoll!TakeBatch(@)])
  BY DEF Epoll!Poll
<1>5. s = St(op, d)
  BY <1>2, EpBecome
<1> HIDE DEF s, t
<1>6. ASSUME NEW e, t = St(op, e), EpHolds(op, e), e.batch = <<>>
      PROVE  EpollInv'
  <2> DEFINE z == IF e.remoteQueueReadSubmitted_ THEN Sleeping(e) ELSE Epoll!TakeBatch(e)
  <2>1. t.op = op /\ t.ctx = e
    BY <1>6 DEF St
  <2>2. Epoll!Become([t EXCEPT !.ctx = z])
    BY <1>4, <2>1 DEF Sleeping
  <2>3. [St(op, e) EXCEPT !.ctx = z] = St(op, z)
    <3> HIDE DEF z
    <3> QED BY DEF St
  <2>4. op' = op /\ ctx' = z
    <3> HIDE DEF z
    <3> QED BY <1>6, <2>2, <2>3, EpBecome
  <2>5. EpHolds(op, z)
    BY <1>6, EpSleeps, EpBatches
  <2> QED BY <2>4, <2>5 DEF EpHolds, EpollInv
<1>7. CASE ctx.remoteQueueReadSubmitted_
  <2>1. t = St(op, d)
    BY <1>5, <1>7 DEF t
  <2> QED BY <1>3, <1>6, <2>1
<1>8. CASE ~ctx.remoteQueueReadSubmitted_
  <2>1. t = IF d.remoteQueue_ # <<>> THEN St(op, Fetched(d)) ELSE St(op, Asked(d))
    BY <1>5, <1>8, EpTries DEF t
  <2>2. CASE d.remoteQueue_ # <<>>
    <3>1. EpHolds(op, Fetched(d)) /\ Fetched(d).batch = <<>>
      BY <1>3, <1>8, EpFetches
    <3> QED BY <1>6, <2>1, <2>2, <3>1
  <2>3. CASE d.remoteQueue_ = <<>>
    <3>1. EpHolds(op, Asked(d)) /\ Asked(d).batch = <<>>
      BY <1>3, <1>8, <2>3, EpAsks
    <3> QED BY <1>6, <2>1, <2>3, <3>1
  <2> QED BY <2>2, <2>3
<1> QED BY <1>7, <1>8

LEMMA EpRunAgain ==
  ASSUME EpollInv, Epoll!RunAgain
  PROVE  EpollInv'
<1>1. EpHolds(op, ctx) /\ ctx.batch = <<>>
  BY DEF EpollInv, EpHolds, Epoll!RunAgain, EpLists
<1> DEFINE c == Epoll!TakeBatch(ctx)
           d == [c EXCEPT !.shouldStop_ = FALSE, !.stopper = "never"]
<1>2. op' = op /\ ctx' = d
  BY DEF Epoll!RunAgain, Epoll!Become, Epoll!State
<1>3. EpHolds(op, c) /\ c.pc = "items"
  <2>1. c.pc = "items"
    BY <1>1 DEF Epoll!TakeBatch, EpHolds, EpollCtx
  <2> QED BY <1>1, <2>1, EpBatches
<1> HIDE DEF c
<1>4. /\ d \in EpollCtx /\ EpBesides(c, d) /\ d.stopper = "never" /\ d.pc = "items" /\ d.now = c.now
      /\ d.eventfd = c.eventfd
      /\ d.remoteQueueReadSubmitted_ = c.remoteQueueReadSubmitted_
  BY <1>3 DEF EpHolds, EpollCtx, EpBesides
<1> HIDE DEF d
<1>5. PICK token : WakeToken(op, c, token) /\ token \in {<<>>, <<"stopper", "run">>, <<"eventfd", "run">>} \cup {"start", "stop"} \X IoOps
  BY <1>3 DEF EpHolds, Wakes
<1>6. CASE token = <<"stopper", "run">>
  <2>1. WakeToken(op, d, <<>>)
    <3>1. /\ \A o \in IoOps : op[o].start # "signal" /\ op[o].stop # "signal"
          /\ ~c.eventfd /\ c.remoteQueue_ # EpInactive /\ d.remoteQueue_ = c.remoteQueue_
      BY <1>4, <1>5, <1>6 DEF WakeToken, EpBesides
    <3> QED BY <1>4, <3>1 DEF WakeToken
  <2> QED BY <1>2, <1>3, <1>4, <2>1, EpHoldsBesides DEF Wakes, EpHolds, EpollInv
<1>7. CASE token # <<"stopper", "run">>
  <2>1. WakeToken(op, d, token)
    BY <1>4, <1>5, <1>7 DEF WakeToken, EpBesides
  <2> QED BY <1>2, <1>3, <1>4, <1>5, <2>1, EpHoldsBesides DEF Wakes, EpHolds, EpollInv
<1> QED BY <1>6, <1>7

\* The descriptors that are ready, in any order.
LEMMA OrderFacts ==
  ASSUME NEW R, R \subseteq IoOps, IsFiniteSet(IoOps), NEW events \in Epoll!Orders({Epoll!Op(o) : o \in R})
  PROVE  /\ events \in Seq(EpItems) /\ Once(events)
         /\ \A item : InList(events, item) <=> \E o \in R : item = EpOp(o)
<1> DEFINE S == {EpOp(o) : o \in R}
           n == Cardinality(S)
           g == [o \in R |-> EpOp(o)]
<1>1. IsFiniteSet(R)
  BY FS_Subset
<1>2. g \in Surjection(R, S)
  BY DEF Surjection
<1>3. IsFiniteSet(S)
  <2> HIDE DEF g, S
  <2> QED BY <1>1, <1>2, FS_Surjection
<1>4. n \in Nat
  <2> HIDE DEF S
  <2> QED BY <1>3, FS_CardinalityType
<1>5. events \in [1 .. n -> S] /\ Items(events) = S
  <2>1. {Epoll!Op(o) : o \in R} = S
    BY EpSameItems
  <2>2. Epoll!Cardinality(S) = Cardinality(S)
    BY DEF Epoll!Cardinality, Cardinality
  <2> HIDE DEF S
  <2> QED BY <2>1, <2>2, EpSameLoops DEF Epoll!Orders
<1>6. events \in Surjection(1 .. n, S)
  <2> HIDE DEF S, n
  <2> QED BY <1>5 DEF Surjection, Items
<1>7. IsFiniteSet(1 .. n) /\ Cardinality(1 .. n) = n
  <2> HIDE DEF n
  <2>1. Cardinality(1 .. n) = n - 1 + 1
    BY <1>4, FS_Interval
  <2> QED BY <1>4, <2>1, FS_Interval
<1>8. events \in Injection(1 .. n, S)
  <2>1. Cardinality(S) = Cardinality(1 .. n)
    BY <1>7
  <2> HIDE DEF S, n
  <2> QED BY <1>6, <1>7, <2>1, FS_Surjection
<1>9. S \subseteq EpItems
  BY EpItemFacts
<1>10. \A item : InList(events, item) <=> item \in S
  <2> HIDE DEF S, n
  <2> QED BY <1>5 DEF InList, Items
<1>11. events \in Seq(EpItems) /\ Once(events)
  <2> HIDE DEF S, n
  <2>1. events \in [1 .. n -> EpItems]
    BY <1>5, <1>9
  <2> QED BY <1>4, <1>8, <2>1 DEF Injection, IsInjective, Once
<1> QED BY <1>10, <1>11

LEMMA EpAcquires ==
  ASSUME EpollInv, Epoll!acquire_completion_queue_items, ContextsAssumption
  PROVE  EpollInv'
<1>1. EpHolds(op, ctx) /\ ctx.batch = <<>> /\ ctx \in EpollCtx /\ EpLists(ctx)
  BY DEF EpollInv, EpHolds, Epoll!acquire_completion_queue_items, EpLists
<1>2. PICK events \in Epoll!Orders({Epoll!Op(o) : o \in Epoll!ReadyReads}) :
        Epoll!Become([Epoll!State EXCEPT
         !.ctx = Epoll!TakeBatch([ctx EXCEPT
           !.localQueue_ = ctx.localQueue_ \o events,
           !.eventfd = FALSE,
           !.remoteQueueReadSubmitted_ = ~ctx.eventfd,
           !.currentDueTime_ = IF Epoll!TimerFired THEN <<>> ELSE ctx.currentDueTime_,
           !.timersAreDirty_ = ctx.timersAreDirty_ \/ Epoll!TimerFired])])
  BY Zenon DEF Epoll!acquire_completion_queue_items
<1> DEFINE l == ctx.localQueue_ \o events
           v == IF Epoll!TimerFired THEN <<>> ELSE ctx.currentDueTime_
           w == ctx.timersAreDirty_ \/ Epoll!TimerFired
           u == ~ctx.eventfd
           c == [ctx EXCEPT !.localQueue_ = l, !.eventfd = FALSE, !.remoteQueueReadSubmitted_ = u,
                            !.currentDueTime_ = v, !.timersAreDirty_ = w]
           d == [c EXCEPT !.batch = c.localQueue_, !.localQueue_ = <<>>, !.pc = "items"]
<1>3. op' = op /\ ctx' = d
  BY <1>2 DEF Epoll!TakeBatch, Epoll!Become, Epoll!State
<1>4. Epoll!ReadyReads \subseteq IoOps /\ Epoll!ReadyReads \subseteq ctx.registered
  BY <1>1 DEF Epoll!ReadyReads, EpollCtx
<1>5. /\ events \in Seq(EpItems) /\ Once(events)
      /\ \A item : InList(events, item) <=> \E o \in Epoll!ReadyReads : item = EpOp(o)
  BY <1>4, OrderFacts DEF ContextsAssumption
<1>6. ASSUME NEW o \in IoOps, o \in ctx.registered
      PROVE  ~Behind(ctx, EpOp(o))
  <2>1. EpAt(o, op[o], ctx)
    BY DEF EpollInv
  <2> QED BY <1>6, <2>1 DEF EpAt, EpPhase, EpIdle, EpStarts, EpTimer, EpLeaves, EpReads, EpStops, EpOver
<1>7. /\ l \in Seq(EpItems) /\ Once(l)
      /\ \A i \in EpItems : InList(l, i) <=> InList(ctx.localQueue_, i) \/ InList(events, i)
  <2>1. ctx.localQueue_ \in Seq(EpItems) /\ Once(ctx.localQueue_)
    BY <1>1 DEF EpollCtx, EpLists
  <2>2. \A i \in EpItems : ~(InList(ctx.localQueue_, i) /\ InList(events, i))
    BY <1>4, <1>5, <1>6 DEF Behind
  <2> QED BY <1>5, <2>1, <2>2, ConcatFacts
<1>8. v \in Seq(Int) /\ w \in BOOLEAN /\ u \in BOOLEAN /\ <<>> \in Seq(EpItems)
  BY <1>1 DEF EpollCtx, Epoll!TimerFired
<1>8a. "items" \in EpPc
  BY DEF EpPc
<1>9. u <=> ~ctx.eventfd
  OBVIOUS
<1> HIDE DEF l, v, w, u
<1>10. /\ c \in EpollCtx /\ c.localQueue_ = l
       /\ c.remoteQueue_ = ctx.remoteQueue_ /\ c.timers_ = ctx.timers_
       /\ c.execute_ = ctx.execute_ /\ c.elapsed = ctx.elapsed /\ c.cancelPending = ctx.cancelPending
       /\ c.registered = ctx.registered /\ c.now = ctx.now /\ c.stopper = ctx.stopper
       /\ c.remoteQueueReadSubmitted_ = u /\ ~c.eventfd
  BY <1>1, <1>7, <1>8, <1>8a DEF EpollCtx
<1> HIDE DEF c
<1>11. /\ d \in EpollCtx /\ d.batch = l /\ d.localQueue_ = <<>> /\ d.pc = "items"
       /\ d.remoteQueue_ = ctx.remoteQueue_ /\ d.timers_ = ctx.timers_
       /\ d.execute_ = ctx.execute_ /\ d.elapsed = ctx.elapsed /\ d.cancelPending = ctx.cancelPending
       /\ d.registered = ctx.registered /\ d.now = ctx.now /\ d.stopper = ctx.stopper
       /\ d.remoteQueueReadSubmitted_ = u /\ ~d.eventfd
  BY <1>7, <1>8, <1>10, <1>8a DEF EpollCtx
<1> HIDE DEF d
<1>12. PICK token : WakeToken(op, ctx, token) /\ token \in {<<>>, <<"stopper", "run">>, <<"eventfd", "run">>} \cup {"start", "stop"} \X IoOps
  BY DEF EpollInv, Wakes
<1>13. Wakes(op, d)
  <2>1. CASE ctx.eventfd
    <3>1. /\ \A o \in IoOps : op[o].start # "signal" /\ op[o].stop # "signal"
          /\ ctx.stopper # "signal" /\ ctx.remoteQueue_ # EpInactive
      BY <1>12, <2>1 DEF WakeToken
    <3>2. WakeToken(op, d, <<>>)
      BY <1>11, <3>1 DEF WakeToken
    <3> QED BY <3>2 DEF Wakes
  <2>2. CASE ~ctx.eventfd
    <3>1. WakeToken(op, d, token)
      BY <1>9, <1>11, <1>12, <2>2 DEF WakeToken
    <3> QED BY <1>12, <3>1 DEF Wakes
  <2> QED BY <2>1, <2>2
<1>14. /\ \A i \in EpItems : InList(ctx.localQueue_, i) => InList(d.batch, i)
       /\ \A i \in EpItems : InList(d.batch, i) => InList(ctx.localQueue_, i) \/ \E o \in ctx.registered : i = EpOp(o)
  BY <1>4, <1>5, <1>7, <1>11
<1>15. EpHolds(op, d)
  BY <1>1, <1>7, <1>11, <1>13, <1>14, EpTakesBatch
<1> QED BY <1>3, <1>15 DEF EpHolds, EpollInv

-----------------------------------------------------------------------------
\* Nothing is queued, and every operation is idle.
LEMMA EpInit == ASSUME Epoll!Init PROVE EpollInv
<1>1. /\ op \in [IoOps -> {NewOp(kind) : kind \in {"schedule", "timed", "read"}}]
      /\ ctx \in [localQueue_ : {<<>>}, batch : {<<>>}, remoteQueue_ : {<<>>}, timers_ : {<<>>},
                  registered : {{}}, ready : {{}}, remoteQueueReadSubmitted_ : {FALSE},
                  timersAreDirty_ : {FALSE}, currentDueTime_ : {<<>>}, eventfd : {FALSE}, now : {0},
                  pc : {"items"}, shouldStop_ : {FALSE}, stopper : {"no"}, destroyed : {FALSE},
                  patient : SUBSET StopOps, execute_ : {[o \in IoOps |-> "none"]},
                  elapsed : {{}}, cancelPending : {{}}]
  BY DEF Epoll!Init, Epoll!NewOp, NewOp, Epoll!Nobody, Nobody
<1>2. ctx \in EpollCtx
  <2>1. [o \in IoOps |-> "none"] \in [IoOps -> Handlers] /\ "items" \in EpPc
    BY DEF Handlers, EpPc
  <2>2. <<>> \in Seq(EpItems) /\ <<>> \in Seq(IoOps) /\ <<>> \in Seq(Int)
    OBVIOUS
  <2> DEFINE h == [o \in IoOps |-> "none"]
             n == <<>>
  <2>3. h \in [IoOps -> Handlers] /\ n \in Seq(EpItems) /\ n \in Seq(IoOps) /\ n \in Seq(Int)
    BY <2>1, <2>2
  <2>4. ctx \in [localQueue_ : {n}, batch : {n}, remoteQueue_ : {n}, timers_ : {n},
                 registered : {{}}, ready : {{}}, remoteQueueReadSubmitted_ : {FALSE},
                 timersAreDirty_ : {FALSE}, currentDueTime_ : {n}, eventfd : {FALSE}, now : {0},
                 pc : {"items"}, shouldStop_ : {FALSE}, stopper : {"no"}, destroyed : {FALSE},
                 patient : SUBSET StopOps, execute_ : {h}, elapsed : {{}}, cancelPending : {{}}]
    BY <1>1
  <2> HIDE DEF h, n
  <2>5. /\ {n} \subseteq Seq(EpItems) /\ {n} \subseteq Seq(EpItems) \cup {EpInactive} /\ {n} \subseteq Seq(IoOps)
        /\ {n} \subseteq Seq(Int) /\ {h} \subseteq [IoOps -> Handlers] /\ {{}} \subseteq SUBSET IoOps
        /\ {FALSE} \subseteq BOOLEAN /\ {0} \subseteq Int /\ {"items"} \subseteq EpPc
        /\ {"no"} \subseteq {"no", "signal", "done", "never"}
    BY <2>1, <2>3
  <2> QED BY <2>4, <2>5 DEF EpollCtx
<1>3. op \in [IoOps -> Operation]
  BY <1>1, NewFacts
<1>4. /\ ctx.localQueue_ = <<>> /\ ctx.batch = <<>> /\ ctx.remoteQueue_ = <<>> /\ ctx.timers_ = <<>>
      /\ ctx.registered = {} /\ ctx.elapsed = {} /\ ctx.cancelPending = {}
      /\ ~ctx.eventfd /\ ctx.stopper = "no" /\ ctx.pc = "items" /\ ctx.now = 0
  BY <1>1
<1>5. Pending(ctx.remoteQueue_) = <<>> /\ ctx.remoteQueue_ # EpInactive
  BY <1>4 DEF Pending, EpInactive
<1>6. \A item : ~InBatch(ctx, item) /\ ~Behind(ctx, item) /\ ~InList(ctx.timers_, item) /\ ~EpQueued(ctx, item)
  BY <1>4, <1>5 DEF InBatch, Behind, EpQueued, InList
<1>7. EpLists(ctx)
  BY <1>4, <1>5, <1>6 DEF EpLists, Once, InList
<1>8. ASSUME NEW o \in IoOps
      PROVE  /\ op[o].life = "idle" /\ op[o].start = "no" /\ op[o].stop = "no" /\ op[o].cb = "none"
             /\ ~op[o].stopped /\ op[o].signals = <<>> /\ Signalled(op[o])
  <2>1. PICK kind \in {"schedule", "timed", "read"} : op[o] = NewOp(kind)
    BY <1>1
  <2> QED BY <2>1, NewFacts
<1>9. Wakes(op, ctx)
  <2>1. WakeToken(op, ctx, <<>>)
    BY <1>4, <1>5, <1>8 DEF WakeToken
  <2> QED BY <2>1 DEF Wakes
<1>10. ASSUME NEW o \in IoOps
       PROVE  EpAt(o, op[o], ctx)
  <2>1. EpGood(op[o], o \in ctx.elapsed, ctx.now)
    BY <1>4, <1>8 DEF EpGood
  <2>2. EpIdle(op[o], ctx.execute_[o], o \in ctx.elapsed, o \in ctx.cancelPending, o \in ctx.registered,
               InList(ctx.timers_, o), InBatch(ctx, EpOp(o)), Behind(ctx, EpOp(o)), EpQueued(ctx, EpDoneOp(o)))
    BY <1>4, <1>6, <1>8 DEF EpIdle
  <2> QED BY <2>1, <2>2 DEF EpAt, EpPhase
<1> QED BY <1>2, <1>3, <1>7, <1>9, <1>10 DEF EpollInv

\* Every step keeps the invariant.
LEMMA EpNext ==
  ASSUME EpollInv, ~EarlyStop, ~AddFails, Epoll!Next, ContextsAssumption
  PROVE  EpollInv'
<1>1. CASE Epoll!execute_pending_local \/ Epoll!Poll \/ Epoll!acquire_completion_queue_items
  BY <1>1, EpExecutesPending, EpPoll, EpAcquires
<1>2. CASE Epoll!UserCodeReturns \/ Epoll!Tick \/ Epoll!SignalStop \/ Epoll!ReturnFromRun \/ Epoll!RunAgain
           \/ Epoll!StopRun \/ Epoll!Destroy
  BY <1>2, EpQuiet, EpSignalStop, EpRunAgain, EpStopRun
<1>3. ASSUME NEW o \in IoOps,
             Epoll!signal_remote_queue(o) \/ Epoll!epoll_ctl_add(o) \/ Epoll!BecomesReady(o)
             \/ Epoll!start_remote(o) \/ Epoll!start_here(o)
      PROVE  EpollInv'
  BY <1>3, EpSignalRemote, EpAdds, EpQuiet, EpStartRemote, EpStartHere
<1>4. ASSUME NEW o \in IoOps,
             Epoll!StopFlag(o) \/ Epoll!StopDeregister(o) \/ Epoll!StopEnqueue(o) \/ Epoll!StopSignal(o)
             \/ Epoll!request_stop_remote(o) \/ Epoll!request_stop_here(o)
      PROVE  EpollInv'
  BY <1>4, EpStopFlag, EpStopDeregister, EpStopEnqueue, EpStopSignal, EpRequestStopRemote, EpRequestStopHere
<1> QED BY <1>1, <1>2, <1>3, <1>4 DEF Epoll!Next, Epoll!System, Epoll!User

-----------------------------------------------------------------------------
\* What the invariants say of the promise.
IoContexts == {"io_uring_context", "io_epoll_context"}
Covered == which # "io_uring_context" /\ (which = "io_epoll_context" => ~EarlyStop /\ ~AddFails)
Promise == HeldOnce /\ SignalIsRight /\ WithinBounds

\* The signal is right if it is right for each operation.
LEMMA SignalsRight ==
  ASSUME NEW S, op \in [S -> Operation],
         \A o \in S : /\ Signalled(op[o])
                      /\ op[o].kind = "timed" /\ op[o].signals = <<"value">> => op[o].due <= ctx.now
  PROVE  SignalIsRight
<1>1. ASSUME NEW o \in S, op[o].signals # <<>>
      PROVE  /\ Len(op[o].signals) = 1
             /\ op[o].signals[1] = "done" => op[o].stopped
             /\ op[o].kind = "timed" /\ op[o].signals[1] = "value" => op[o].due <= ctx.now
  <2>1. op[o].signals \in Results
    BY DEF Operation
  <2>2. op[o].signals \in {<<"value">>, <<"error">>, <<"done">>}
    BY <1>1, <2>1 DEF Results
  <2> QED BY <2>2 DEF Signalled
<1> QED BY <1>1 DEF SignalIsRight

\* The promise of a context that holds each started operation in one place.
LEMMA PromiseKept ==
  ASSUME NEW S, op \in [S -> Operation],
         which \notin IoContexts, which # "windows_thread_pool", which # "trampoline_scheduler",
         \A o \in S : /\ References(o) = One(op[o].life = "started")
                      /\ op[o].life = "completed" => op[o].cb = "none"
                      /\ Signalled(op[o])
                      /\ op[o].kind = "timed" /\ op[o].signals = <<"value">> => op[o].due <= ctx.now
  PROVE  Promise
BY SignalsRight DEF Promise, HeldOnce, WithinBounds, IoContexts

\* An item that is in a list as often as one of the threads runs it.
LEMMA TaskTimes ==
  ASSUME NEW task \in [Workers -> Tasks], TaskOfOne(task), NEW o \in Ops
  PROVE  Cardinality({w \in Workers : task[w] = <<o>>}) = One(InTask(task, o))
<1>1. \A x, y \in {w \in Workers : task[w] = <<o>>} : x = y
  BY DEF TaskOfOne
<1> QED BY <1>1, AtMostOne DEF One, InTask

\* The invariant implies the promise.
LEMMA LoopKeeps == ASSUME LoopInv, which = "manual_event_loop" PROVE Promise
<1>0. op \in [Ops -> Operation] /\ ctx.head_ \in Seq(Ops) /\ ctx.task \in [Workers -> Tasks]
  BY DEF LoopInv, LoopCtx
<1>1. ASSUME NEW o \in Ops
      PROVE  References(o) = One(op[o].life = "started")
  <2>1. References(o) = EventLoop!References(o)
    BY DEF LoopInv, References
  <2>2. EventLoop!References(o) = EventLoop!Times(ctx.head_, o) + EventLoop!Cardinality({w \in Workers : ctx.task[w] = <<o>>})
    BY DEF EventLoop!References
  <2>3. \A T : EventLoop!Cardinality(T) = Cardinality(T)
    BY DEF EventLoop!Cardinality, Cardinality
  <2>4. EventLoop!Times(ctx.head_, o) = One(InList(ctx.head_, o))
    BY <1>0, <2>3, TimesOnce DEF LoopInv, EventLoop!Times, One
  <2>5. Cardinality({w \in Workers : ctx.task[w] = <<o>>}) = One(InTask(ctx.task, o))
    BY <1>0, TaskTimes DEF LoopInv
  <2> QED BY <2>1, <2>2, <2>3, <2>4, <2>5 DEF LoopInv, LoopHolds, One
<1> QED BY <1>0, <1>1, PromiseKept DEF LoopInv, Plain, IoContexts

\* The invariant implies the promise.
LEMMA TrampKeeps == ASSUME TrampInv, which = "trampoline_scheduler" PROVE Promise
<1>0. /\ op \in [Ops -> Operation] /\ ctx.head_ \in Seq(Ops)
      /\ ctx.frames \in Seq(Ops) /\ ctx.recursionDepth_ \in Nat /\ ctx.maxRecursionDepth_ \in Nat
  BY DEF TrampInv, TrampCtx
<1>1. ASSUME NEW o \in Ops
      PROVE  References(o) = One(op[o].life = "started")
  <2>1. References(o) = Trampolines!References(o)
    BY DEF TrampInv, References
  <2>2. Trampolines!References(o) = Trampolines!Times(ctx.head_, o)
    BY DEF Trampolines!References
  <2>3. \A T : Trampolines!Cardinality(T) = Cardinality(T)
    BY DEF Trampolines!Cardinality, Cardinality
  <2>4. Trampolines!Times(ctx.head_, o) = One(InList(ctx.head_, o))
    BY <1>0, <2>3, TimesOnce DEF TrampInv, Trampolines!Times, One
  <2> QED BY <2>1, <2>2, <2>4 DEF TrampInv, One
<1>2. SignalIsRight
  BY <1>0, SignalsRight DEF TrampInv, Plain
<1>3. HeldOnce
  BY <1>0, <1>1 DEF TrampInv, Plain, HeldOnce
<1>4. Len(ctx.frames) <= ctx.maxRecursionDepth_
  BY <1>0 DEF TrampInv
<1>5. WithinBounds
  BY <1>4 DEF WithinBounds, Trampolines!Bounded
<1> QED BY <1>2, <1>3, <1>5 DEF Promise

\* The invariant implies the promise.
LEMMA ThreadKeeps == ASSUME ThreadInv, which = "new_thread_context" PROVE Promise
<1>1. ASSUME NEW o \in Ops
      PROVE  References(o) = One(op[o].life = "started")
  <2>1. References(o) = Thread!References(o)
    BY DEF ThreadInv, References
  <2> QED BY <2>1 DEF Thread!References, Thread!One, One, ThreadInv
<1> QED BY <1>1, PromiseKept DEF ThreadInv, Plain, IoContexts

\* The invariant implies the promise.
LEMMA TimedKeeps == ASSUME TimedInv, which = "timed_single_thread_context" PROVE Promise
<1>0. op \in [Ops -> Operation] /\ ctx.head_ \in Seq(Ops)
  BY DEF TimedInv, TimedCtx
<1>1. ASSUME NEW o \in Ops
      PROVE  References(o) = One(op[o].life = "started")
  <2>1. References(o) = Timed!References(o)
    BY DEF TimedInv, References
  <2>2. Timed!References(o) = One(op[o].start \in {"construct", "enqueue"}) + One(op[o].stop = "requeue")
                              + Timed!Times(ctx.head_, o) + One(ctx.task = <<o>>)
    BY DEF Timed!References, Timed!One, One
  <2>3. \A T : Timed!Cardinality(T) = Cardinality(T)
    BY DEF Timed!Cardinality, Cardinality
  <2>4. Timed!Times(ctx.head_, o) = One(InList(ctx.head_, o))
    BY <1>0, <2>3, TimesOnce DEF TimedInv, Timed!Times, One
  <2>5. TimedOp(op[o], InList(ctx.head_, o), ctx.task = <<o>>, ctx.now)
    BY DEF TimedInv
  <2> QED BY <2>1, <2>2, <2>4, <2>5 DEF TimedOp, One
<1> QED BY <1>0, <1>1, PromiseKept DEF TimedInv, TimedOp, IoContexts

\* The invariant implies the promise.
LEMMA UnsafeKeeps == ASSUME UnsafeInv, which = "thread_unsafe_event_loop" PROVE Promise
<1>0. op \in [Ops -> Operation] /\ ctx.head_ \in Seq(Ops)
  BY DEF UnsafeInv, UnsafeCtx
<1>1. ASSUME NEW o \in Ops
      PROVE  References(o) = One(op[o].life = "started")
  <2>1. References(o) = Unsafe!References(o)
    BY DEF UnsafeInv, References
  <2>2. Unsafe!References(o) = Unsafe!Times(ctx.head_, o) + One(ctx.item = <<o>>)
    BY DEF Unsafe!References, Unsafe!One, One
  <2>3. \A T : Unsafe!Cardinality(T) = Cardinality(T)
    BY DEF Unsafe!Cardinality, Cardinality
  <2>4. Unsafe!Times(ctx.head_, o) = One(InList(ctx.head_, o))
    BY <1>0, <2>3, TimesOnce DEF UnsafeInv, Unsafe!Times, One
  <2>5. UnsafeOp(op[o], InList(ctx.head_, o), ctx.item = <<o>>, ctx.now)
    BY DEF UnsafeInv
  <2> QED BY <2>1, <2>2, <2>4, <2>5 DEF UnsafeOp, One
<1> QED BY <1>0, <1>1, PromiseKept DEF UnsafeInv, UnsafeOp, IoContexts

\* The invariant implies the promise.
LEMMA PoolKeeps == ASSUME PoolInv, which = "static_thread_pool" PROVE Promise
<1>0. op \in [Ops -> Operation] /\ ctx.queue_ \in PoolQueues /\ ctx.task \in [Workers -> Tasks]
  BY DEF PoolInv, PoolCtx
<1>1. ASSUME NEW o \in Ops
      PROVE  References(o) = One(op[o].life = "started")
  <2> DEFINE places == {p \in Pool!Places : ctx.queue_[p[1]][p[2]] = o}
  <2>1. References(o) = Pool!References(o)
    BY DEF PoolInv, References
  <2>2. \A T : Pool!Cardinality(T) = Cardinality(T)
    BY DEF Pool!Cardinality, Cardinality
  <2>3. Pool!References(o) = One(op[o].start \in Pushes) + Cardinality(places)
                             + Cardinality({w \in Workers : ctx.task[w] = <<o>>})
    BY <2>2 DEF Pool!References, Pool!One, One, Pushes
  <2>4. \A p : p \in Pool!Places <=> \E q \in Workers : \E i \in DOMAIN ctx.queue_[q] : p = <<q, i>>
    BY DEF Pool!Places
  <2>5. ASSUME NEW x \in places, NEW y \in places
        PROVE  x = y
    <3>1. PICK q \in Workers : \E i \in DOMAIN ctx.queue_[q] : x = <<q, i>>
      BY <2>4
    <3>2. PICK i \in DOMAIN ctx.queue_[q] : x = <<q, i>>
      BY <3>1
    <3>3. PICK v \in Workers : \E j \in DOMAIN ctx.queue_[v] : y = <<v, j>>
      BY <2>4
    <3>4. PICK j \in DOMAIN ctx.queue_[v] : y = <<v, j>>
      BY <3>3
    <3>5. ctx.queue_[q][i] = o /\ ctx.queue_[v][j] = o
      BY <3>2, <3>4
    <3>6. q = v
      BY <3>5 DEF PoolInv, OneQueue, InList
    <3>7. i = j
      BY <3>5, <3>6 DEF PoolInv, OneQueue, Once
    <3> QED BY <3>2, <3>4, <3>6, <3>7
  <2>6. places # {} <=> Queued(ctx.queue_, o)
    <3>1. ASSUME Queued(ctx.queue_, o)
          PROVE  places # {}
      <4>1. PICK q \in Workers : \E i \in DOMAIN ctx.queue_[q] : ctx.queue_[q][i] = o
        BY <3>1 DEF Queued, InList
      <4>2. PICK i \in DOMAIN ctx.queue_[q] : ctx.queue_[q][i] = o
        BY <4>1
      <4>3. <<q, i>> \in Pool!Places
        BY <2>4
      <4>4. <<q, i>> \in places
        BY <4>2, <4>3
      <4> QED BY <4>4
    <3>2. ASSUME places # {}
          PROVE  Queued(ctx.queue_, o)
      <4>1. PICK p : p \in places
        BY <3>2
      <4>2. PICK q \in Workers : \E i \in DOMAIN ctx.queue_[q] : p = <<q, i>>
        BY <2>4, <4>1
      <4>3. PICK i \in DOMAIN ctx.queue_[q] : p = <<q, i>>
        BY <4>2
      <4>4. ctx.queue_[q][i] = o
        BY <4>1, <4>3
      <4> QED BY <4>4 DEF Queued, InList
    <3> QED BY <3>1, <3>2
  <2> HIDE DEF places
  <2>7. Cardinality(places) = One(Queued(ctx.queue_, o))
    BY <2>5, <2>6, AtMostOne DEF One
  <2>8. Cardinality({w \in Workers : ctx.task[w] = <<o>>}) = One(InTask(ctx.task, o))
    BY <1>0, TaskTimes DEF PoolInv
  <2>9. PoolOp(op[o], Queued(ctx.queue_, o), InTask(ctx.task, o))
    BY DEF PoolInv
  <2> QED BY <2>1, <2>3, <2>7, <2>8, <2>9 DEF PoolOp, One
<1> QED BY <1>0, <1>1, PromiseKept DEF PoolInv, PoolOp, Plain, IoContexts

\* The invariant implies the promise.
LEMMA WinKeeps == ASSUME WinInv, which = "windows_thread_pool" PROVE Promise
<1>1. ASSUME NEW o \in IoOps
      PROVE  /\ References(o) = One(op[o].life = "started") /\ Windows!StateIsKept(o)
             /\ op[o].life = "completed" => op[o].cb = "none"
  <2> DEFINE st == ctx.state_[o]
             mem == ctx.memory[o]
             work == ctx.work[o]
  <2>1. References(o) = Windows!References(o)
    BY DEF References
  <2>2. Windows!References(o) = One(op[o].start \in {"check", "construct", "submit", "cancel", "destruct"})
          + One(op[o].start = "submitted" /\ "stop_requested" \in st) + One(work = "queued" /\ "stop_requested" \notin st)
          + One(work \in {"deregister", "registered", "running"}) + One(op[o].stop = "cancel")
    BY DEF Windows!References, Windows!One, One
  <2>3. WinPhase(ctx.now, o \in StopOps, op[o], st, mem, work)
    BY DEF WinInv, WinOp
  <2>4. Windows!StateIsKept(o) <=> /\ op[o].start = "submitted" => mem # "freed"
                                   /\ op[o].life = "completed" /\ op[o].start = "returned" => mem = "freed"
    BY DEF Windows!StateIsKept
  <2> HIDE DEF st, mem, work
  <2>5. CASE WinIdle(op[o], st, mem, work)
    BY <2>1, <2>2, <2>4, <2>5 DEF WinIdle, NoCallback, One
  <2>6. CASE WinPending(o \in StopOps, op[o], st, mem, work)
    BY <2>1, <2>2, <2>4, <2>6 DEF WinPending, NoCallback, CallbackSet, CallbackRuns, One
  <2>7. CASE WinCompleted(op[o], st, mem, work)
    BY <2>1, <2>2, <2>4, <2>7 DEF WinCompleted, NoCallback, One
  <2>8. CASE WinCheck(op[o], st, mem, work)
    BY <2>1, <2>2, <2>4, <2>8 DEF WinCheck, NoCallback, One
  <2>9. CASE WinSubmit(op[o], st, mem, work)
    BY <2>1, <2>2, <2>4, <2>9 DEF WinSubmit, CallbackSet, CallbackRuns, CallbackOver, One
  <2>10. CASE WinStopping(op[o], st, mem, work)
    BY <2>1, <2>2, <2>4, <2>10 DEF WinStopping, CallbackOver, One
  <2>11. CASE WinRuns(ctx.now, op[o], st, mem, work)
    BY <2>1, <2>2, <2>4, <2>11 DEF WinRuns, NoCallback, CallbackSet, CallbackRuns, CallbackOver, One
  <2> QED BY <2>3, <2>5, <2>6, <2>7, <2>8, <2>9, <2>10, <2>11 DEF WinPhase
<1>2. op \in [IoOps -> Operation] /\ \A o \in IoOps : Signalled(op[o]) /\ (op[o].signals = <<"value">> => op[o].due <= ctx.now)
  BY DEF WinInv, WinOp
<1>3. SignalIsRight
  BY <1>2, SignalsRight
<1>4. HeldOnce
  BY <1>1, <1>2 DEF HeldOnce
<1> QED BY <1>3, <1>4 DEF Promise, WithinBounds

\* An item is queued as often as the queues that hold it.
LEMMA EpTimes ==
  ASSUME EpollInv, NEW item \in EpItems
  PROVE  Epoll!Queued(item) = One(EpQueued(ctx, item))
<1>1. /\ ctx.localQueue_ \in Seq(EpItems) /\ ctx.batch \in Seq(EpItems)
      /\ ctx.remoteQueue_ \in Seq(EpItems) \cup {EpInactive} /\ EpLists(ctx)
  BY DEF EpollInv, EpollCtx
<1>2. \A list : Epoll!Times(list, item) = Cardinality({i \in DOMAIN list : list[i] = item})
  <2>1. \A T : Epoll!Cardinality(T) = Cardinality(T)
    BY DEF Epoll!Cardinality, Cardinality
  <2> QED BY <2>1 DEF Epoll!Times
<1>3. Epoll!Times(ctx.localQueue_, item) = One(InList(ctx.localQueue_, item))
  BY <1>1, <1>2, TimesOnce DEF EpLists, One
<1>4. Epoll!Times(ctx.batch, item) = One(InBatch(ctx, item))
  BY <1>1, <1>2, TimesOnce DEF EpLists, One, InBatch
<1>5. Epoll!Times(ctx.remoteQueue_, item) = One(InList(Pending(ctx.remoteQueue_), item))
  <2>1. CASE ctx.remoteQueue_ # EpInactive
    BY <1>1, <1>2, <2>1, TimesOnce DEF EpLists, One, Pending
  <2>2. CASE ctx.remoteQueue_ = EpInactive
    <3>1. ~InList(EpInactive, item) /\ Once(EpInactive) /\ EpInactive \in Seq({EpInactive[1]})
      BY EpItemFacts DEF InList, Once, EpInactive
    <3>2. ~InList(<<>>, item)
      BY DEF InList
    <3>3. Epoll!Times(EpInactive, item) = 0
      BY <1>2, <3>1, TimesOnce
    <3> QED BY <2>2, <3>2, <3>3 DEF Pending, One
  <2> QED BY <2>1, <2>2
<1>6. /\ ~(InBatch(ctx, item) /\ InList(ctx.localQueue_, item))
      /\ ~(InBatch(ctx, item) /\ InList(Pending(ctx.remoteQueue_), item))
      /\ ~(InList(ctx.localQueue_, item) /\ InList(Pending(ctx.remoteQueue_), item))
  BY <1>1 DEF EpLists, Behind
<1>7. Epoll!Queued(item) = Epoll!Times(ctx.localQueue_, item) + Epoll!Times(ctx.batch, item)
                           + Epoll!Times(ctx.remoteQueue_, item)
  BY DEF Epoll!Queued
<1> QED BY <1>3, <1>4, <1>5, <1>6, <1>7 DEF EpQueued, Behind, One

\* The invariant implies the promise.
LEMMA EpKeeps == ASSUME EpollInv, which = "io_epoll_context" PROVE Promise
<1>1. ASSUME NEW o \in IoOps
      PROVE  /\ References(o) = One(op[o].life = "started")
             /\ op[o].life = "completed" => op[o].cb = "none" \/ KeepsCallback(o)
  <2> DEFINE x == ctx.execute_[o]
             e == o \in ctx.elapsed
             p == o \in ctx.cancelPending
             g == o \in ctx.registered
             t == InList(ctx.timers_, o)
             b == InBatch(ctx, EpOp(o))
             q == Behind(ctx, EpOp(o))
             d == EpQueued(ctx, EpDoneOp(o))
             n == One(b \/ q)
             m == One(d)
  <2>1. References(o) = Epoll!References(o)
    BY DEF References
  <2>2. Epoll!Queued(EpOp(o)) = n /\ Epoll!Queued(EpDoneOp(o)) = m
    BY EpItemFacts, EpTimes DEF EpQueued
  <2>3. o \in Items(ctx.timers_) <=> t
    BY DEF Items, InList
  <2>4. Epoll!References(o) =
          IF op[o].kind = "read" /\ op[o].life = "started" /\ p
          THEN m + One(op[o].stop \in {"deregister", "enqueue"})
          ELSE n + m + One(g /\ n = 0) + One(x = "start_io" /\ op[o].cb # "none") + One(op[o].stop = "enqueue") + One(t /\ ~(op[o].life = "started" /\ p))
    <3>1. Epoll!Op(o) = EpOp(o) /\ Epoll!DoneOp(o) = EpDoneOp(o) /\ \A list : Epoll!Items(list) = Items(list)
      BY EpSameItems, EpSameLoops
    <3> HIDE DEF n, m, t
    <3> QED BY <2>2, <2>3, <3>1 DEF Epoll!References, Epoll!Registering, Epoll!Taken, Epoll!One, One
  <2>5. EpPhase(op[o], x, e, p, g, t, b, q, d)
    BY DEF EpollInv, EpAt
  <2>6. KeepsCallback(o) <=> op[o].kind = "read"
    BY DEF KeepsCallback
  <2>7. op[o] \in Operation
    BY DEF EpollInv
  <2> HIDE DEF x, e, p, g, t, b, q, d
  <2>8. CASE EpIdle(op[o], x, e, p, g, t, b, q, d)
    BY <2>1, <2>4, <2>8 DEF EpIdle, One
  <2>9. CASE EpStarts(op[o], x, e, p, g, t, b, q, d)
    BY <2>1, <2>4, <2>9 DEF EpStarts, One
  <2>10. CASE EpTimer(op[o], x, e, p, g, t, b, q, d)
    BY <2>1, <2>4, <2>10 DEF EpTimer, One
  <2>11. CASE EpLeaves(op[o], x, e, p, g, t, b, q, d)
    BY <2>1, <2>4, <2>11 DEF EpLeaves, Wakening, CallbackOut, NoCall, One
  <2>12. CASE EpReads(op[o], x, e, p, g, t, b, q, d)
    BY <2>1, <2>4, <2>12 DEF EpReads, One
  <2>13. CASE EpStops(op[o], x, e, p, g, t, b, q, d)
    BY <2>1, <2>4, <2>13 DEF EpStops, Wakening, CallbackOut, NoCall, One
  <2>14. CASE EpOver(op[o], x, e, p, g, t, b, q, d)
    BY <2>1, <2>4, <2>6, <2>14 DEF EpOver, Wakening, CallbackOut, NoCall, One
  <2> QED BY <2>5, <2>8, <2>9, <2>10, <2>11, <2>12, <2>13, <2>14 DEF EpPhase
<1>2. op \in [IoOps -> Operation] /\ \A o \in IoOps : EpGood(op[o], o \in ctx.elapsed, ctx.now)
  BY DEF EpollInv, EpAt
<1>3. SignalIsRight
  BY <1>2, SignalsRight DEF EpGood
<1>4. HeldOnce
  BY <1>1, <1>2 DEF HeldOnce
<1> QED BY <1>3, <1>4 DEF Promise, WithinBounds

-----------------------------------------------------------------------------
\* The invariant of every context that the theorems are about.
IInv ==
  \/ which = "manual_event_loop" /\ LoopInv
  \/ which = "static_thread_pool" /\ PoolInv
  \/ which = "timed_single_thread_context" /\ TimedInv
  \/ which = "thread_unsafe_event_loop" /\ UnsafeInv
  \/ which = "new_thread_context" /\ ThreadInv
  \/ which = "trampoline_scheduler" /\ TrampInv
  \/ which = "windows_thread_pool" /\ WinInv
  \/ which = "io_epoll_context" /\ EpollInv
  \/ ~Covered

\* The initial states.
LEMMA IInvInit == ASSUME Init PROVE IInv
<1>1. CASE EventLoop!Init
  BY <1>1, LoopStarts DEF IInv, EventLoop!Init
<1>2. CASE Pool!Init
  BY <1>2, PoolStarts DEF IInv, Pool!Init
<1>3. CASE Timed!Init
  BY <1>3, TimedStarts DEF IInv, Timed!Init
<1>4. CASE Unsafe!Init
  BY <1>4, UnsafeStarts DEF IInv, Unsafe!Init
<1>5. CASE Thread!Init
  BY <1>5, ThreadStarts DEF IInv, Thread!Init
<1>6. CASE Trampolines!Init
  BY <1>6, TrampInit DEF IInv, Trampolines!Init
<1>7. CASE Uring!Init
  BY <1>7 DEF IInv, Covered, Uring!Init
<1>8. CASE Epoll!Init
  BY <1>8, EpInit DEF IInv, Epoll!Init
<1>9. CASE Windows!Init
  BY <1>9, WinStarts DEF IInv, Windows!Init
<1> QED BY <1>1, <1>2, <1>3, <1>4, <1>5, <1>6, <1>7, <1>8, <1>9 DEF Init
\* A context stays what it is.
LEMMA LoopIsFixed == ASSUME EventLoop!Next PROVE which = "manual_event_loop" /\ which' = which
BY Zenon DEF EventLoop!Next, EventLoop!System, EventLoop!User, EventLoop!start, EventLoop!run, EventLoop!execute_impl,
       EventLoop!UserCodeReturns, EventLoop!stop, EventLoop!Join, EventLoop!RequestStop

LEMMA PoolIsFixed == ASSUME Pool!Next PROVE which = "static_thread_pool" /\ which' = which
<1>1. /\ \A o \in Ops : Pool!start(o) \/ Pool!try_push(o) \/ Pool!push(o) \/ Pool!push_back(o) \/ Pool!RequestStop(o)
                        => which' = which
      /\ \A w \in Workers : Pool!try_pop(w) \/ Pool!try_pop_locked(w) \/ Pool!pop(w) \/ Pool!execute(w)
                               \/ Pool!UserCodeReturns(w) => which' = which
      /\ Pool!request_stop \/ Pool!join => which' = which
  BY Zenon DEF Pool!start, Pool!try_push, Pool!push, Pool!push_back, Pool!try_pop, Pool!try_pop_locked, Pool!pop,
         Pool!execute, Pool!UserCodeReturns, Pool!request_stop, Pool!join, Pool!RequestStop
<1> QED BY <1>1 DEF Pool!Next, Pool!System, Pool!User

LEMMA TimedIsFixed == ASSUME Timed!Next PROVE which = "timed_single_thread_context" /\ which' = which
BY DEF Timed!Next, Timed!System, Timed!User, Timed!start, Timed!ConstructCallback, Timed!Enqueue, Timed!Cancel,
       Timed!Requeue, Timed!run, Timed!WakeUp, Timed!execute_impl, Timed!Tick, Timed!Destroy, Timed!Join, Timed!RequestStop

LEMMA UnsafeIsFixed == ASSUME Unsafe!Next PROVE which = "thread_unsafe_event_loop" /\ which' = which
BY DEF Unsafe!Next, Unsafe!System, Unsafe!User, Unsafe!start, Unsafe!run, Unsafe!UserCodeReturns, Unsafe!Loop,
       Unsafe!Sleep, Unsafe!execute_impl, Unsafe!Tick, Unsafe!Destroy, Unsafe!RequestStop

LEMMA ThreadIsFixed == ASSUME Thread!Next PROVE which = "new_thread_context" /\ which' = which
BY Zenon DEF Thread!Next, Thread!System, Thread!User, Thread!start, Thread!Count, Thread!run, Thread!retire_thread,
       Thread!JoinPrevious, Thread!Destroy, Thread!Wait, Thread!Join, Thread!RequestStop

LEMMA TrampIsFixed == ASSUME Trampolines!Next PROVE which = "trampoline_scheduler" /\ which' = which
BY Zenon DEF Trampolines!Next, Trampolines!System, Trampolines!User, Trampolines!start, Trampolines!UserCodeReturns,
       Trampolines!drain, Trampolines!RequestStop

LEMMA WinIsFixed == ASSUME Windows!Next PROVE which = "windows_thread_pool" /\ which' = which
BY Zenon DEF Windows!Next, Windows!System, Windows!User, Windows!start, Windows!CheckStop, Windows!ConstructCallback,
       Windows!Submit, Windows!SubmitComplete, Windows!work_callback, Windows!DeregisterCallback, Windows!MarkRunning,
       Windows!set_value_impl, Windows!RequestStop, Windows!request_stop, Windows!complete_with_done, Windows!Tick,
       Windows!Step

LEMMA UringIsFixed == ASSUME Uring!Next PROVE which = "io_uring_context" /\ which' = which
BY Zenon DEF Uring!Next, Uring!System, Uring!User, Uring!execute_pending_local, Uring!Finish, Uring!Poll,
       Uring!SubmitPending, Uring!io_uring_enter, Uring!Wake, Uring!UserCodeReturns, Uring!KernelCompletes,
       Uring!Tick, Uring!SignalStop, Uring!ReturnFromRun, Uring!RunAgain, Uring!SignalStart, Uring!StopFlag,
       Uring!StopEnqueue, Uring!StopSignal, Uring!StopRun, Uring!Destroy, Uring!start_remote, Uring!start_here,
       Uring!request_stop_remote, Uring!request_stop_here, Uring!Become

LEMMA EpollIsFixed == ASSUME Epoll!Next PROVE which = "io_epoll_context" /\ which' = which
BY Zenon DEF Epoll!Next, Epoll!System, Epoll!User, Epoll!execute_pending_local, Epoll!Poll,
       Epoll!acquire_completion_queue_items, Epoll!UserCodeReturns, Epoll!BecomesReady, Epoll!epoll_ctl_add,
       Epoll!Tick, Epoll!SignalStop, Epoll!ReturnFromRun, Epoll!RunAgain, Epoll!signal_remote_queue, Epoll!StopFlag,
       Epoll!StopDeregister, Epoll!StopEnqueue, Epoll!StopSignal, Epoll!StopRun, Epoll!Destroy, Epoll!start_remote,
       Epoll!start_here, Epoll!request_stop_remote, Epoll!request_stop_here, Epoll!Become

\* Every step keeps the invariant.
LEMMA IInvNext == ASSUME IInv, [Next]_vars PROVE IInv'
<1>1. CASE ~Covered
  <2>1. which' = which
    BY LoopIsFixed, PoolIsFixed, TimedIsFixed, UnsafeIsFixed, ThreadIsFixed, TrampIsFixed, UringIsFixed,
       EpollIsFixed, WinIsFixed DEF Next, vars
  <2> QED BY <1>1, <2>1 DEF IInv, Covered
<1>2. CASE Covered
  <2>1. CASE EventLoop!Next
    BY <1>2, <2>1, LoopIsFixed, LoopNext DEF IInv
  <2>2. CASE Pool!Next
    <3>1. which = "static_thread_pool" /\ which' = which
      BY <2>2, PoolIsFixed
    <3>2. PoolInv
      BY <1>2, <3>1 DEF IInv
    <3>3. PoolInv'
      BY <2>2, <3>2, PoolNext
    <3> QED BY <3>1, <3>3 DEF IInv
  <2>3. CASE Timed!Next
    BY <1>2, <2>3, TimedIsFixed, TimedNext DEF IInv
  <2>4. CASE Unsafe!Next
    BY <1>2, <2>4, UnsafeIsFixed, UnsafeNext DEF IInv
  <2>5. CASE Thread!Next
    BY <1>2, <2>5, ThreadIsFixed, ThreadNext DEF IInv
  <2>6. CASE Trampolines!Next
    BY <1>2, <2>6, TrampIsFixed, TrampNext DEF IInv
  <2>7. CASE Uring!Next
    BY <1>2, <2>7, UringIsFixed DEF Covered
  <2>8. CASE Epoll!Next
    <3>1. which = "io_epoll_context" /\ which' = which
      BY <2>8, EpollIsFixed
    <3>2. EpollInv /\ ~EarlyStop /\ ~AddFails
      BY <1>2, <3>1 DEF IInv, Covered
    <3>3. EpollInv'
      BY <2>8, <3>2, EpNext, ContextsAssumption
    <3> QED BY <3>1, <3>3 DEF IInv
  <2>9. CASE Windows!Next
    BY <1>2, <2>9, WinIsFixed, WinNext DEF IInv
  <2>10. CASE UNCHANGED vars
    <3>1. which' = which /\ op' = op /\ ctx' = ctx
      BY <2>10 DEF vars
    <3>2. (LoopInv => LoopInv') /\ (PoolInv => PoolInv') /\ (TimedInv => TimedInv') /\ (UnsafeInv => UnsafeInv')
      BY <3>1 DEF LoopInv, PoolInv, TimedInv, UnsafeInv
    <3>3. (ThreadInv => ThreadInv') /\ (TrampInv => TrampInv') /\ (WinInv => WinInv') /\ (EpollInv => EpollInv')
      BY <3>1 DEF ThreadInv, TrampInv, WinInv, EpollInv
    <3> QED BY <1>2, <3>1, <3>2, <3>3 DEF IInv
  <2> QED BY <2>1, <2>2, <2>3, <2>4, <2>5, <2>6, <2>7, <2>8, <2>9, <2>10 DEF Next
<1> QED BY <1>1, <1>2

\* The invariant implies the promise.
LEMMA IInvKeeps == ASSUME IInv, Covered PROVE Promise
BY LoopKeeps, PoolKeeps, TimedKeeps, UnsafeKeeps, ThreadKeeps, TrampKeeps, WinKeeps, EpKeeps DEF IInv

\* The invariant of the contexts is inductive: every critical section and
\* every atomic access of start(), run() and the stop callbacks keeps it.
THEOREM Inductive == Spec => []IInv
<1>1. Init => IInv
  BY IInvInit
<1>2. IInv /\ [Next]_vars => IInv'
  BY IInvNext
<1> QED BY <1>1, <1>2, PTL DEF Spec

\* From start() to its completion exactly one place refers to an operation
\* - the list of the context, the thread that runs it, or whoever is about
\* to link it - and afterwards none; its stop callback is destroyed then
\* (but for a read of io_epoll_context), and the state of a Windows
\* operation is freed once, by the last user.  Covered says of which
\* contexts: see the head of the module.
THEOREM HeldOnceHolds == Spec => [](Covered => HeldOnce)
<1>1. IInv => (Covered => HeldOnce)
  BY IInvKeeps DEF Promise
<1> QED BY <1>1, Inductive, PTL

\* execute_impl(), set_value_impl() and complete_with_done() complete an
\* operation once, with done only if its stop was requested, and with a
\* value, if it is a timed one, not before it is due.
THEOREM SignalIsRightHolds == Spec => [](Covered => SignalIsRight)
<1>1. IInv => (Covered => SignalIsRight)
  BY IInvKeeps DEF Promise
<1> QED BY <1>1, Inductive, PTL

\* trampoline_scheduler never runs more than maxRecursionDepth_ operations
\* inside each other.
THEOREM WithinBoundsHolds == Spec => [](which # "io_uring_context" => WithinBounds)
<1>1. IInv => (which # "io_uring_context" => WithinBounds)
  BY IInvKeeps DEF Promise, WithinBounds, Covered
<1> QED BY <1>1, Inductive, PTL
====
