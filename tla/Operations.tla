----------------------------- MODULE Operations -----------------------------
(***************************************************************************)
(* What the handlers of an operation state mean when its children, its     *)
(* receiver and a stop request act on it from several threads.  One        *)
(* behaviour is the life of one operation (or of one stream: a series of   *)
(* next() operations and a cleanup()) of the adaptor `kind': connect,      *)
(* start, the completions of the children it starts, in line or on another *)
(* thread, with any signal they may send, exceptions of user code, a stop  *)
(* request at any moment, the completion of the receiver, and the          *)
(* destruction of the operation state, which the receiver may do as soon   *)
(* as it has been completed.                                               *)
(***************************************************************************)
EXTENDS Programs, FiniteSets

CONSTANTS Kinds,        \* the adaptors that are run
          Throwing,     \* those whose receiver's set_value may throw
          ByReference,  \* those whose children pass references into their state
          Strict,       \* those in which a destroyed object's members may not be read at all
          StopInStart,  \* those that may be asked to stop while start() runs
          Claiming,     \* those whose declared sends_done and blocking are checked
          InlineStop,   \* those whose children may complete inside request_stop()
          Threads,      \* the threads, 1..n
          MaxStarts     \* how often one operation starts its children, at most

ASSUME OperationsAssumption ==
  /\ Kinds \subseteq DOMAIN Program
  /\ Throwing \cup ByReference \cup Claiming \cup InlineStop \cup Strict \cup StopInStart \subseteq DOMAIN Program
  /\ MaxStarts \in Nat

VARIABLES kind,      \* the adaptor (never changes)
          child,     \* what its children are like (never changes)
          entry,     \* the operation being used: "none", "op", "next", "cleanup"
          phase,     \* "idle", "connected", "started", "destroying"
          stage,     \* how far the use of a stream has come
          live,      \* the objects that are alive
          running,   \* the children that were started and have not completed
          stacks,    \* each thread's frames, the innermost first
          flag,      \* the members of the operation state
          lock,      \* who holds its recursive lock, and how often
          outcome,   \* the signal the receiver got, or "none"
          where,     \* whether it got it inside start() ("inline") or not
          last,      \* the last signal of each child
          threw,     \* whether an exception was thrown
          registered,\* the stop callbacks, each with its source
          stopped,   \* the stop sources that were requested to stop
          starts     \* children started so far

vars == <<kind, child, entry, phase, stage, live, running, stacks, flag, lock, outcome, where,
          last, threw, registered, stopped, starts>>
rigid == <<kind, child>>
noLock == [owner |-> 0, depth |-> 0]

-----------------------------------------------------------------------------
Signals == {"value", "error", "done"}
Children == DOMAIN child
Handler(who, ev) == Program[kind][who][ev]
IsStream == "next" \in DOMAIN Program[kind]

(* The object the flags and stop sources are members of.                   *)
Home == IF Shape(kind).home = "entry" THEN entry ELSE Shape(kind).home

Frame(who, ev, rest) == [who |-> who, ev |-> ev, rest |-> rest]
Top(t) == Head(stacks[t])
Busy(t) == stacks[t] # <<>>
Idle == {t \in Threads : ~Busy(t)}
NextThread == CHOOSE t \in Idle : \A u \in Idle : t <= u
OnStack(t, who, ev) == \E i \in DOMAIN stacks[t] : stacks[t][i].who = who /\ stacks[t][i].ev = ev
Somewhere(who, ev) == \E t \in Threads : OnStack(t, who, ev)

(* The effect thread t is about to execute.                                *)
AtEffect(t, do) == Busy(t) /\ Top(t).rest # <<>> /\ Head(Top(t).rest).do = do
Doing(t) == Head(Top(t).rest)
Rest(t) == Tail(Top(t).rest)

(* Thread t goes on with rest, and leaves the handler at its end; calls a  *)
(* handler and then goes on with rest.                                     *)
Goto(t, rest) ==
  stacks' = [stacks EXCEPT ![t] =
    IF rest = <<>> /\ Top(t).ev # "dtor" THEN Tail(@) ELSE <<[Top(t) EXCEPT !.rest = rest]>> \o Tail(@)]
CallThen(t, f, rest) == stacks' = [stacks EXCEPT ![t] = <<f, [Top(t) EXCEPT !.rest = rest]>> \o Tail(@)]
Enter(f) == Idle # {} /\ stacks' = [stacks EXCEPT ![NextThread] = <<f>>]

-----------------------------------------------------------------------------
(* The children.  A claiming adaptor is run with children of every kind it *)
(* can be given; the others with children that may be patient, that is     *)
(* complete only once their stop token asks them to.                       *)
ChildKinds(k) ==
  IF k \in Claiming
  THEN {d \in [done : BOOLEAN, blocking : always_inline .. never, patient : {FALSE}] :
          d.done \/ d.blocking = maybe}
  ELSE [done : {TRUE}, blocking : {maybe}, patient : BOOLEAN]

Token(c) == Shape(kind).tokens[c]
MayComplete(c) == child[c].patient => Token(c) \in stopped
SignalsOf(c) ==
  IF starts > MaxStarts THEN {"done"}
  ELSE {s \in Signals \cap DOMAIN Program[kind][c] : s = "done" => child[c].done}
Completion(c, sig) == Frame(c, sig, Handler(c, sig))

Init ==
  /\ kind \in Kinds
  /\ child \in [DOMAIN Shape(kind).tokens -> ChildKinds(kind)]
  /\ \A c \in Children : child[c].patient => c \in Shape(kind).patient
  /\ \A c, d \in Shape(kind).same : child[c] = child[d]
  /\ entry = "none" /\ phase = "idle" /\ stage = "fresh"
  /\ live = IF IsStream THEN {"stream"} \cup Shape(kind).initially ELSE {}
  /\ running = {}
  /\ stacks = [t \in Threads |-> <<>>]
  /\ flag = Shape(kind).flags /\ lock = noLock
  /\ outcome = "none" /\ where = "none"
  /\ last = [c \in Children |-> "none"]
  /\ threw = FALSE
  /\ registered = {} /\ stopped = {} /\ starts = 0

-----------------------------------------------------------------------------
(* The consumer: the code that connects, starts and destroys the operation.*)
Connectable ==
  IF IsStream
  THEN (IF stage \in {"fresh", "open"} /\ starts < MaxStarts THEN {"next"} ELSE {}) \cup
       (IF stage \in {"open", "ended"} THEN {"cleanup"} ELSE {})
  ELSE IF stage = "fresh" THEN {"op"} ELSE {}

Connect ==
  /\ phase = "idle"
  /\ \E e \in Connectable :
       /\ Enter(Frame(e, "ctor", Handler(e, "ctor")))
       /\ entry' = e
       /\ live' = live \cup {e}
  /\ phase' = "connected" /\ outcome' = "none" /\ where' = "none"
  /\ starts' = IF IsStream THEN starts + 1 ELSE starts
  /\ threw' = FALSE
  /\ UNCHANGED <<rigid, lock, stage, running, flag, last, registered, stopped>>

StartOperation ==
  /\ phase = "connected" /\ ~Somewhere(entry, "ctor")
  /\ kind \notin StopInStart => \A s \in Shape(kind).stop : ~Somewhere(s, "stop")
  /\ Enter(Frame(entry, "start", Handler(entry, "start")))
  /\ phase' = "started"
  /\ UNCHANGED <<rigid, lock, entry, stage, live, running, flag, outcome, where, last, threw,
                 registered, stopped, starts>>

(* An operation may be dropped before it is started, or once it completed. *)
MayDestroy ==
  \/ phase = "connected" /\ ~Somewhere(entry, "ctor") /\ ~IsStream /\ ~Shape(kind).eager
  \/ phase = "started" /\ outcome # "none"
Destructor == Frame(entry, "dtor", Handler(entry, "dtor"))

Destroy ==
  /\ MayDestroy
  /\ Enter(Destructor)
  /\ phase' = "destroying"
  /\ UNCHANGED <<rigid, lock, entry, stage, live, running, flag, outcome, where, last, threw,
                 registered, stopped, starts>>

DestroyStream ==
  /\ phase = "idle" /\ stage = "cleaned"
  /\ Enter(Frame("stream", "dtor", Handler("stream", "dtor")))
  /\ phase' = "destroying"
  /\ UNCHANGED <<rigid, lock, entry, stage, live, running, flag, outcome, where, last, threw,
                 registered, stopped, starts>>

(* The receiver's stop token, or another one the operation listens to, is  *)
(* triggered.                                                              *)
StopRequest ==
  /\ phase \in {"connected", "started"}
  /\ kind \notin StopInStart => ~Somewhere(entry, "start")
  /\ \E s \in Shape(kind).stop \ stopped :
       /\ ~Somewhere(s, "stop")
       /\ Enter(Frame(s, "stop", <<RequestStop(s)>>))
  /\ UNCHANGED <<rigid, lock, entry, phase, stage, live, running, flag, outcome, where, last,
                 threw, registered, stopped, starts>>

(* A started child completes on a thread of its own.                       *)
ChildCompletes ==
  \E c \in running :
    /\ MayComplete(c)
    /\ running' = running \ {c}
    /\ \E sig \in SignalsOf(c) :
         /\ Enter(Completion(c, sig))
         /\ last' = [last EXCEPT ![c] = sig]
    /\ UNCHANGED <<rigid, lock, entry, phase, stage, live, flag, outcome, where, threw,
                   registered, stopped, starts>>

-----------------------------------------------------------------------------
(* The effects.                                                            *)
DoReturn(t) ==
  /\ AtEffect(t, "return")
  /\ Goto(t, <<>>)
  /\ UNCHANGED <<rigid, lock, entry, phase, stage, live, running, flag, outcome, where, last,
                 threw, registered, stopped, starts>>

(* The end of a handler; the memory of an operation goes with its          *)
(* destructor.                                                             *)
StageAfter ==
  IF entry = "next" THEN (IF outcome = "value" THEN "open" ELSE "ended")
  ELSE IF entry = "cleanup" THEN "cleaned"
  ELSE IF entry = "op" THEN "used" ELSE "gone"

Leave(t) ==
  /\ Busy(t) /\ Top(t).rest = <<>>
  /\ stacks' = [stacks EXCEPT ![t] = Tail(@)]
  /\ IF Top(t).ev = "dtor"
     THEN /\ live' = live \ {Top(t).who}
          /\ phase' = "idle" /\ entry' = "none" /\ stage' = StageAfter
     ELSE UNCHANGED <<live, phase, entry, stage>>
  /\ UNCHANGED <<rigid, lock, running, flag, outcome, where, last, threw, registered, stopped, starts>>

(* An exception leaves a handler.  Out of set_value it reaches the child   *)
(* that called it, which completes with set_error instead; out of set_next *)
(* it goes on through the caller; out of connect() it reaches the          *)
(* consumer, who has no operation then.                                    *)
MayThrow(f) == f.ev \in {"next", "ctor"} \/ (f.who \in Children /\ f.ev = "value")

DoThrow(t) ==
  /\ AtEffect(t, "throw") /\ MayThrow(Top(t))
  /\ LET f == Top(t) IN
       CASE f.ev = "value" ->
              /\ stacks' = [stacks EXCEPT ![t] =
                   <<Frame(f.who, "error", <<Use(f.who)>> \o Handler(f.who, "error"))>> \o Tail(@)]
              /\ UNCHANGED <<live, phase, entry, stage>>
         [] f.ev = "next" ->
              /\ stacks' = [stacks EXCEPT ![t] =
                   <<[@[2] EXCEPT !.rest = <<Throw>>]>> \o Tail(Tail(@))]
              /\ UNCHANGED <<live, phase, entry, stage>>
         [] f.ev = "ctor" ->
              /\ stacks' = [stacks EXCEPT ![t] = Tail(@)]
              /\ live' = live \ {f.who}
              /\ phase' = "idle" /\ entry' = "none"
              /\ stage' = CASE f.who = "next" -> "ended" [] f.who = "cleanup" -> "cleaned" [] OTHER -> "used"
  /\ UNCHANGED <<rigid, lock, running, flag, outcome, where, last, threw, registered, stopped, starts>>

(* std::terminate() ends the program.                                      *)
DoTerminate(t) ==
  /\ AtEffect(t, "terminate")
  /\ stacks' = [u \in Threads |-> <<>>]
  /\ live' = {} /\ running' = {} /\ registered' = {}
  /\ phase' = "idle" /\ entry' = "none" /\ stage' = "terminated" /\ outcome' = "terminated"
  /\ UNCHANGED <<rigid, lock, flag, where, last, threw, stopped, starts>>

DoCall(t) ==
  /\ AtEffect(t, "call")
  /\ CallThen(t, Frame(Doing(t).x, Doing(t).v, Handler(Doing(t).x, Doing(t).v)), Rest(t))
  /\ UNCHANGED <<rigid, lock, entry, phase, stage, live, running, flag, outcome, where, last,
                 threw, registered, stopped, starts>>

DoNew(t) ==
  /\ AtEffect(t, "new") \/ AtEffect(t, "make")
  /\ live' = live \cup {Doing(t).x}
  /\ Goto(t, Rest(t))
  /\ UNCHANGED <<rigid, lock, entry, phase, stage, running, flag, outcome, where, last, threw,
                 registered, stopped, starts>>

(* A constructor or a user function throws.                                *)
DoFail(t) ==
  /\ AtEffect(t, "make") \/ AtEffect(t, "invoke")
  /\ threw' = TRUE
  /\ Goto(t, Doing(t).alt)
  /\ UNCHANGED <<rigid, lock, entry, phase, stage, live, running, flag, outcome, where, last,
                 registered, stopped, starts>>

DoSkip(t) ==
  /\ AtEffect(t, "invoke") \/ AtEffect(t, "use") \/ AtEffect(t, "recall")
  /\ Goto(t, Rest(t))
  /\ UNCHANGED <<rigid, lock, entry, phase, stage, live, running, flag, outcome, where, last,
                 threw, registered, stopped, starts>>

DoDel(t) ==
  /\ AtEffect(t, "del")
  /\ live' = live \ {Doing(t).x}
  /\ Goto(t, Rest(t))
  /\ UNCHANGED <<rigid, lock, entry, phase, stage, running, flag, outcome, where, last, threw,
                 registered, stopped, starts>>

(* start() of a child: it completes in line, or stays running; a child     *)
(* that always blocks holds start() back until it has completed.           *)
DoStart(t) ==
  /\ AtEffect(t, "start")
  /\ starts' = starts + 1
  /\ LET c == Doing(t).x IN
       \/ /\ child[c].blocking # never /\ MayComplete(c)
          /\ \E sig \in SignalsOf(c) :
               /\ CallThen(t, Completion(c, sig), Rest(t))
               /\ last' = [last EXCEPT ![c] = sig]
          /\ UNCHANGED running
       \/ /\ child[c].blocking # always_inline
          /\ running' = running \cup {c}
          /\ Goto(t, IF child[c].blocking = always THEN <<Join(c)>> \o Rest(t) ELSE Rest(t))
          /\ UNCHANGED last
  /\ UNCHANGED <<rigid, lock, entry, phase, stage, live, flag, outcome, where, threw, registered, stopped>>

DoJoin(t) ==
  /\ AtEffect(t, "join")
  /\ Doing(t).x \notin running
  /\ \A u \in Threads \ {t} : \A i \in DOMAIN stacks[u] : stacks[u][i].who # Doing(t).x
  /\ Goto(t, Rest(t))
  /\ UNCHANGED <<rigid, lock, entry, phase, stage, live, running, flag, outcome, where, last,
                 threw, registered, stopped, starts>>

(* The receiver is completed; it may destroy the operation before the call *)
(* returns.                                                                *)
DoDeliver(t) ==
  /\ AtEffect(t, "deliver")
  /\ outcome' = Doing(t).x
  /\ where' = IF OnStack(t, entry, "start") THEN "inline" ELSE "other"
  /\ \/ Goto(t, Rest(t)) /\ UNCHANGED phase
     \/ /\ phase = "started"
        /\ CallThen(t, Destructor, Rest(t))
        /\ phase' = "destroying"
  /\ UNCHANGED <<rigid, lock, entry, stage, live, running, flag, last, threw, registered, stopped, starts>>

(* The receiver's set_value throws: it has not been completed.             *)
DoDeliverFails(t) ==
  /\ AtEffect(t, "deliver") /\ Doing(t).x = "value" /\ kind \in Throwing
  /\ threw' = TRUE
  /\ Goto(t, Doing(t).alt)
  /\ UNCHANGED <<rigid, lock, entry, phase, stage, live, running, flag, outcome, where, last,
                 registered, stopped, starts>>

(* Members of the state.                                                   *)
Branch(t, cond) == Goto(t, (IF cond THEN Doing(t).then ELSE Doing(t).alt) \o Rest(t))
Less == [n \in {"1", "2", "3"} |-> CASE n = "1" -> "0" [] n = "2" -> "1" [] OTHER -> "2"]

DoTest(t) ==
  /\ \/ AtEffect(t, "if") /\ Branch(t, flag[Doing(t).x] = Doing(t).v)
     \/ AtEffect(t, "iflive") /\ Branch(t, Doing(t).x \in live)
     \/ AtEffect(t, "ifstopped") /\ Branch(t, Doing(t).x \in stopped)
     \/ AtEffect(t, "ifoutermost") /\ Branch(t, lock.depth = 1)
     \/ AtEffect(t, "either") /\ Branch(t, TRUE)
     \/ AtEffect(t, "either") /\ starts <= MaxStarts /\ Branch(t, FALSE)
     \/ AtEffect(t, "await") /\ flag[Doing(t).x] = Doing(t).v /\ Goto(t, Rest(t))
  /\ UNCHANGED <<rigid, lock, entry, phase, stage, live, running, flag, outcome, where, last,
                 threw, registered, stopped, starts>>

DoStore(t) ==
  /\ LET e == Doing(t) IN
     \/ /\ AtEffect(t, "set")
        /\ flag' = [flag EXCEPT ![e.x] = e.v]
        /\ Goto(t, Rest(t))
     \/ /\ AtEffect(t, "dec")
        /\ flag' = [flag EXCEPT ![e.x] = Less[@]]
        /\ Branch(t, flag[e.x] = "1")
     \/ /\ AtEffect(t, "cas") /\ flag[e.x] = e.v
        /\ flag' = [flag EXCEPT ![e.x] = Head(e.then).v]
        /\ Goto(t, Tail(e.then) \o Rest(t))
     \/ /\ AtEffect(t, "cas") /\ flag[e.x] # e.v
        /\ Goto(t, e.alt \o Rest(t))
        /\ UNCHANGED flag
  /\ UNCHANGED <<rigid, lock, entry, phase, stage, live, running, outcome, where, last, threw,
                 registered, stopped, starts>>

DoLock(t) ==
  /\ \/ /\ AtEffect(t, "lock") /\ lock.owner \in {0, t}
        /\ lock' = [owner |-> t, depth |-> lock.depth + 1]
     \/ /\ AtEffect(t, "unlock")
        /\ lock' = IF lock.depth = 1 THEN noLock ELSE [lock EXCEPT !.depth = @ - 1]
  /\ Goto(t, Rest(t))
  /\ UNCHANGED <<rigid, entry, phase, stage, live, running, flag, outcome, where, last,
                 threw, registered, stopped, starts>>

-----------------------------------------------------------------------------
(* Stop callbacks.                                                         *)
Callback(cb) == Frame(cb, "stop", Handler(cb, "stop"))

DoRegister(t) ==
  /\ AtEffect(t, "register")
  /\ LET cb == Doing(t).x  s == Doing(t).v IN
       /\ live' = live \cup {cb}
       /\ IF s \in stopped
          THEN CallThen(t, Callback(cb), Rest(t)) /\ UNCHANGED registered
          ELSE registered' = registered \cup {[cb |-> cb, source |-> s]} /\ Goto(t, Rest(t))
  /\ UNCHANGED <<rigid, lock, entry, phase, stage, running, flag, outcome, where, last, threw, stopped, starts>>

(* The destructor of a callback waits for it when another thread runs it.  *)
DoDeregister(t) ==
  /\ AtEffect(t, "deregister")
  /\ \A u \in Threads \ {t} : ~OnStack(u, Doing(t).x, "stop")
  /\ live' = live \ {Doing(t).x}
  /\ registered' = {r \in registered : r.cb # Doing(t).x}
  /\ Goto(t, Rest(t))
  /\ UNCHANGED <<rigid, lock, entry, phase, stage, running, flag, outcome, where, last, threw, stopped, starts>>

DoRequestStop(t) ==
  /\ AtEffect(t, "request")
  /\ LET s == Doing(t).x IN
       /\ stopped' = stopped \cup {s}
       /\ Goto(t, IF s \in stopped THEN Rest(t) ELSE <<RunCallbacks(s)>> \o Rest(t))
  /\ UNCHANGED <<rigid, lock, entry, phase, stage, live, running, flag, outcome, where, last,
                 threw, registered, starts>>

DoCallbacks(t) ==
  /\ AtEffect(t, "callbacks")
  /\ LET s == Doing(t).x IN
       \/ \E r \in registered :
            /\ r.source = s
            /\ registered' = registered \ {r}
            /\ CallThen(t, Callback(r.cb), Top(t).rest)
            /\ UNCHANGED <<running, last>>
       \/ /\ kind \in InlineStop
          /\ \E c \in running :
               /\ Token(c) = s
               /\ running' = running \ {c}
               /\ CallThen(t, Completion(c, "done"), Top(t).rest)
               /\ last' = [last EXCEPT ![c] = "done"]
          /\ UNCHANGED registered
       \/ /\ \A r \in registered : r.source # s
          /\ Goto(t, Rest(t))
          /\ UNCHANGED <<registered, running, last>>
  /\ UNCHANGED <<rigid, lock, entry, phase, stage, live, flag, outcome, where, threw, stopped, starts>>

-----------------------------------------------------------------------------
Step(t) ==
  \/ DoReturn(t) \/ Leave(t) \/ DoThrow(t) \/ DoTerminate(t) \/ DoCall(t)
  \/ DoNew(t) \/ DoFail(t) \/ DoSkip(t) \/ DoDel(t)
  \/ DoStart(t) \/ DoJoin(t) \/ DoDeliver(t) \/ DoDeliverFails(t)
  \/ DoTest(t) \/ DoStore(t) \/ DoLock(t)
  \/ DoRegister(t) \/ DoDeregister(t) \/ DoRequestStop(t) \/ DoCallbacks(t)

Next ==
  \/ Connect \/ StartOperation \/ Destroy \/ DestroyStream \/ StopRequest
  \/ ChildCompletes
  \/ \E t \in Threads : Step(t)

Spec == Init /\ [][Next]_vars

(* Threads run and children complete, unless they wait for a stop request. *)
FairSpec == Spec /\ WF_vars(ChildCompletes \/ \E t \in Threads : Step(t))

-----------------------------------------------------------------------------
(* What a step is about to touch.                                          *)
Conflicts(x) == UNION {u \in Shape(kind).unions : x \in u}

Safe(t) ==
  Busy(t) /\ Top(t).rest # <<>> =>
    LET e == Doing(t) IN
    /\ e.do \in {"new", "make"} => ({e.x} \cup Conflicts(e.x)) \cap live = {}
    /\ e.do \in {"new", "make"} => e.x = Home \/ Home \in live
    /\ e.do \in {"del", "start"} => e.x \in live \ running
    /\ e.do = "use" => e.x \in live
    /\ e.do = "recall" => e.x \in live \/ (kind \notin Strict /\ Home \in live)
    /\ e.do \in {"set", "if", "dec", "cas", "lock", "unlock"} => Home \in live
    /\ e.do # "abort"
    /\ e.do = "deliver" => /\ entry \in live
                           /\ kind \in ByReference /\ e.v # "" => e.v \in live
    /\ e.do = "register" => e.x \notin live /\ Home \in live
    /\ e.do = "deregister" => e.x \in live
    /\ e.do \in {"request", "callbacks"} => e.x \in Shape(kind).stop \/ Home \in live
    /\ e.do = "throw" => MayThrow(Top(t))

(* No handler touches an object outside its lifetime: nothing is built     *)
(* over a live member of the same union, destroyed twice, destroyed while  *)
(* it runs, or used after the receiver may have destroyed the operation    *)
(* state; no exception leaves a function that must not throw.              *)
NoDanglingAccess == running \subseteq live /\ \A t \in Threads : Safe(t)

(* The receiver is completed at most once.                                 *)
CompletesOnce == \A t \in Threads : AtEffect(t, "deliver") => outcome = "none"

(* When the operation (or the stream) is gone and nothing runs, every      *)
(* object the handlers constructed by hand has been destroyed.             *)
NothingLeaks ==
  phase = "idle" /\ stage \in {"used", "gone"} /\ running = {} /\ Idle = Threads =>
    live = {} /\ registered = {}

(* The signal is the one the adaptor is for, given what the children sent. *)
ResultIsRight == outcome # "none" /\ phase = "started" => Promised(kind, last, threw, stopped, outcome)

(* A sender delivers done only if it declares sends_done, completes inside *)
(* start() if it declares to block and outside it if it declares never to. *)
DeliversAsDeclared ==
  kind \in Claiming /\ phase = "started" =>
    LET claim == Claim(kind, child) IN
    /\ outcome = "done" => claim.sends_done
    /\ claim.blocking = never /\ ~threw => where # "inline"
    /\ claim.blocking = always_inline => where # "other"
    /\ claim.blocking \in {always_inline, always} /\ ~Somewhere(entry, "start") => outcome # "none"

(* A started operation completes, if its children do: those that wait for  *)
(* stop are asked to.                                                      *)
Completes ==
  (/\ phase = "started"
   /\ \/ Shape(kind).stop \cap stopped # {}
      \/ kind \notin WaitForStop /\ \A c \in Children : ~child[c].patient)
     ~> (outcome # "none")
=============================================================================
