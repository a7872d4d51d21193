---------------------- MODULE ApplicationLifecycleProofs ----------------------
(***************************************************************************)
(* Theorems about ApplicationLifecycle, for any number of goroutines that  *)
(* stop the application or submit tasks, and that its coordinator          *)
(* implements Shutdown.                                                    *)
(*                                                                         *)
(* The argument follows one number.  Construction and start arm callbacks  *)
(* one by one, always in the same order, and whoever stops the application *)
(* takes them all and runs them in the reverse order.  So the callbacks    *)
(* that are armed, or taken and not yet run, are the first n of Arming,    *)
(* and what is known of a resource depends on whether its callback is      *)
(* among them and on the point the callback has reached.                   *)
(***************************************************************************)
EXTENDS ApplicationLifecycle, SequenceTheorems, TLAPS

-----------------------------------------------------------------------------
(***************************************************************************)
(* The inductive invariant.                                                *)
(***************************************************************************)

Arming == <<"database", "async", "migrate", "server", "scheduler">>

\* The first n callbacks of Arming, last armed first.
Rest(n) ==
    CASE n = 0 -> << >>
      [] n = 1 -> <<"database">>
      [] n = 2 -> <<"async", "database">>
      [] n = 3 -> <<"migrate", "async", "database">>
      [] n = 4 -> <<"server", "migrate", "async", "database">>
      [] n = 5 -> <<"scheduler", "server", "migrate", "async", "database">>

Rising   == state \in {"constructed", "starting", "ready"}
Terminal == state \in {"stopped", "failed"}
Runs(c)  == pc[c] \in {"stopping", "aborting"}
Failed   == \E c \in Callers : failures[c]

\* The coordinator holds n callbacks.
Armed(n) ==
    \/ n = 0 /\ cleanups = << >> /\ started = << >>
    \/ n = 1 /\ cleanups = <<"database">> /\ started = << >>
    \/ /\ cleanups = <<"database", "async">>
       /\ \/ n = 2 /\ started = << >>
          \/ n = 3 /\ started = <<"migrate">>
          \/ n = 4 /\ started = <<"migrate", "server">>
          \/ n = 5 /\ started = Hooks

\* r runs the callbacks, alone, has n of them left and is at point p.
RunsAlone(r, n, p) ==
    /\ Runs(r)
    /\ todo[r] = Rest(n)
    /\ phase[r] = p
    /\ pc[r] = "aborting" => failures[r]
    /\ \A c \in Callers \ {r} :
          ~Runs(c) /\ phase[c] = "begin" /\ ~failures[c]

\* n callbacks are armed or left to run, the first of them at point p.
Left(n, p) ==
    \/ /\ Rising /\ p = "begin" /\ Armed(n)
       /\ \A c \in Callers : ~Runs(c) /\ phase[c] = "begin" /\ ~failures[c]
    \/ state = "stopping" /\ \E r \in Callers : RunsAlone(r, n, p)
    \/ /\ Terminal /\ n = 0
       /\ \A c \in Callers : ~Runs(c)

DatabaseAt(n) ==
    /\ n > 0 => db = "open"
    /\ n = 0 => db # "open"
    /\ n = 0 /\ ~Rising /\ ~Failed => db = "closed"

ExecutorAt(n, p) ==
    /\ tasksDone => closed /\ Admitted = {}
    /\ Rising => ~closed
    /\ n = 2 /\ p # "begin" => closed
    /\ n < 2 /\ ~closed => ~taskFailed /\ \A s \in Submitters : task[s] = "idle"
    /\ n < 2 /\ closed /\ ~Failed => tasksDone /\ ~taskFailed

ServerAt(n, p) ==
    /\ n > 3 => listener # "none"
    /\ serve = "off" => listener # "open" /\ requests = 0
    /\ serve \in {"closed", "failed"} => listener = "closed"
    /\ serveErrors => serve \in {"closed", "failed"}
    /\ Rising => ~inShutdown
    /\ serve # "off" /\ ~inShutdown => n = 5 \/ (n = 4 /\ p = "begin")
    /\ ~Failed /\ (n < 4 \/ (n = 4 /\ p = "observe")) => requests = 0
    /\ ~Failed /\ n < 4 => serve \in {"off", "closed"}

SchedulerAt(n, p) ==
    /\ auditFailed => job = "ended"
    /\ Rising => ~loopDone
    /\ job # "none" /\ ~loopDone => n = 5 /\ p = "begin"
    /\ ~Failed /\ n < 5 => job \in {"none", "ended"} /\ ~auditFailed

\* The place of a callback in Arming.
Place == [database |-> 1, async |-> 2, server |-> 4, scheduler |-> 5]

RanAt(n) ==
    /\ ran \in Seq(Callbacks)
    /\ Rising => ran = << >>
    /\ \A i \in DOMAIN ran : Place[ran[i]] > n
    /\ \A i, j \in DOMAIN ran : i < j => Place[ran[i]] > Place[ran[j]]

\* What the callers have been told, and where they can be.
CallersAt(n) ==
    /\ \A c \in Callers :
          /\ ret[c] = "none" <=> pc[c] # "returned"
          /\ ret[c] = "nil" => stopErr = "nil"
    /\ IF Terminal THEN stopErr \in {"nil", "error"} ELSE stopErr = "none"
    /\ stopErr = "nil" => ~Failed
    /\ Rising /\ (pc[Main] = "built" \/ \E c \in Stoppers : pc[c] # "absent")
          => n > 1
    /\ pc[Main] = "construct" =>
          state = "constructed" /\ \A c \in Stoppers : pc[c] = "absent"
    /\ pc[Main] = "starting" <=> state = "starting"
    /\ pc[Main] = "running" => state \notin {"constructed", "starting"}
    /\ state = "constructed" => n < 3
    /\ state = "starting" => n > 1
    /\ state = "ready" => n = 5

Lifecycle(n, p) ==
    /\ Left(n, p)
    /\ DatabaseAt(n)
    /\ ExecutorAt(n, p)
    /\ ServerAt(n, p)
    /\ SchedulerAt(n, p)
    /\ RanAt(n)
    /\ CallersAt(n)

Points == {"begin", "drain", "observe"}

Inv == TypeOK /\ \E n \in 0 .. 5, p \in Points : Lifecycle(n, p)

-----------------------------------------------------------------------------
(***************************************************************************)
(* Sequences.                                                              *)
(***************************************************************************)

\* What runCallbacks finds at the head of what is left, and what remains.
LEMMA RestFacts ==
    /\ Rest(0) = << >>
    /\ \A n \in 1 .. 5 :
          /\ Rest(n) # << >>
          /\ Head(Rest(n)) = Arming[n]
          /\ Tail(Rest(n)) = Rest(n - 1)
<1>1. Rest(0) = << >>
  BY DEF Rest
<1>2. /\ Rest(1) # << >>
      /\ Head(Rest(1)) = Arming[1]
      /\ Tail(Rest(1)) = Rest(0)
  BY DEF Rest, Arming
<1>3. /\ Rest(2) # << >>
      /\ Head(Rest(2)) = Arming[2]
      /\ Tail(Rest(2)) = Rest(1)
  BY DEF Rest, Arming
<1>4. /\ Rest(3) # << >>
      /\ Head(Rest(3)) = Arming[3]
      /\ Tail(Rest(3)) = Rest(2)
  BY DEF Rest, Arming
<1>5. /\ Rest(4) # << >>
      /\ Head(Rest(4)) = Arming[4]
      /\ Tail(Rest(4)) = Rest(3)
  BY DEF Rest, Arming
<1>6. /\ Rest(5) # << >>
      /\ Head(Rest(5)) = Arming[5]
      /\ Tail(Rest(5)) = Rest(4)
  BY DEF Rest, Arming
<1>7. ASSUME NEW n \in 1 .. 5
      PROVE  /\ Rest(n) # << >>
             /\ Head(Rest(n)) = Arming[n]
             /\ Tail(Rest(n)) = Rest(n - 1)
  <2>1. n = 1 \/ n = 2 \/ n = 3 \/ n = 4 \/ n = 5
    OBVIOUS
  <2>2. QED
    BY <2>1, <1>1, <1>2, <1>3, <1>4, <1>5, <1>6, SMTT(30)
<1>8. QED
  BY <1>1, <1>7

\* The callbacks of Arming are distinct.
LEMMA ArmingFacts ==
    ASSUME NEW n \in 1 .. 5
    PROVE  /\ Arming[n] = "database" <=> n = 1
           /\ Arming[n] = "async" <=> n = 2
           /\ Arming[n] = "migrate" <=> n = 3
           /\ Arming[n] = "server" <=> n = 4
           /\ Arming[n] = "scheduler" <=> n = 5
<1>1. n = 1 \/ n = 2 \/ n = 3 \/ n = 4 \/ n = 5
  OBVIOUS
<1>2. QED
  BY <1>1 DEF Arming

\* A concatenation, element by element.
LEMMA ConcatIs ==
    ASSUME NEW S, NEW a \in Seq(S), NEW b \in Seq(S), NEW d \in Seq(S),
           Len(d) = Len(a) + Len(b),
           \A i \in 1 .. Len(d) : d[i] = IF i <= Len(a) THEN a[i]
                                         ELSE b[i - Len(a)]
    PROVE  a \o b = d
<1> DEFINE e == a \o b
<1>1. /\ e \in Seq(S) /\ Len(e) = Len(d)
      /\ \A i \in 1 .. Len(d) : e[i] = d[i]
  BY ConcatProperties
<1> HIDE DEF e
<1>2. e = d
  BY <1>1, SeqEqual
<1>3. QED
  BY <1>2 DEF e

\* Whoever takes the armed callbacks has them in the order of Rest.
LEMMA TakenFacts ==
    ASSUME NEW n \in 0 .. 5, Armed(n)
    PROVE  Reverse(started) \o Reverse(cleanups) = Rest(n)
<1>1. CASE n = 0 /\ cleanups = << >> /\ started = << >>
  BY <1>1 DEF Reverse, Rest
<1>2. CASE n = 1 /\ cleanups = <<"database">> /\ started = << >>
  BY <1>2 DEF Reverse, Rest
<1>3. CASE n = 2 /\ cleanups = <<"database", "async">> /\ started = << >>
  BY <1>3 DEF Reverse, Rest
<1> DEFINE S == Callbacks \cup {"migrate"}
           b == <<"async", "database">>
<1>4. b \in Seq(S) /\ Len(b) = 2 /\ b[1] = "async" /\ b[2] = "database"
  BY DEF Callbacks
<1>5. cleanups = <<"database", "async">> => Reverse(cleanups) = b
  BY DEF Reverse
<1>6. CASE n = 3 /\ cleanups = <<"database", "async">>
           /\ started = <<"migrate">>
  <2> DEFINE a == <<"migrate">>
             d == <<"migrate", "async", "database">>
  <2>1. Reverse(started) = a /\ Rest(n) = d
    BY <1>6 DEF Reverse, Rest
  <2>2. a \in Seq(S) /\ Len(a) = 1 /\ a[1] = "migrate"
    BY DEF Callbacks
  <2>3. /\ d \in Seq(S) /\ Len(d) = 3
        /\ d[1] = "migrate" /\ d[2] = "async" /\ d[3] = "database"
    BY DEF Callbacks
  <2> HIDE DEF S, a, b, d
  <2>4. \A i \in 1 .. Len(d) : d[i] = IF i <= Len(a) THEN a[i]
                                      ELSE b[i - Len(a)]
    BY <1>4, <2>2, <2>3
  <2>5. Len(d) = Len(a) + Len(b)
    BY <1>4, <2>2, <2>3
  <2>6. a \o b = d
    BY <1>4, <2>2, <2>3, <2>4, <2>5, ConcatIs
  <2>7. QED
    BY <1>5, <1>6, <2>1, <2>6
<1>7. CASE n = 4 /\ cleanups = <<"database", "async">>
           /\ started = <<"migrate", "server">>
  <2> DEFINE a == <<"server", "migrate">>
             d == <<"server", "migrate", "async", "database">>
  <2>1. Reverse(started) = a /\ Rest(n) = d
    BY <1>7 DEF Reverse, Rest
  <2>2. a \in Seq(S) /\ Len(a) = 2 /\ a[1] = "server" /\ a[2] = "migrate"
    BY DEF Callbacks
  <2>3. /\ d \in Seq(S) /\ Len(d) = 4
        /\ d[1] = "server" /\ d[2] = "migrate"
        /\ d[3] = "async" /\ d[4] = "database"
    BY DEF Callbacks
  <2> HIDE DEF S, a, b, d
  <2>4. \A i \in 1 .. Len(d) : d[i] = IF i <= Len(a) THEN a[i]
                                      ELSE b[i - Len(a)]
    BY <1>4, <2>2, <2>3
  <2>5. Len(d) = Len(a) + Len(b)
    BY <1>4, <2>2, <2>3
  <2>6. a \o b = d
    BY <1>4, <2>2, <2>3, <2>4, <2>5, ConcatIs
  <2>7. QED
    BY <1>5, <1>7, <2>1, <2>6
<1>8. CASE n = 5 /\ cleanups = <<"database", "async">> /\ started = Hooks
  <2> DEFINE a == <<"scheduler", "server", "migrate">>
             d == <<"scheduler", "server", "migrate", "async", "database">>
  <2>1. Reverse(started) = a /\ Rest(n) = d
    BY <1>8 DEF Reverse, Rest, Hooks
  <2>2. /\ a \in Seq(S) /\ Len(a) = 3
        /\ a[1] = "scheduler" /\ a[2] = "server" /\ a[3] = "migrate"
    BY DEF Callbacks
  <2>3. /\ d \in Seq(S) /\ Len(d) = 5
        /\ d[1] = "scheduler" /\ d[2] = "server" /\ d[3] = "migrate"
        /\ d[4] = "async" /\ d[5] = "database"
    BY DEF Callbacks
  <2> HIDE DEF S, a, b, d
  <2>4. \A i \in 1 .. Len(d) : d[i] = IF i <= Len(a) THEN a[i]
                                      ELSE b[i - Len(a)]
    BY <1>4, <2>2, <2>3
  <2>5. Len(d) = Len(a) + Len(b)
    BY <1>4, <2>2, <2>3
  <2>6. a \o b = d
    BY <1>4, <2>2, <2>3, <2>4, <2>5, ConcatIs
  <2>7. QED
    BY <1>5, <1>8, <2>1, <2>6
<1>9. QED
  BY <1>1, <1>2, <1>3, <1>6, <1>7, <1>8 DEF Armed

-----------------------------------------------------------------------------
(***************************************************************************)
(* Types.                                                                  *)
(***************************************************************************)

\* What TypeOK says of the variables one goroutine changes at a time.
CallersType ==
    /\ pc \in [Callers -> {"absent", "idle", "construct", "built", "starting",
                           "running", "stopping", "aborting", "waiting",
                           "returned"}]
    /\ ret \in [Callers -> {"none", "nil", "error"}]
    /\ phase \in [Callers -> Points]
    /\ failures \in [Callers -> BOOLEAN]
    /\ expired \in SUBSET Callers
    /\ todo \in [Callers -> Seq(Callbacks \cup {"migrate"})]
    /\ ran \in Seq(Callbacks)

CoordinatorType ==
    /\ state \in {"constructed", "starting", "ready", "stopping", "stopped",
                  "failed"}
    /\ cleanups \in Seq({"database", "async"})
    /\ started \in Seq({"migrate", "server", "scheduler"})
    /\ stopErr \in {"none", "nil", "error"}

ServerType ==
    /\ listener \in {"none", "open", "closed"}
    /\ serve \in {"off", "spawned", "serving", "closed", "failed"}
    /\ inShutdown \in BOOLEAN /\ serveErrors \in BOOLEAN
    /\ requests \in 0 .. MaxRequests

SchedulerType ==
    /\ job \in {"none", "waiting", "running", "ended"}
    /\ loopDone \in BOOLEAN /\ auditFailed \in BOOLEAN

ExecutorType ==
    /\ task \in [Submitters -> {"idle", "submitting", "slot", "running",
                                "observed"}]
    /\ closed \in BOOLEAN /\ tasksDone \in BOOLEAN /\ taskFailed \in BOOLEAN

LEMMA TypeParts ==
    TypeOK <=> /\ CoordinatorType /\ CallersType /\ ServerType
               /\ SchedulerType /\ ExecutorType
               /\ db \in {"none", "open", "closed"}
BY DEF TypeOK, CoordinatorType, CallersType, ServerType, SchedulerType,
       ExecutorType, Points

LEMMA TypePartsNext ==
    TypeOK' <=> /\ CoordinatorType' /\ CallersType' /\ ServerType'
                /\ SchedulerType' /\ ExecutorType'
                /\ db' \in {"none", "open", "closed"}
BY DEF TypeOK, CoordinatorType, CallersType, ServerType, SchedulerType,
       ExecutorType, Points

LEMMA InitType == Init => TypeOK
<1> SUFFICES ASSUME Init PROVE TypeOK
  OBVIOUS
<1>1. CoordinatorType
  BY DEF Init, CoordinatorType
<1>2. CallersType
  <2>1. << >> \in Seq(Callbacks \cup {"migrate"}) /\ << >> \in Seq(Callbacks)
    OBVIOUS
  <2>2. todo \in [Callers -> Seq(Callbacks \cup {"migrate"})]
        /\ ran \in Seq(Callbacks)
    BY <2>1 DEF Init
  <2>3. QED
    BY <2>2 DEF Init, CallersType, Points
<1>3. ServerType
  <2>1. 0 \in 0 .. MaxRequests
    BY ConstantsAssumption
  <2>2. /\ listener = "none" /\ serve = "off" /\ requests = 0
        /\ inShutdown = FALSE /\ serveErrors = FALSE
    BY DEF Init
  <2>3. QED
    BY <2>1, <2>2 DEF ServerType
<1>4. SchedulerType /\ ExecutorType
  BY DEF Init, SchedulerType, ExecutorType
<1>5. QED
  BY <1>1, <1>2, <1>3, <1>4, TypeParts DEF Init

\* The callbacks that are taken are callbacks.
LEMMA TakenType ==
    ASSUME CoordinatorType
    PROVE  Reverse(started) \o Reverse(cleanups)
              \in Seq(Callbacks \cup {"migrate"})
<1>1. Reverse(started) \in Seq(Callbacks \cup {"migrate"})
  BY DEF CoordinatorType, Reverse, Callbacks
<1>2. Reverse(cleanups) \in Seq(Callbacks \cup {"migrate"})
  BY DEF CoordinatorType, Reverse, Callbacks
<1>3. QED
  BY <1>1, <1>2

LEMMA RollBackType ==
    ASSUME CoordinatorType, CallersType, NEW c \in Callers, RollBack(c)
    PROVE  CoordinatorType' /\ CallersType'
<1>1. todo' \in [Callers -> Seq(Callbacks \cup {"migrate"})]
  BY TakenType DEF RollBack, TakeCallbacks, StopHooks, CallersType
<1>2. started' = << >> /\ cleanups' = << >>
  BY DEF RollBack, TakeCallbacks
<1>3. CoordinatorType'
  BY <1>2 DEF RollBack, CoordinatorType
<1>4. CallersType'
  BY <1>1 DEF RollBack, CallersType, Goto
<1>5. QED
  BY <1>3, <1>4

LEMMA StopType ==
    ASSUME CoordinatorType, CallersType, NEW c \in Callers, Stop(c),
           expired' \in SUBSET Callers
    PROVE  CoordinatorType' /\ CallersType'
<1>1. todo' \in [Callers -> Seq(Callbacks \cup {"migrate"})]
  BY TakenType DEF Stop, TakeCallbacks, StopHooks, CallersType
<1>2. CoordinatorType'
  <2>1. /\ started' = << >> \/ started' = started
        /\ cleanups' = << >> \/ cleanups' = cleanups
        /\ state' = "stopping" \/ state' = state
        /\ stopErr' = stopErr
    BY DEF Stop, TakeCallbacks
  <2>2. /\ << >> \in Seq({"migrate", "server", "scheduler"})
        /\ << >> \in Seq({"database", "async"})
    OBVIOUS
  <2>3. QED
    BY <2>1, <2>2 DEF CoordinatorType
<1>3. CallersType'
  BY <1>1 DEF Stop, CallersType, CoordinatorType, Goto, Return
<1>4. QED
  BY <1>2, <1>3

\* Every step of a callback.
LEMMA RunCallbacksType ==
    ASSUME TypeOK, NEW c \in Callers, RunCallbacks(c)
    PROVE  TypeOK'
<1>0. /\ CoordinatorType /\ CallersType /\ ServerType /\ SchedulerType
      /\ ExecutorType /\ db \in {"none", "open", "closed"}
  BY TypeParts
<1>1. ASSUME NEW point \in Points, NEW err \in BOOLEAN,
             Proceed(c, point, err)
      PROVE  CoordinatorType' /\ CallersType'
  BY <1>0, <1>1 DEF Proceed, coordinator, CallersType, CoordinatorType
<1>2. ASSUME NEW x \in Callbacks, NEW point, At(c, x, point),
             NEW err \in BOOLEAN, Done(c, err)
      PROVE  CoordinatorType' /\ CallersType'
  <2>1. todo' \in [Callers -> Seq(Callbacks \cup {"migrate"})]
    BY <1>0, <1>2 DEF Done, At, CallersType
  <2>2. ran' \in Seq(Callbacks)
    BY <1>0, <1>2 DEF Done, At, CallersType
  <2>3. QED
    BY <1>0, <1>2, <2>1, <2>2
       DEF Done, coordinator, CallersType, CoordinatorType, Points
<1>3. CASE SchedulerClose(c) \/ SchedulerDrain(c)
  <2>1. CoordinatorType' /\ CallersType'
    BY <1>0, <1>1, <1>2, <1>3
       DEF SchedulerClose, SchedulerDrain, Points, Callbacks, SchedulerType
  <2>2. /\ ServerType' /\ SchedulerType' /\ ExecutorType' /\ db' = db
    BY <1>0, <1>3, ZenonT(40)
       DEF SchedulerClose, SchedulerDrain, scheduler, server, executor,
           ServerType, SchedulerType, ExecutorType
  <2>3. QED
    BY <1>0, <2>1, <2>2, TypePartsNext
<1>4. CASE ServerShutdown(c) \/ ServerDrain(c) \/ ServerObserve(c)
  <2>1. CoordinatorType' /\ CallersType'
    BY <1>0, <1>1, <1>2, <1>4
       DEF ServerShutdown, ServerDrain, ServerObserve, Points, Callbacks
  <2>2. /\ ServerType' /\ SchedulerType' /\ ExecutorType' /\ db' = db
    BY <1>0, <1>4, ZenonT(40)
       DEF ServerShutdown, ServerDrain, ServerObserve, scheduler, server,
           executor, ServerType, SchedulerType, ExecutorType
  <2>3. QED
    BY <1>0, <2>1, <2>2, TypePartsNext
<1>5. CASE ExecutorClose(c) \/ ExecutorDrain(c)
  <2>1. CoordinatorType' /\ CallersType'
    BY <1>0, <1>1, <1>2, <1>5
       DEF ExecutorClose, ExecutorDrain, Points, Callbacks, ExecutorType
  <2>2. /\ ServerType' /\ SchedulerType' /\ ExecutorType' /\ db' = db
    BY <1>0, <1>5
       DEF ExecutorClose, ExecutorDrain, scheduler, server, executor,
           ServerType, SchedulerType, ExecutorType
  <2>3. QED
    BY <1>0, <2>1, <2>2, TypePartsNext
<1>6. CASE DatabaseClose(c)
  <2>1. CoordinatorType' /\ CallersType'
    BY <1>0, <1>2, <1>6 DEF DatabaseClose, Callbacks
  <2>2. /\ ServerType' /\ SchedulerType' /\ ExecutorType' /\ db' = "closed"
    BY <1>0, <1>6
       DEF DatabaseClose, scheduler, server, executor,
           ServerType, SchedulerType, ExecutorType
  <2>3. QED
    BY <2>1, <2>2, TypePartsNext
<1>7. CASE SkipHook(c) \/ CompleteTerminal(c)
  <2>1. CallersType'
    <3>1. CASE SkipHook(c)
      <4>1. Tail(todo[c]) \in Seq(Callbacks \cup {"migrate"})
        BY <1>0, <3>1 DEF SkipHook, At, CallersType
      <4>2. todo' \in [Callers -> Seq(Callbacks \cup {"migrate"})]
        BY <1>0, <3>1, <4>1 DEF SkipHook, CallersType
      <4>3. QED
        BY <1>0, <3>1, <4>2 DEF SkipHook, CallersType
    <3>2. CASE CompleteTerminal(c)
      BY <1>0, <3>2 DEF CompleteTerminal, Return, Goto, CallersType
    <3>3. QED
      BY <1>7, <3>1, <3>2
  <2>2. CoordinatorType'
    BY <1>0, <1>7
       DEF SkipHook, CompleteTerminal, coordinator, CoordinatorType
  <2>3. /\ ServerType' /\ SchedulerType' /\ ExecutorType' /\ db' = db
    BY <1>0, <1>7
       DEF SkipHook, CompleteTerminal, scheduler, server, executor,
           ServerType, SchedulerType, ExecutorType
  <2>4. QED
    BY <1>0, <2>1, <2>2, <2>3, TypePartsNext
<1>8. QED
  BY <1>3, <1>4, <1>5, <1>6, <1>7 DEF RunCallbacks

\* Every step of the main goroutine.
LEMMA MainStepType == TypeOK /\ MainStep => TypeOK'
<1> SUFFICES ASSUME TypeOK, MainStep PROVE TypeOK'
  OBVIOUS
<1>0. /\ CoordinatorType /\ CallersType /\ ServerType /\ SchedulerType
      /\ ExecutorType /\ db \in {"none", "open", "closed"}
      /\ Main \in Callers
  BY TypeParts DEF Callers
<1>1. CASE ConstructDatabase \/ ConstructExecutor \/ Constructed
  <2>1. /\ ServerType' /\ SchedulerType' /\ ExecutorType'
        /\ db' \in {"none", "open", "closed"}
    BY <1>0, <1>1
       DEF ConstructDatabase, ConstructExecutor, Constructed,
           server, scheduler, executor, ServerType, SchedulerType, ExecutorType
  <2>2. CallersType'
    <3>1. pc' = pc \/ pc' = [c \in Callers |-> IF c = Main THEN "built"
                                                ELSE "idle"]
      BY <1>1 DEF ConstructDatabase, ConstructExecutor, Constructed, callers
    <3>2. UNCHANGED <<ret, todo, phase, failures, expired, ran>>
      BY <1>1 DEF ConstructDatabase, ConstructExecutor, Constructed, callers
    <3>3. QED
      BY <1>0, <3>1, <3>2 DEF CallersType
  <2>3. CoordinatorType'
    <3>1. \/ cleanups' = cleanups
          \/ cleanups' = <<"database">>
          \/ cleanups' = <<"database", "async">>
      BY <1>1 DEF ConstructDatabase, ConstructExecutor, Constructed,
                  coordinator
    <3>2. UNCHANGED <<state, started, stopErr>>
      BY <1>1 DEF ConstructDatabase, ConstructExecutor, Constructed,
                  coordinator
    <3>3. /\ <<"database">> \in Seq({"database", "async"})
          /\ <<"database", "async">> \in Seq({"database", "async"})
      OBVIOUS
    <3>4. cleanups' \in Seq({"database", "async"})
      BY <1>0, <3>1, <3>3 DEF CoordinatorType
    <3>5. QED
      BY <1>0, <3>2, <3>4 DEF CoordinatorType
  <2>4. QED
    BY <2>1, <2>2, <2>3, TypePartsNext
<1>2. CASE BeanRefused
  BY <1>0, <1>2, RollBackType, TypePartsNext
     DEF BeanRefused, server, scheduler, executor, ServerType,
         SchedulerType, ExecutorType
<1>3. CASE ConfigurationRefused \/ BeginStart
  BY <1>0, <1>3, TypePartsNext
     DEF ConfigurationRefused, BeginStart, Return, Goto, coordinator,
         server, scheduler, executor, CoordinatorType, CallersType,
         ServerType, SchedulerType, ExecutorType
<1>4. CASE StartHook
  <2>1. CoordinatorType' /\ CallersType'
    <3>1. CASE RollBack(Main)
      BY <1>0, <3>1, RollBackType
    <3>2. CASE ~RollBack(Main)
      <4>1. \/ started' = started
            \/ \E i \in DOMAIN Hooks : started' = Append(started, Hooks[i])
        BY <1>4, <3>2 DEF StartHook
      <4>2. started' \in Seq({"migrate", "server", "scheduler"})
        BY <1>0, <4>1, SMTT(30) DEF CoordinatorType, Hooks
      <4>3. /\ state' \in {state, "ready"} /\ UNCHANGED <<cleanups, stopErr>>
            /\ UNCHANGED <<ret, todo, phase, failures, expired, ran>>
            /\ pc' = pc \/ Goto(Main, "running")
        BY <1>4, <3>2 DEF StartHook, callers
      <4>4. QED
        BY <1>0, <4>2, <4>3 DEF Goto, CoordinatorType, CallersType
    <3>3. QED
      BY <3>1, <3>2
  <2>2. ServerType' /\ SchedulerType' /\ ExecutorType' /\ db' = db
    BY <1>0, <1>4
       DEF StartHook, ServerStart, server, scheduler, executor, ServerType,
           SchedulerType, ExecutorType
  <2>3. QED
    BY <1>0, <2>1, <2>2, TypePartsNext
<1>5. CASE MainStop
  <2>1. expired' \in SUBSET Callers
    BY <1>0, <1>5 DEF MainStop, CallersType
  <2>2. CoordinatorType' /\ CallersType'
    BY <1>0, <1>5, <2>1, StopType DEF MainStop
  <2>3. QED
    BY <1>0, <1>5, <2>2, TypePartsNext
       DEF MainStop, Stop, server, scheduler, executor, ServerType,
           SchedulerType, ExecutorType
<1>6. QED
  BY <1>1, <1>2, <1>3, <1>4, <1>5 DEF MainStep

LEMMA StepType == TypeOK /\ [Next]_vars => TypeOK'
<1> SUFFICES ASSUME TypeOK, [Next]_vars PROVE TypeOK'
  OBVIOUS
<1>0. /\ CoordinatorType /\ CallersType /\ ServerType /\ SchedulerType
      /\ ExecutorType /\ db \in {"none", "open", "closed"}
      /\ MaxRequests \in Nat
  BY TypeParts, ConstantsAssumption
<1>1. CASE UNCHANGED vars
  BY <1>1 DEF TypeOK, vars, coordinator, callers, server, scheduler, executor
<1>2. ASSUME NEW c \in Callers, AwaitStop(c) \/ Expire(c) PROVE TypeOK'
  BY <1>0, <1>2, TypePartsNext
     DEF AwaitStop, Expire, Return, Goto, coordinator, server, scheduler,
         executor, CoordinatorType, CallersType, ServerType, SchedulerType,
         ExecutorType
<1>3. ASSUME NEW c \in Stoppers, OtherStop(c) PROVE TypeOK'
  <2>1. c \in Callers /\ expired' \in SUBSET Callers
    BY <1>0, <1>3 DEF OtherStop, CallersType, Callers
  <2>2. CoordinatorType' /\ CallersType'
    BY <1>0, <1>3, <2>1, StopType DEF OtherStop
  <2>3. QED
    BY <1>0, <1>3, <2>2, TypePartsNext
       DEF OtherStop, Stop, server, scheduler, executor, ServerType,
           SchedulerType, ExecutorType
<1>4. CASE Serve \/ Request \/ RunJob \/ TasksDone
  <2>1. CoordinatorType' /\ CallersType' /\ db' = db
    BY <1>0, <1>4 DEF Serve, Request, RunJob, TasksDone, coordinator, callers,
                      CoordinatorType, CallersType
  <2>2. ServerType' /\ SchedulerType' /\ ExecutorType'
    <3>1. CASE Serve
      BY <1>0, <3>1 DEF Serve, scheduler, executor, ServerType, SchedulerType,
                        ExecutorType
    <3>2. CASE Request
      BY <1>0, <3>2 DEF Request, scheduler, executor, ServerType,
                        SchedulerType, ExecutorType
    <3>3. CASE RunJob
      BY <1>0, <3>3, ZenonT(40)
         DEF RunJob, server, executor, ServerType, SchedulerType, ExecutorType
    <3>4. CASE TasksDone
      BY <1>0, <3>4 DEF TasksDone, server, scheduler, ServerType,
                        SchedulerType, ExecutorType
    <3>5. QED
      BY <1>4, <3>1, <3>2, <3>3, <3>4
  <2>3. QED
    BY <1>0, <2>1, <2>2, TypePartsNext
<1>5. ASSUME NEW s \in Submitters, Submit(s) \/ RunTask(s) PROVE TypeOK'
  <2>1. /\ CoordinatorType' /\ CallersType' /\ db' = db
        /\ ServerType' /\ SchedulerType'
    BY <1>0, <1>5 DEF Submit, RunTask, coordinator, callers, server, scheduler,
                  CoordinatorType, CallersType, ServerType, SchedulerType
  <2>2. ExecutorType'
    BY <1>0, <1>5 DEF Submit, Admit, RunTask, Goes, ExecutorType
  <2>3. QED
    BY <1>0, <2>1, <2>2, TypePartsNext
<1>6. QED
  BY <1>1, <1>2, <1>3, <1>4, <1>5, RunCallbacksType, MainStepType
     DEF Next, Goroutine

\* Every variable keeps its type: in particular runCallbacks never calls the
\* Stop of a hook that has none.
THEOREM TypeCorrect == Spec => []TypeOK
BY InitType, StepType, PTL DEF Spec

-----------------------------------------------------------------------------
(***************************************************************************)
(* Frames: what a step leaves alone.                                       *)
(***************************************************************************)

\* The three ages of the coordinator.
LEMMA Ages ==
    ASSUME TypeOK
    PROVE  /\ Rising <=> state # "stopping" /\ ~Terminal
           /\ state = "stopping" => ~Rising /\ ~Terminal
           /\ Terminal => ~Rising /\ state # "stopping"
BY DEF TypeOK, Rising, Terminal

\* The resources, when only the coordinator or its callers change.
LEMMA ResourcesStay ==
    ASSUME NEW n \in 0 .. 5, NEW p, Lifecycle(n, p),
           UNCHANGED <<db, server, scheduler, executor>>,
           Rising' => Rising, Failed => Failed',
           Rising /\ ~Rising' => n > 0 \/ Failed'
    PROVE  /\ DatabaseAt(n)' /\ ExecutorAt(n, p)' /\ ServerAt(n, p)'
           /\ SchedulerAt(n, p)'
<1>1. DatabaseAt(n)'
  BY DEF Lifecycle, DatabaseAt
<1>2. ExecutorAt(n, p)'
  BY DEF Lifecycle, ExecutorAt, executor, Admitted
<1>3. ServerAt(n, p)'
  BY DEF Lifecycle, ServerAt, server
<1>4. SchedulerAt(n, p)'
  BY DEF Lifecycle, SchedulerAt, scheduler
<1>5. QED
  BY <1>1, <1>2, <1>3, <1>4

\* The callers, when only resources or contexts change.
LEMMA CallersStay ==
    ASSUME NEW n \in 0 .. 5, NEW p, Lifecycle(n, p),
           UNCHANGED <<coordinator, pc, ret, todo, phase, failures, ran>>
    PROVE  /\ Left(n, p)' /\ RanAt(n)' /\ CallersAt(n)'
           /\ Rising' <=> Rising
           /\ Failed' <=> Failed
<1>1. /\ Rising' <=> Rising
      /\ Terminal' <=> Terminal
      /\ Failed' <=> Failed
  BY DEF coordinator, Rising, Terminal, Failed
<1>2. Left(n, p)'
  BY <1>1 DEF Lifecycle, Left, Armed, RunsAlone, Runs, coordinator
<1>3. RanAt(n)'
  BY <1>1 DEF Lifecycle, RanAt
<1>4. CallersAt(n)'
  BY <1>1 DEF Lifecycle, CallersAt, coordinator
<1>5. QED
  BY <1>1, <1>2, <1>3, <1>4

\* A caller is told something, or begins to wait, and runs no callbacks.
LEMMA Told ==
    ASSUME TypeOK, NEW n \in 0 .. 5, NEW p, Lifecycle(n, p),
           NEW c \in Callers, ~Runs(c),
           pc[c] \notin {"absent", "starting", "returned"},
           \/ Goto(c, "waiting") /\ UNCHANGED ret
           \/ \E result \in {"nil", "error"} :
                 /\ Return(c, result)
                 /\ result = "nil" => stopErr = "nil",
           UNCHANGED <<coordinator, todo, phase, failures, ran, db, server,
                       scheduler, executor>>
    PROVE  Lifecycle(n, p)'
<1>1. /\ Rising' <=> Rising
      /\ Terminal' <=> Terminal
      /\ Failed' <=> Failed
  BY DEF coordinator, Rising, Terminal, Failed
<1>2. \A d \in Callers :
         /\ Runs(d)' <=> Runs(d)
         /\ pc'[d] = "aborting" <=> pc[d] = "aborting"
         /\ d # c => pc'[d] = pc[d] /\ ret'[d] = ret[d]
  BY DEF TypeOK, Runs, Goto, Return
<1>3. Left(n, p)'
  BY <1>1, <1>2 DEF Lifecycle, Left, Armed, RunsAlone, coordinator
<1>4. RanAt(n)'
  BY <1>1 DEF Lifecycle, RanAt
<1>5. CallersAt(n)'
  <2>1. pc'[c] \in {"waiting", "returned"}
    BY DEF TypeOK, Goto, Return
  <2>2. ret'[c] = "none" <=> pc'[c] # "returned"
    BY DEF TypeOK, Goto, Return, Lifecycle, CallersAt
  <2>3. ret'[c] = "nil" => stopErr = "nil"
    BY DEF TypeOK, Goto, Return, Lifecycle, CallersAt
  <2>4. Main \in Callers /\ \A d \in Stoppers : d \in Callers
    BY DEF Callers
  <2>5. UNCHANGED <<state, stopErr>>
    BY DEF coordinator
  <2>6. CallersAt(n)
    BY DEF Lifecycle
  <2>7. \A d \in Callers : /\ ret'[d] = "none" <=> pc'[d] # "returned"
                           /\ ret'[d] = "nil" => stopErr = "nil"
    BY <1>2, <2>2, <2>3, <2>6 DEF CallersAt
  <2>8. Rising /\ (pc'[Main] = "built" \/ \E d \in Stoppers : pc'[d] # "absent")
          => n > 1
    <3>1. CASE c = Main
      BY <1>2, <2>1, <2>4, <2>6, <3>1, ConstantsAssumption DEF CallersAt
    <3>2. CASE c # Main
      <4>1. c \in Stoppers
        BY <3>2 DEF Callers
      <4>2. QED
        BY <1>2, <2>4, <2>6, <3>2, <4>1 DEF CallersAt
    <3>3. QED
      BY <3>1, <3>2
  <2>9. /\ pc'[Main] = "construct" =>
              state = "constructed" /\ \A d \in Stoppers : pc'[d] = "absent"
        /\ pc'[Main] = "starting" <=> state = "starting"
        /\ pc'[Main] = "running" => state \notin {"constructed", "starting"}
    <3>1. CASE c = Main
      BY <1>2, <2>1, <2>4, <2>6, <3>1 DEF CallersAt
    <3>2. CASE c # Main
      <4>1. c \in Stoppers /\ pc[c] # "absent"
        BY <3>2 DEF Callers
      <4>2. pc[Main] # "construct" /\ pc'[Main] = pc[Main]
        BY <1>2, <2>4, <2>6, <3>2, <4>1 DEF CallersAt
      <4>3. QED
        BY <2>6, <4>2 DEF CallersAt
    <3>3. QED
      BY <3>1, <3>2
  <2>10. QED
    BY <1>1, <2>5, <2>6, <2>7, <2>8, <2>9 DEF CallersAt
<1>6. QED
  BY <1>1, <1>3, <1>4, <1>5, ResourcesStay DEF Lifecycle

-----------------------------------------------------------------------------
(***************************************************************************)
(* The callbacks are taken.                                                *)
(***************************************************************************)

\* A caller takes the armed callbacks: Stop, Abort or failStart.
LEMMA Taken ==
    ASSUME TypeOK, NEW n \in 0 .. 5, NEW p, Lifecycle(n, p), Rising,
           NEW c \in Callers, pc[c] # "returned",
           c = Main \/ pc[c] # "absent",
           pc[Main] = "starting" => c = Main,
           state' = "stopping", UNCHANGED <<stopErr, ret, phase, ran>>,
           TakeCallbacks(c),
           \/ Goto(c, "stopping") /\ n > 0 /\ UNCHANGED failures
           \/ Goto(c, "aborting") /\ failures' = [failures EXCEPT ![c] = TRUE],
           UNCHANGED <<db, server, scheduler, executor>>
    PROVE  Lifecycle(n, p)'
<1>1. ~Rising' /\ ~Terminal' /\ ~Terminal /\ state # "stopping"
  BY DEF Rising, Terminal
<1>2. /\ p = "begin" /\ Armed(n)
      /\ \A d \in Callers : ~Runs(d) /\ phase[d] = "begin" /\ ~failures[d]
  BY <1>1 DEF Lifecycle, Left
<1>3. todo'[c] = Rest(n)
  BY <1>2, TakenFacts DEF TakeCallbacks, StopHooks, TypeOK
<1>4. /\ Runs(c)'
      /\ pc'[c] \in {"stopping", "aborting"}
      /\ pc'[c] = "aborting" => failures'[c]
      /\ \A d \in Callers \ {c} : /\ pc'[d] = pc[d]
                                  /\ failures'[d] = failures[d]
      /\ n > 0 \/ failures'[c]
  BY DEF Runs, Goto, TypeOK
<1>5. RunsAlone(c, n, p)'
  BY <1>2, <1>3, <1>4 DEF RunsAlone, Runs
<1>6. Left(n, p)'
  BY <1>5 DEF Left
<1>7. ~Failed /\ (n > 0 \/ Failed')
  BY <1>2, <1>4 DEF Failed
<1>8. RanAt(n)'
  BY <1>1 DEF Lifecycle, RanAt
<1>9. CallersAt(n)'
  <2>1. CallersAt(n)
    BY DEF Lifecycle
  <2>2. \A d \in Callers : /\ ret'[d] = "none" <=> pc'[d] # "returned"
                           /\ ret'[d] = "nil" => stopErr' = "nil"
    BY <1>4, <2>1 DEF CallersAt
  <2>3. stopErr' = "none"
    BY <1>1, <2>1 DEF CallersAt
  <2>4. pc'[Main] # "construct" /\ pc'[Main] # "starting"
    <3>1. CASE c = Main
      BY <1>4, <3>1
    <3>2. CASE c # Main
      <4>1. c \in Stoppers /\ pc[c] # "absent" /\ Main \in Callers
        BY <3>2 DEF Callers
      <4>2. QED
        BY <1>4, <2>1, <3>2, <4>1 DEF CallersAt
    <3>3. QED
      BY <3>1, <3>2
  <2>5. QED
    BY <1>1, <2>2, <2>3, <2>4 DEF CallersAt
<1>10. QED
  BY <1>1, <1>6, <1>7, <1>8, <1>9, ResourcesStay DEF Lifecycle

\* Coordinator.Stop, whatever the state.
LEMMA Stopped ==
    ASSUME TypeOK, NEW n \in 0 .. 5, NEW p, Lifecycle(n, p),
           NEW c \in Callers, Stop(c),
           \/ c # Main /\ pc[c] = "idle"
           \/ c = Main /\ pc[c] \in {"built", "running"}
    PROVE  Lifecycle(n, p)'
<1>1. ~Runs(c)
  BY DEF Runs
<1>2. CASE state \in {"constructed", "ready"}
  <2>1. n > 0
    BY <1>2 DEF Lifecycle, CallersAt, Callers, Rising
  <2>2. /\ state' = "stopping" /\ TakeCallbacks(c) /\ Goto(c, "stopping")
        /\ UNCHANGED ret
        /\ UNCHANGED <<stopErr, phase, failures, ran, db, server, scheduler,
                       executor>>
    BY <1>2 DEF Stop
  <2>3. Rising /\ pc[Main] # "starting"
    BY <1>2 DEF Rising, Lifecycle, CallersAt
  <2>4. QED
    BY <2>1, <2>2, <2>3, Taken
<1>3. CASE state \notin {"constructed", "ready"}
  <2>1. UNCHANGED <<state, cleanups, started, todo>>
    BY <1>3 DEF Stop
  <2>2. \/ Goto(c, "waiting") /\ UNCHANGED ret
        \/ Return(c, "error")
        \/ Terminal /\ Return(c, stopErr)
    BY <1>3 DEF Stop, Terminal
  <2>3. Terminal => stopErr \in {"nil", "error"}
    BY DEF Lifecycle, CallersAt
  <2>4. UNCHANGED <<coordinator, todo, phase, failures, ran, db, server,
                    scheduler, executor>>
    BY <2>1 DEF Stop, coordinator
  <2>5. \/ Goto(c, "waiting") /\ UNCHANGED ret
        \/ \E result \in {"nil", "error"} :
              /\ Return(c, result)
              /\ result = "nil" => stopErr = "nil"
    BY <2>2, <2>3
  <2>6. QED
    BY <1>1, <2>4, <2>5, Told
<1>4. QED
  BY <1>2, <1>3

-----------------------------------------------------------------------------
(***************************************************************************)
(* The callbacks run.                                                      *)
(***************************************************************************)

\* Only one caller runs callbacks, and it is at the n-th of Arming.
LEMMA AtFacts ==
    ASSUME TypeOK, NEW n \in 0 .. 5, NEW p, Lifecycle(n, p),
           NEW c \in Callers, NEW x, NEW point, At(c, x, point)
    PROVE  /\ state = "stopping" /\ RunsAlone(c, n, p)
           /\ p = point /\ n \in 1 .. 5 /\ Arming[n] = x
<1>1. Runs(c) /\ todo[c] # << >> /\ Head(todo[c]) = x /\ phase[c] = point
  BY DEF At, Runs
<1>2. state = "stopping" /\ RunsAlone(c, n, p)
  BY <1>1 DEF Lifecycle, Left, RunsAlone
<1>3. n \in 1 .. 5
  BY <1>1, <1>2, RestFacts DEF RunsAlone
<1>4. QED
  BY <1>1, <1>2, <1>3, RestFacts DEF RunsAlone

\* The callers, while one of them runs callbacks.
LEMMA CallersRun ==
    ASSUME NEW n, CallersAt(n), state = "stopping", NEW m,
           UNCHANGED <<coordinator, pc, ret>>
    PROVE  CallersAt(m)'
<1>1. ~Rising' /\ ~Terminal' /\ ~Terminal
  BY DEF Rising, Terminal, coordinator
<1>2. stopErr' = "none" /\ stopErr = "none" /\ state' = "stopping"
  BY <1>1 DEF CallersAt, coordinator
<1>3. QED
  BY <1>1, <1>2 DEF CallersAt

\* A callback goes on to another point.
LEMMA Proceeds ==
    ASSUME TypeOK, NEW n \in 0 .. 5, NEW p, Lifecycle(n, p),
           NEW c \in Callers, NEW x, At(c, x, p),
           NEW point, NEW err \in BOOLEAN, Proceed(c, point, err)
    PROVE  /\ Left(n, point)' /\ RanAt(n)' /\ CallersAt(n)'
           /\ ~Rising /\ ~Rising'
           /\ Failed' <=> Failed \/ err
<1>1. state = "stopping" /\ RunsAlone(c, n, p)
  BY AtFacts
<1>2. state' = "stopping" /\ UNCHANGED <<coordinator, pc, ret, todo, ran>>
  BY <1>1 DEF Proceed, coordinator
<1>3. /\ phase'[c] = point
      /\ failures'[c] = (failures[c] \/ err)
      /\ \A d \in Callers \ {c} : /\ phase'[d] = phase[d]
                                  /\ failures'[d] = failures[d]
  BY DEF Proceed, TypeOK
<1>4. RunsAlone(c, n, point)'
  BY <1>1, <1>2, <1>3 DEF RunsAlone, Runs
<1>5. Failed' <=> Failed \/ err
  BY <1>3 DEF Failed
<1>6. RanAt(n)'
  BY <1>1, <1>2 DEF Lifecycle, RanAt, Rising
<1>7. CallersAt(n)'
  BY <1>1, <1>2, CallersRun DEF Lifecycle
<1>8. QED
  BY <1>1, <1>2, <1>4, <1>5, <1>6, <1>7 DEF Left, Rising

\* A callback returns, or runCallbacks passes over a hook.
LEMMA Passes ==
    ASSUME TypeOK, NEW n \in 0 .. 5, NEW p, Lifecycle(n, p),
           NEW c \in Callers, NEW x, At(c, x, p), NEW err \in BOOLEAN,
           todo' = [todo EXCEPT ![c] = Tail(@)],
           phase' = [phase EXCEPT ![c] = "begin"],
           failures' = [failures EXCEPT ![c] = @ \/ err],
           UNCHANGED <<coordinator, pc, ret>>
    PROVE  /\ Left(n - 1, "begin")' /\ CallersAt(n - 1)'
           /\ ~Rising /\ ~Rising'
           /\ Failed' <=> Failed \/ err
<1>1. state = "stopping" /\ RunsAlone(c, n, p) /\ n \in 1 .. 5
  BY AtFacts
<1>2. state' = "stopping"
  BY <1>1 DEF coordinator
<1>3. /\ phase'[c] = "begin"
      /\ failures'[c] = (failures[c] \/ err)
      /\ \A d \in Callers \ {c} : /\ phase'[d] = phase[d]
                                  /\ failures'[d] = failures[d]
  BY DEF TypeOK
<1>4. todo'[c] = Rest(n - 1)
  BY <1>1, RestFacts DEF TypeOK, RunsAlone
<1>5. RunsAlone(c, n - 1, "begin")'
  BY <1>1, <1>3, <1>4 DEF RunsAlone, Runs
<1>6. Failed' <=> Failed \/ err
  BY <1>3 DEF Failed
<1>7. CallersAt(n - 1)'
  BY <1>1, CallersRun DEF Lifecycle
<1>8. QED
  BY <1>1, <1>2, <1>5, <1>6, <1>7 DEF Left, Rising

\* The callback that ran is later in the reverse order than all before it.
LEMMA RanOne ==
    ASSUME NEW n \in 1 .. 5, RanAt(n), NEW x \in Callbacks, Place[x] = n,
           ran' = Append(ran, x), ~Rising'
    PROVE  RanAt(n - 1)'
<1>1. ran \in Seq(Callbacks)
  BY DEF RanAt
<1>2. /\ ran' \in Seq(Callbacks) /\ Len(ran') = Len(ran) + 1
      /\ \A i \in 1 .. Len(ran) : ran'[i] = ran[i]
      /\ ran'[Len(ran) + 1] = x
  BY <1>1, AppendProperties
<1>3. DOMAIN ran = 1 .. Len(ran) /\ DOMAIN ran' = 1 .. Len(ran')
      /\ Len(ran) \in Nat
  BY <1>1, <1>2
<1>4. \A i \in DOMAIN ran : Place[ran[i]] > n /\ Place[ran[i]] \in Nat
  BY <1>1, <1>3 DEF RanAt, Place, Callbacks
<1>5. ASSUME NEW i \in DOMAIN ran' PROVE Place[ran'[i]] > n - 1
  BY <1>2, <1>3, <1>4
<1>6. ASSUME NEW i \in DOMAIN ran', NEW j \in DOMAIN ran', i < j
      PROVE  Place[ran'[i]] > Place[ran'[j]]
  <2>1. i \in DOMAIN ran /\ ran'[i] = ran[i]
    BY <1>2, <1>3, <1>6
  <2>2. CASE j \in DOMAIN ran
    BY <1>2, <1>3, <1>6, <2>1, <2>2 DEF RanAt
  <2>3. CASE j \notin DOMAIN ran
    BY <1>2, <1>3, <1>4, <2>1, <2>3
  <2>4. QED
    BY <2>2, <2>3
<1>7. QED
  BY <1>2, <1>5, <1>6 DEF RanAt

\* A callback returns.
LEMMA Returns ==
    ASSUME TypeOK, NEW n \in 0 .. 5, NEW p, Lifecycle(n, p),
           NEW c \in Callers, NEW x \in Callbacks, At(c, x, p),
           NEW err \in BOOLEAN, Done(c, err)
    PROVE  /\ Left(n - 1, "begin")' /\ RanAt(n - 1)' /\ CallersAt(n - 1)'
           /\ ~Rising /\ ~Rising'
           /\ Failed' <=> Failed \/ err
<1>1. n \in 1 .. 5 /\ Arming[n] = x /\ ran' = Append(ran, x)
  BY AtFacts DEF Done, At
<1>2. Place[x] = n
  BY <1>1, ArmingFacts DEF Place, Callbacks
<1>3. /\ Left(n - 1, "begin")' /\ CallersAt(n - 1)'
      /\ ~Rising /\ ~Rising' /\ (Failed' <=> Failed \/ err)
  BY Passes DEF Done
<1>4. RanAt(n - 1)'
  BY <1>1, <1>2, <1>3, RanOne DEF Lifecycle
<1>5. QED
  BY <1>3, <1>4

\* The steps of the scheduler's callback.
LEMMA SchedulerRuns ==
    ASSUME TypeOK, NEW n \in 0 .. 5, NEW p, Lifecycle(n, p),
           NEW c \in Callers, SchedulerClose(c) \/ SchedulerDrain(c)
    PROVE  Lifecycle(n, "drain")' \/ Lifecycle(n - 1, "begin")'
<1>1. CASE SchedulerClose(c)
  <2>1. n = 5 /\ p = "begin"
    BY <1>1, AtFacts, ArmingFacts DEF SchedulerClose
  <2>2. /\ Left(n, "drain")' /\ RanAt(n)' /\ CallersAt(n)'
        /\ ~Rising /\ ~Rising' /\ (Failed' <=> Failed)
    BY <1>1, <2>1, Proceeds DEF SchedulerClose
  <2>3. DatabaseAt(n)' /\ ExecutorAt(n, "drain")' /\ ServerAt(n, "drain")'
    BY <1>1, <2>1, <2>2
       DEF SchedulerClose, Lifecycle, DatabaseAt, ExecutorAt, ServerAt,
           Admitted, server, executor
  <2>4. SchedulerAt(n, "drain")'
    BY <1>1, <2>1, <2>2 DEF SchedulerClose, Lifecycle, SchedulerAt
  <2>5. QED
    BY <2>2, <2>3, <2>4 DEF Lifecycle
<1>2. CASE SchedulerDrain(c)
  <2>1. n = 5 /\ p = "drain" /\ At(c, "scheduler", "drain")
    BY <1>2, AtFacts, ArmingFacts DEF SchedulerDrain
  <2>2. PICK err \in BOOLEAN : /\ Done(c, err)
                               /\ err \/ (job = "ended" /\ ~auditFailed)
    BY <1>2 DEF SchedulerDrain, TypeOK
  <2>3. /\ Left(n - 1, "begin")' /\ RanAt(n - 1)' /\ CallersAt(n - 1)'
        /\ ~Rising /\ ~Rising' /\ (Failed' <=> Failed \/ err)
    BY <2>1, <2>2, Returns DEF Callbacks
  <2>4. /\ DatabaseAt(n - 1)' /\ ExecutorAt(n - 1, "begin")'
        /\ ServerAt(n - 1, "begin")'
    BY <1>2, <2>1, <2>3
       DEF SchedulerDrain, Lifecycle, DatabaseAt, ExecutorAt, ServerAt,
           Admitted, server, executor
  <2>5. SchedulerAt(n - 1, "begin")'
    BY <1>2, <2>1, <2>2, <2>3
       DEF SchedulerDrain, Lifecycle, SchedulerAt, scheduler
  <2>6. QED
    BY <2>3, <2>4, <2>5 DEF Lifecycle
<1>3. QED
  BY <1>1, <1>2

\* The steps of the server's callback.
LEMMA ServerRuns ==
    ASSUME TypeOK, NEW n \in 0 .. 5, NEW p, Lifecycle(n, p), NEW c \in Callers,
           ServerShutdown(c) \/ ServerDrain(c) \/ ServerObserve(c)
    PROVE  \/ Lifecycle(n, "drain")' \/ Lifecycle(n, "observe")'
           \/ Lifecycle(n - 1, "begin")'
<1>1. CASE ServerShutdown(c)
  <2>1. n = 4 /\ p = "begin"
    BY <1>1, AtFacts, ArmingFacts DEF ServerShutdown
  <2>2. /\ Left(n, "drain")' /\ RanAt(n)' /\ CallersAt(n)'
        /\ ~Rising /\ ~Rising' /\ (Failed' <=> Failed)
    BY <1>1, <2>1, Proceeds DEF ServerShutdown
  <2>3. DatabaseAt(n)' /\ ExecutorAt(n, "drain")' /\ SchedulerAt(n, "drain")'
    BY <1>1, <2>1, <2>2
       DEF ServerShutdown, Lifecycle, DatabaseAt, ExecutorAt, SchedulerAt,
           Admitted, scheduler, executor
  <2>4. ServerAt(n, "drain")'
    BY <1>1, <2>1, <2>2 DEF ServerShutdown, Lifecycle, ServerAt
  <2>5. QED
    BY <2>2, <2>3, <2>4 DEF Lifecycle
<1>2. CASE ServerDrain(c)
  <2>1. n = 4 /\ p = "drain" /\ At(c, "server", "drain")
    BY <1>2, AtFacts, ArmingFacts DEF ServerDrain
  <2>2. PICK err \in BOOLEAN : /\ Proceed(c, "observe", err)
                               /\ err \/ requests = 0
    BY <1>2 DEF ServerDrain
  <2>3. /\ Left(n, "observe")' /\ RanAt(n)' /\ CallersAt(n)'
        /\ ~Rising /\ ~Rising' /\ (Failed' <=> Failed \/ err)
    BY <2>1, <2>2, Proceeds
  <2>4. /\ DatabaseAt(n)' /\ ExecutorAt(n, "observe")'
        /\ SchedulerAt(n, "observe")'
    BY <1>2, <2>1, <2>3
       DEF ServerDrain, Lifecycle, DatabaseAt, ExecutorAt, SchedulerAt,
           Admitted, scheduler, executor
  <2>5. ServerAt(n, "observe")'
    BY <1>2, <2>1, <2>2, <2>3 DEF ServerDrain, Lifecycle, ServerAt, server
  <2>6. QED
    BY <2>3, <2>4, <2>5 DEF Lifecycle
<1>3. CASE ServerObserve(c)
  <2>1. n = 4 /\ p = "observe" /\ At(c, "server", "observe")
    BY <1>3, AtFacts, ArmingFacts DEF ServerObserve
  <2>2. PICK err \in BOOLEAN : /\ Done(c, err)
                               /\ err \/ (serveErrors /\ serve # "failed")
                               /\ serveErrors' => serveErrors
    <3> DEFINE broken == serve = "failed"
    <3>1. broken \in BOOLEAN
      OBVIOUS
    <3>2. \/ serveErrors /\ serveErrors' = FALSE /\ Done(c, broken)
          \/ Done(c, TRUE) /\ serveErrors' = serveErrors
      BY <1>3 DEF ServerObserve
    <3>3. CASE serveErrors /\ serveErrors' = FALSE /\ Done(c, broken)
      <4>1. broken \/ (serveErrors /\ serve # "failed")
        BY <3>3
      <4>2. serveErrors' => serveErrors
        BY <3>3
      <4> HIDE DEF broken
      <4>3. QED
        BY <3>1, <3>3, <4>1, <4>2, Zenon
    <3>4. CASE Done(c, TRUE) /\ serveErrors' = serveErrors
      BY <3>4
    <3>5. QED
      BY <3>2, <3>3, <3>4
  <2>3. /\ Left(n - 1, "begin")' /\ RanAt(n - 1)' /\ CallersAt(n - 1)'
        /\ ~Rising /\ ~Rising' /\ (Failed' <=> Failed \/ err)
    BY <2>1, <2>2, Returns DEF Callbacks
  <2>4. /\ DatabaseAt(n - 1)' /\ ExecutorAt(n - 1, "begin")'
        /\ SchedulerAt(n - 1, "begin")'
    BY <1>3, <2>1, <2>3
       DEF ServerObserve, Lifecycle, DatabaseAt, ExecutorAt, SchedulerAt,
           Admitted, scheduler, executor
  <2>5. ServerAt(n - 1, "begin")'
    BY <1>3, <2>1, <2>2, <2>3 DEF ServerObserve, Lifecycle, ServerAt
  <2>6. QED
    BY <2>3, <2>4, <2>5 DEF Lifecycle
<1>4. QED
  BY <1>1, <1>2, <1>3

\* The steps of the executor's callback.
LEMMA ExecutorRuns ==
    ASSUME TypeOK, NEW n \in 0 .. 5, NEW p, Lifecycle(n, p),
           NEW c \in Callers, ExecutorClose(c) \/ ExecutorDrain(c)
    PROVE  Lifecycle(n, "drain")' \/ Lifecycle(n - 1, "begin")'
<1>1. CASE ExecutorClose(c)
  <2>1. n = 2 /\ p = "begin"
    BY <1>1, AtFacts, ArmingFacts DEF ExecutorClose
  <2>2. /\ Left(n, "drain")' /\ RanAt(n)' /\ CallersAt(n)'
        /\ ~Rising /\ ~Rising' /\ (Failed' <=> Failed)
    BY <1>1, <2>1, Proceeds DEF ExecutorClose
  <2>3. DatabaseAt(n)' /\ ServerAt(n, "drain")' /\ SchedulerAt(n, "drain")'
    BY <1>1, <2>1, <2>2
       DEF ExecutorClose, Lifecycle, DatabaseAt, ServerAt, SchedulerAt,
           server, scheduler
  <2>4. ExecutorAt(n, "drain")'
    BY <1>1, <2>1, <2>2 DEF ExecutorClose, Lifecycle, ExecutorAt, Admitted
  <2>5. QED
    BY <2>2, <2>3, <2>4 DEF Lifecycle
<1>2. CASE ExecutorDrain(c)
  <2>1. n = 2 /\ p = "drain" /\ At(c, "async", "drain")
    BY <1>2, AtFacts, ArmingFacts DEF ExecutorDrain
  <2>2. PICK err \in BOOLEAN : /\ Done(c, err)
                               /\ err \/ (tasksDone /\ ~taskFailed)
    BY <1>2 DEF ExecutorDrain, TypeOK
  <2>3. /\ Left(n - 1, "begin")' /\ RanAt(n - 1)' /\ CallersAt(n - 1)'
        /\ ~Rising /\ ~Rising' /\ (Failed' <=> Failed \/ err)
    BY <2>1, <2>2, Returns DEF Callbacks
  <2>4. /\ DatabaseAt(n - 1)' /\ ServerAt(n - 1, "begin")'
        /\ SchedulerAt(n - 1, "begin")'
    BY <1>2, <2>1, <2>3
       DEF ExecutorDrain, Lifecycle, DatabaseAt, ServerAt, SchedulerAt,
           server, scheduler
  <2>5. ExecutorAt(n - 1, "begin")'
    BY <1>2, <2>1, <2>2, <2>3
       DEF ExecutorDrain, Lifecycle, ExecutorAt, Admitted, executor
  <2>6. QED
    BY <2>3, <2>4, <2>5 DEF Lifecycle
<1>3. QED
  BY <1>1, <1>2

\* The cleanup of the database, the last callback.
LEMMA DatabaseRuns ==
    ASSUME TypeOK, NEW n \in 0 .. 5, NEW p, Lifecycle(n, p),
           NEW c \in Callers, DatabaseClose(c)
    PROVE  Lifecycle(n - 1, "begin")'
<1>1. n = 1 /\ p = "begin" /\ At(c, "database", "begin")
  BY AtFacts, ArmingFacts DEF DatabaseClose
<1>2. PICK err \in BOOLEAN : Done(c, err)
  BY DEF DatabaseClose
<1>3. /\ Left(n - 1, "begin")' /\ RanAt(n - 1)' /\ CallersAt(n - 1)'
      /\ ~Rising /\ ~Rising' /\ (Failed' <=> Failed \/ err)
  BY <1>1, <1>2, Returns DEF Callbacks
<1>4. ExecutorAt(n - 1, "begin")' /\ DatabaseAt(n - 1)'
  BY <1>1, <1>3
     DEF DatabaseClose, Lifecycle, DatabaseAt, ExecutorAt, Admitted, executor
<1>5. ServerAt(n - 1, "begin")' /\ SchedulerAt(n - 1, "begin")'
  BY <1>1, <1>3
     DEF DatabaseClose, Lifecycle, ServerAt, SchedulerAt, server, scheduler
<1>6. QED
  BY <1>3, <1>4, <1>5 DEF Lifecycle

\* Migrate's hook has no callback.
LEMMA HookSkipped ==
    ASSUME TypeOK, NEW n \in 0 .. 5, NEW p, Lifecycle(n, p),
           NEW c \in Callers, SkipHook(c)
    PROVE  Lifecycle(n - 1, "begin")'
<1>1. n = 3 /\ p = "begin" /\ At(c, "migrate", "begin")
  BY AtFacts, ArmingFacts DEF SkipHook
<1>2. /\ phase' = [phase EXCEPT ![c] = "begin"]
      /\ failures' = [failures EXCEPT ![c] = @ \/ FALSE]
  BY <1>1 DEF SkipHook, At, TypeOK
<1>3. /\ Left(n - 1, "begin")' /\ CallersAt(n - 1)'
      /\ ~Rising /\ ~Rising' /\ (Failed' <=> Failed)
  BY <1>1, <1>2, Passes DEF SkipHook
<1>4. ExecutorAt(n - 1, "begin")' /\ DatabaseAt(n - 1)'
  BY <1>1, <1>3
     DEF SkipHook, Lifecycle, DatabaseAt, ExecutorAt, Admitted, executor
<1>5. ServerAt(n - 1, "begin")' /\ SchedulerAt(n - 1, "begin")'
  BY <1>1, <1>3
     DEF SkipHook, Lifecycle, ServerAt, SchedulerAt, server, scheduler
<1>6. RanAt(n - 1)'
  BY <1>1, <1>3 DEF SkipHook, Lifecycle, RanAt, Place, Callbacks
<1>7. QED
  BY <1>3, <1>4, <1>5, <1>6 DEF Lifecycle

\* The end.
LEMMA Completed ==
    ASSUME TypeOK, NEW n \in 0 .. 5, NEW p, Lifecycle(n, p),
           NEW c \in Callers, CompleteTerminal(c)
    PROVE  Lifecycle(n, p)'
<1>1. Runs(c) /\ todo[c] = << >>
  BY DEF CompleteTerminal, Runs
<1>2. state = "stopping" /\ RunsAlone(c, n, p)
  BY <1>1 DEF Lifecycle, Left, RunsAlone
<1>3. n = 0
  BY <1>1, <1>2, RestFacts DEF RunsAlone
<1>4. /\ ~Rising /\ ~Rising' /\ Terminal' /\ ~Terminal
      /\ (Failed' <=> Failed)
      /\ Failed <=> failures[c]
  BY <1>2 DEF CompleteTerminal, Rising, Terminal, Failed, RunsAlone
<1>5. /\ pc'[c] = "returned" /\ ret'[c] = stopErr'
      /\ \A d \in Callers \ {c} : pc'[d] = pc[d] /\ ret'[d] = ret[d]
  BY DEF CompleteTerminal, Return, Goto, TypeOK
<1>6. Left(n, p)'
  BY <1>2, <1>3, <1>4, <1>5 DEF Left, RunsAlone, Runs
<1>7. CallersAt(n)'
  <2>1. CallersAt(n) /\ stopErr = "none" /\ state' \in {"stopped", "failed"}
    BY <1>4 DEF Lifecycle, CallersAt, CompleteTerminal
  <2>2. stopErr' \in {"nil", "error"} /\ (stopErr' = "nil" => ~failures[c])
    BY DEF CompleteTerminal
  <2>3. \A d \in Callers : /\ ret'[d] = "none" <=> pc'[d] # "returned"
                           /\ ret'[d] = "nil" => stopErr' = "nil"
    BY <1>5, <2>1, <2>2 DEF CallersAt
  <2>4. pc'[Main] # "construct" /\ pc'[Main] # "starting"
    <3>1. pc[Main] # "construct" /\ pc[Main] # "starting" /\ Main \in Callers
      BY <1>2, <2>1 DEF CallersAt, Callers
    <3>2. QED
      BY <1>5, <3>1
  <2>5. QED
    BY <1>4, <2>1, <2>2, <2>3, <2>4 DEF CallersAt
<1>8. RanAt(n)'
  BY <1>4 DEF Lifecycle, RanAt, CompleteTerminal
<1>9. UNCHANGED <<db, server, scheduler, executor>>
  BY DEF CompleteTerminal
<1>10. QED
  BY <1>4, <1>6, <1>7, <1>8, <1>9, ResourcesStay DEF Lifecycle

-----------------------------------------------------------------------------
(***************************************************************************)
(* The other goroutines.                                                   *)
(***************************************************************************)

\* Serve and the requests.
LEMMA ServerSteps ==
    ASSUME TypeOK, NEW n \in 0 .. 5, NEW p, Lifecycle(n, p), Serve \/ Request
    PROVE  Lifecycle(n, p)'
<1>1. UNCHANGED <<coordinator, callers, db, scheduler, executor>>
  BY DEF Serve, Request
<1>2. /\ Left(n, p)' /\ RanAt(n)' /\ CallersAt(n)'
      /\ (Rising' <=> Rising) /\ (Failed' <=> Failed)
  BY <1>1, CallersStay DEF callers
<1>3. DatabaseAt(n)' /\ ExecutorAt(n, p)' /\ SchedulerAt(n, p)'
  BY <1>1, <1>2
     DEF Lifecycle, DatabaseAt, ExecutorAt, SchedulerAt, Admitted, scheduler,
         executor
<1>4. ServerAt(n, p)'
  <2>1. CASE Serve
    BY <1>2, <2>1 DEF Serve, Lifecycle, ServerAt
  <2>2. CASE Request
    BY <1>2, <2>2, ConstantsAssumption
       DEF Request, Lifecycle, ServerAt, TypeOK
  <2>3. QED
    BY <2>1, <2>2
<1>5. QED
  BY <1>2, <1>3, <1>4 DEF Lifecycle

\* The audit's goroutine.
LEMMA SchedulerSteps ==
    ASSUME TypeOK, NEW n \in 0 .. 5, NEW p, Lifecycle(n, p), RunJob
    PROVE  Lifecycle(n, p)'
<1>1. UNCHANGED <<coordinator, callers, db, server, executor>>
  BY DEF RunJob
<1>2. /\ Left(n, p)' /\ RanAt(n)' /\ CallersAt(n)'
      /\ (Rising' <=> Rising) /\ (Failed' <=> Failed)
  BY <1>1, CallersStay DEF callers
<1>3. DatabaseAt(n)' /\ ExecutorAt(n, p)' /\ ServerAt(n, p)'
  BY <1>1, <1>2
     DEF Lifecycle, DatabaseAt, ExecutorAt, ServerAt, Admitted, server,
         executor
<1>4. SchedulerAt(n, p)'
  BY <1>2 DEF RunJob, Lifecycle, SchedulerAt
<1>5. QED
  BY <1>2, <1>3, <1>4 DEF Lifecycle

\* Submissions, tasks and the end of the executor.
LEMMA ExecutorSteps ==
    ASSUME TypeOK, NEW n \in 0 .. 5, NEW p, Lifecycle(n, p),
           \/ \E s \in Submitters : Submit(s) \/ RunTask(s)
           \/ TasksDone
    PROVE  Lifecycle(n, p)'
<1>1. UNCHANGED <<coordinator, callers, db, server, scheduler>>
  BY DEF Submit, RunTask, TasksDone
<1>2. /\ Left(n, p)' /\ RanAt(n)' /\ CallersAt(n)'
      /\ (Rising' <=> Rising) /\ (Failed' <=> Failed)
  BY <1>1, CallersStay DEF callers
<1>3. DatabaseAt(n)' /\ ServerAt(n, p)' /\ SchedulerAt(n, p)'
  BY <1>1, <1>2
     DEF Lifecycle, DatabaseAt, ServerAt, SchedulerAt, server, scheduler
<1>4. ExecutorAt(n, p)'
  <2>1. CASE TasksDone
    BY <1>2, <2>1 DEF TasksDone, Lifecycle, ExecutorAt, Admitted
  <2>2. ASSUME NEW s \in Submitters, Submit(s) PROVE ExecutorAt(n, p)'
    <3>1. state = "ready" => n = 5
      BY DEF Lifecycle, CallersAt
    <3>2. UNCHANGED <<closed, tasksDone, taskFailed>>
      BY <2>2 DEF Submit
    <3>3. PICK to \in {"idle", "submitting", "slot", "running"} :
             /\ task' = [task EXCEPT ![s] = to]
             /\ to = "running" => ~closed
             /\ task[s] = "idle" => state = "ready"
      BY <2>2 DEF Submit, Admit, Goes
    <3>4. closed => Admitted' \subseteq Admitted
      BY <3>2, <3>3 DEF Admitted, TypeOK
    <3>5. n < 2 => \E q \in Submitters : task[q] # "idle"
      BY <3>1, <3>3
    <3>6. QED
      BY <1>2, <3>2, <3>4, <3>5 DEF Lifecycle, ExecutorAt
  <2>3. ASSUME NEW s \in Submitters, RunTask(s) PROVE ExecutorAt(n, p)'
    <3>1. s \in Admitted /\ task[s] # "idle"
      BY <2>3 DEF RunTask, Goes, Admitted
    <3>2. UNCHANGED <<closed, tasksDone>>
      BY <2>3 DEF RunTask
    <3>3. ~tasksDone
      BY <3>1 DEF Lifecycle, ExecutorAt
    <3>4. QED
      BY <1>2, <3>1, <3>2, <3>3 DEF Lifecycle, ExecutorAt
  <2>4. QED
    BY <2>1, <2>2, <2>3
<1>5. QED
  BY <1>2, <1>3, <1>4 DEF Lifecycle

-----------------------------------------------------------------------------
(***************************************************************************)
(* Construction and start.                                                 *)
(***************************************************************************)

\* While the main goroutine constructs or starts the application, the armed
\* callbacks are the coordinator's.
LEMMA RisingFacts ==
    ASSUME NEW n \in 0 .. 5, NEW p, Lifecycle(n, p),
           pc[Main] \in {"construct", "starting"}
    PROVE  /\ Rising /\ ~Terminal /\ state # "stopping"
           /\ p = "begin" /\ Armed(n)
           /\ \A c \in Callers : ~Runs(c) /\ phase[c] = "begin" /\ ~failures[c]
<1>1. state = "constructed" \/ state = "starting"
  BY DEF Lifecycle, CallersAt
<1>2. Rising /\ ~Terminal /\ state # "stopping"
  BY <1>1 DEF Rising, Terminal
<1>3. QED
  BY <1>2 DEF Lifecycle, Left

\* Abort and failStart.
LEMMA RolledBack ==
    ASSUME TypeOK, NEW n \in 0 .. 5, NEW p, Lifecycle(n, p),
           pc[Main] \in {"construct", "starting"}, RollBack(Main),
           UNCHANGED <<db, server, scheduler, executor>>
    PROVE  Lifecycle(n, p)'
<1>1. Rising /\ Main \in Callers
  BY RisingFacts DEF Callers
<1>2. /\ state' = "stopping" /\ TakeCallbacks(Main) /\ Goto(Main, "aborting")
      /\ failures' = [failures EXCEPT ![Main] = TRUE]
      /\ UNCHANGED <<stopErr, ret, phase, ran>>
  BY DEF RollBack
<1>3. QED
  BY <1>1, <1>2, Taken

\* One more bean has armed a cleanup.
LEMMA Constructs ==
    ASSUME TypeOK, NEW n \in 0 .. 5, NEW p, Lifecycle(n, p),
           ConstructDatabase \/ ConstructExecutor
    PROVE  n < 2 /\ Lifecycle(n + 1, p)'
<1>0. pc[Main] = "construct"
  BY DEF ConstructDatabase, ConstructExecutor
<1>1. /\ Rising /\ ~Terminal /\ state # "stopping"
      /\ p = "begin" /\ Armed(n)
      /\ \A c \in Callers : ~Runs(c) /\ phase[c] = "begin" /\ ~failures[c]
  BY <1>0, RisingFacts
<1>2. /\ state = "constructed" /\ n < 3
      /\ \A c \in Stoppers : pc[c] = "absent"
  BY <1>0 DEF Lifecycle, CallersAt
<1>3. UNCHANGED <<state, started, stopErr, pc, ret, todo, phase, failures, ran,
                  server, scheduler, executor>>
  BY DEF ConstructDatabase, ConstructExecutor, callers
<1>4. /\ (Rising' <=> Rising) /\ (Failed' <=> Failed)
      /\ (Terminal' <=> Terminal)
      /\ \A c \in Callers : Runs(c)' <=> Runs(c)
  BY <1>3 DEF Rising, Failed, Terminal, Runs
<1>5. CASE ConstructDatabase
  <2>1. n = 0 /\ db' = "open" /\ cleanups' = <<"database">>
    BY <1>1, <1>5 DEF ConstructDatabase, Armed
  <2>2. Armed(n + 1)'
    BY <1>1, <1>3, <2>1 DEF Armed
  <2>3. Left(n + 1, p)'
    BY <1>1, <1>3, <1>4, <2>2 DEF Left
  <2>4. DatabaseAt(n + 1)' /\ ExecutorAt(n + 1, p)'
    BY <1>1, <1>3, <1>4, <2>1
       DEF Lifecycle, DatabaseAt, ExecutorAt, Admitted, executor
  <2>5. ServerAt(n + 1, p)' /\ SchedulerAt(n + 1, p)'
    BY <1>1, <1>3, <1>4, <2>1
       DEF Lifecycle, ServerAt, SchedulerAt, server, scheduler
  <2>6. CallersAt(n + 1)'
    BY <1>0, <1>2, <1>3, <1>4, <2>1 DEF Lifecycle, CallersAt
  <2>7. RanAt(n + 1)'
    <3>1. ran = << >>
      BY <1>1 DEF Lifecycle, RanAt
    <3>2. QED
      BY <1>3, <3>1 DEF RanAt
  <2>8. QED
    BY <2>1, <2>3, <2>4, <2>5, <2>6, <2>7 DEF Lifecycle
<1>6. CASE ConstructExecutor
  <2>1. n = 1 /\ db' = db /\ cleanups' = <<"database", "async">>
    BY <1>1, <1>6 DEF ConstructExecutor, Armed
  <2>2. Armed(n + 1)'
    BY <1>1, <1>3, <2>1 DEF Armed
  <2>3. Left(n + 1, p)'
    BY <1>1, <1>3, <1>4, <2>2 DEF Left
  <2>4. DatabaseAt(n + 1)' /\ ExecutorAt(n + 1, p)'
    BY <1>1, <1>3, <1>4, <2>1
       DEF Lifecycle, DatabaseAt, ExecutorAt, Admitted, executor
  <2>5. ServerAt(n + 1, p)' /\ SchedulerAt(n + 1, p)'
    BY <1>1, <1>3, <1>4, <2>1
       DEF Lifecycle, ServerAt, SchedulerAt, server, scheduler
  <2>6. CallersAt(n + 1)'
    BY <1>0, <1>2, <1>3, <1>4, <2>1 DEF Lifecycle, CallersAt
  <2>7. RanAt(n + 1)'
    <3>1. ran = << >>
      BY <1>1 DEF Lifecycle, RanAt
    <3>2. QED
      BY <1>3, <3>1 DEF RanAt
  <2>8. QED
    BY <2>1, <2>3, <2>4, <2>5, <2>6, <2>7 DEF Lifecycle
<1>7. QED
  BY <1>5, <1>6

\* The application is returned to its holders.
LEMMA Returned ==
    ASSUME TypeOK, NEW n \in 0 .. 5, NEW p, Lifecycle(n, p), Constructed
    PROVE  Lifecycle(n, p)'
<1>0. pc[Main] = "construct" /\ Main \in Callers /\ Main \notin Stoppers
  BY ConstantsAssumption DEF Constructed, Callers
<1>1. /\ Rising /\ ~Terminal /\ state # "stopping"
      /\ p = "begin" /\ Armed(n)
      /\ \A c \in Callers : ~Runs(c) /\ phase[c] = "begin" /\ ~failures[c]
  BY <1>0, RisingFacts
<1>2. n = 2 /\ state = "constructed"
  BY <1>0, <1>1 DEF Constructed, Armed, Lifecycle, CallersAt
<1>3. UNCHANGED <<coordinator, ret, todo, phase, failures, ran, db, server,
                  scheduler, executor>>
  BY DEF Constructed
<1>4. /\ (Rising' <=> Rising) /\ (Failed' <=> Failed)
      /\ (Terminal' <=> Terminal)
  BY <1>3 DEF Rising, Failed, Terminal, coordinator
<1>5. \A c \in Callers : pc'[c] \in {"built", "idle"} /\ ~Runs(c)'
  BY DEF Constructed, Runs
<1>6. pc'[Main] = "built"
  BY <1>0 DEF Constructed
<1>7. \A c \in Callers : pc[c] # "returned"
  BY <1>0 DEF Lifecycle, CallersAt, Callers
<1>8. Left(n, p)'
  BY <1>1, <1>3, <1>4, <1>5 DEF Left, Armed, coordinator
<1>9. RanAt(n)'
  BY <1>3, <1>4 DEF Lifecycle, RanAt
<1>10. CallersAt(n)'
  BY <1>2, <1>3, <1>4, <1>5, <1>6, <1>7
     DEF Lifecycle, CallersAt, coordinator
<1>11. QED
  BY <1>3, <1>4, <1>8, <1>9, <1>10, ResourcesStay DEF Lifecycle

\* Start begins.
LEMMA StartBegun ==
    ASSUME TypeOK, NEW n \in 0 .. 5, NEW p, Lifecycle(n, p), BeginStart
    PROVE  Lifecycle(n, p)'
<1>0. pc[Main] = "built" /\ Main \in Callers /\ ~Runs(Main)
      /\ Main \notin Stoppers
  BY ConstantsAssumption DEF BeginStart, Callers, Runs
<1>1. CASE state # "constructed"
  <2>1. UNCHANGED coordinator /\ Return(Main, "error")
    BY <1>1 DEF BeginStart, coordinator
  <2>2. QED
    BY <1>0, <2>1, Told DEF BeginStart
<1>2. CASE state = "constructed"
  <2>1. /\ state' = "starting" /\ Goto(Main, "starting")
        /\ UNCHANGED <<cleanups, started, stopErr, ret, todo, phase, failures,
                       ran, db, server, scheduler, executor>>
    BY <1>2 DEF BeginStart
  <2>2. /\ Rising /\ Rising' /\ ~Terminal /\ ~Terminal' /\ (Failed' <=> Failed)
        /\ state # "stopping"
    BY <1>2, <2>1 DEF Rising, Failed, Terminal
  <2>3. /\ p = "begin" /\ Armed(n)
        /\ \A c \in Callers : ~Runs(c) /\ phase[c] = "begin" /\ ~failures[c]
    BY <2>2 DEF Lifecycle, Left
  <2>4. /\ pc'[Main] = "starting"
        /\ \A c \in Callers \ {Main} : pc'[c] = pc[c]
        /\ \A c \in Stoppers : pc'[c] = pc[c]
    BY <1>0, <2>1 DEF Goto, TypeOK, Callers
  <2>5. \A c \in Callers : ~Runs(c)'
    BY <2>3, <2>4 DEF Runs
  <2>6. Left(n, p)'
    BY <2>1, <2>2, <2>3, <2>5 DEF Left, Armed
  <2>7. RanAt(n)'
    BY <2>1, <2>2 DEF Lifecycle, RanAt
  <2>8. CallersAt(n)'
    <3>1. CallersAt(n) /\ n > 1
      BY <1>0, <2>2 DEF Lifecycle, CallersAt
    <3>2. \A c \in Callers : /\ ret'[c] = "none" <=> pc'[c] # "returned"
                             /\ ret'[c] = "nil" => stopErr' = "nil"
      BY <1>0, <2>1, <2>4, <3>1 DEF CallersAt
    <3>3. stopErr' = "none"
      BY <2>1, <2>2, <3>1 DEF CallersAt
    <3>4. QED
      BY <2>1, <2>2, <2>4, <3>1, <3>2, <3>3 DEF CallersAt
  <2>9. QED
    BY <2>1, <2>2, <2>6, <2>7, <2>8, ResourcesStay DEF Lifecycle
<1>3. QED
  BY <1>1, <1>2

\* One element more.
LEMMA AppendIs ==
    ASSUME NEW S, NEW s \in Seq(S), NEW x \in S, NEW d \in Seq(S),
           Len(d) = Len(s) + 1,
           \A i \in 1 .. Len(s) : d[i] = s[i], d[Len(s) + 1] = x
    PROVE  Append(s, x) = d
<1> DEFINE e == Append(s, x)
<1>1. /\ e \in Seq(S) /\ Len(e) = Len(s) + 1
      /\ \A i \in 1 .. Len(s) : e[i] = s[i]
      /\ e[Len(s) + 1] = x
  BY AppendProperties
<1> HIDE DEF e
<1>2. \A i \in 1 .. Len(e) : e[i] = d[i]
  BY <1>1
<1>3. e = d
  BY <1>1, <1>2, SeqEqual
<1>4. QED
  BY <1>3 DEF e

\* One hook more.
LEMMA HookAppended ==
    ASSUME NEW n \in 2 .. 4, Armed(n),
           started' = Append(started, Hooks[Len(started) + 1]),
           UNCHANGED cleanups
    PROVE  /\ Armed(n + 1)'
           /\ Hooks[Len(started) + 1] = Arming[n + 1]
<1> DEFINE S == {"migrate", "server", "scheduler"}
           one == <<"migrate">>
           two == <<"migrate", "server">>
<1>1. /\ one \in Seq(S) /\ Len(one) = 1 /\ one[1] = "migrate"
      /\ two \in Seq(S) /\ Len(two) = 2
      /\ two[1] = "migrate" /\ two[2] = "server"
      /\ Hooks \in Seq(S) /\ Len(Hooks) = 3 /\ Hooks[1] = "migrate"
      /\ Hooks[2] = "server" /\ Hooks[3] = "scheduler"
      /\ "server" \in S /\ "scheduler" \in S
  BY DEF Hooks
<1>2. /\ cleanups' = <<"database", "async">>
      /\ \/ n = 2 /\ started = << >>
         \/ n = 3 /\ started = one
         \/ n = 4 /\ started = two
  BY DEF Armed
<1>3. CASE n = 2 /\ started = << >>
  <2>1. started' = <<"migrate">>
    BY <1>1, <1>3
  <2>2. QED
    BY <1>2, <1>3, <2>1 DEF Armed, Hooks, Arming
<1>4. CASE n = 3 /\ started = one
  <2> HIDE DEF one, two, S
  <2>1. started' = two
    BY <1>1, <1>4, AppendIs
  <2>2. Arming[4] = "server" /\ Hooks[Len(started) + 1] = "server"
    <3>1. Arming[4] = "server"
      BY DEF Arming
    <3>2. Len(started) = Len(one)
      BY <1>4
    <3>3. Len(started) + 1 = 2
      BY <1>1, <3>2
    <3>4. QED
      BY <1>1, <3>1, <3>3
  <2>3. n + 1 = 4
    BY <1>4
  <2>4. Armed(4)'
    BY <1>2, <2>1 DEF Armed, two
  <2>5. QED
    BY <2>2, <2>3, <2>4
<1>5. CASE n = 4 /\ started = two
  <2> HIDE DEF one, two, S
  <2>1. started' = Hooks
    <3>1. Len(started) + 1 = 3
      BY <1>1, <1>5, SMTT(30)
    <3>2. \A i \in 1 .. Len(two) : Hooks[i] = two[i]
      BY <1>1
    <3>3. Len(Hooks) = Len(two) + 1 /\ Hooks[Len(two) + 1] = "scheduler"
      BY <1>1
    <3>4. Append(two, "scheduler") = Hooks
      BY <1>1, <3>2, <3>3, AppendIs, Zenon
    <3>5. QED
      BY <1>1, <1>5, <3>1, <3>4
  <2>2. Arming[5] = "scheduler" /\ Hooks[Len(started) + 1] = "scheduler"
    <3>1. Arming[5] = "scheduler"
      BY DEF Arming
    <3>2. Len(started) + 1 = 3
      BY <1>1, <1>5, SMTT(30)
    <3>3. QED
      BY <1>1, <3>1, <3>2
  <2>3. n + 1 = 5
    BY <1>5
  <2>4. Armed(5)'
    BY <1>2, <2>1 DEF Armed
  <2>5. QED
    BY <2>2, <2>3, <2>4
<1>6. QED
  BY <1>2, <1>3, <1>4, <1>5

\* Start runs the next hook, fails or is ready.
LEMMA HookStarted ==
    ASSUME TypeOK, NEW n \in 0 .. 5, NEW p, Lifecycle(n, p), StartHook
    PROVE  Lifecycle(n, p)' \/ (n < 5 /\ Lifecycle(n + 1, p)')
<1>0. pc[Main] = "starting" /\ Main \in Callers /\ Main \notin Stoppers
  BY ConstantsAssumption DEF StartHook, Callers
<1>1. /\ Rising /\ ~Terminal /\ state # "stopping"
      /\ p = "begin" /\ Armed(n)
      /\ \A c \in Callers : ~Runs(c) /\ phase[c] = "begin" /\ ~failures[c]
  BY <1>0, RisingFacts
<1>2. state = "starting" /\ n > 1
  BY <1>0 DEF Lifecycle, CallersAt
<1>3. Len(started) = n - 2 /\ DOMAIN Hooks = 1 .. 3
  <2>1. /\ Len(<<"migrate">>) = 1 /\ Len(<<"migrate", "server">>) = 2
        /\ Len(Hooks) = 3 /\ DOMAIN Hooks = 1 .. 3
    BY DEF Hooks
  <2>2. \/ n = 2 /\ started = << >>
        \/ n = 3 /\ started = <<"migrate">>
        \/ n = 4 /\ started = <<"migrate", "server">>
        \/ n = 5 /\ started = Hooks
    BY <1>1, <1>2 DEF Armed
  <2>3. CASE n = 2 /\ started = << >>
    BY <2>1, <2>3
  <2>4. CASE n = 3 /\ started = <<"migrate">>
    BY <2>1, <2>4
  <2>5. CASE n = 4 /\ started = <<"migrate", "server">>
    BY <2>1, <2>5
  <2>6. CASE n = 5 /\ started = Hooks
    BY <2>1, <2>6
  <2>7. QED
    BY <2>2, <2>3, <2>4, <2>5, <2>6
<1>4. CASE RollBack(Main) /\ UNCHANGED <<server, scheduler>>
  BY <1>0, <1>4, RolledBack DEF StartHook
<1>5. CASE /\ Len(started) + 1 \notin DOMAIN Hooks
           /\ state' = "ready" /\ Goto(Main, "running")
           /\ UNCHANGED <<cleanups, started, stopErr, ret, todo, phase,
                          failures, expired, ran, server, scheduler>>
  <2>1. n = 5
    BY <1>3, <1>5
  <2>2. /\ Rising' /\ ~Terminal' /\ (Failed' <=> Failed)
        /\ UNCHANGED <<db, server, scheduler, executor>>
    BY <1>5 DEF Rising, Failed, Terminal, StartHook
  <2>3. /\ pc'[Main] = "running"
        /\ \A c \in Callers \ {Main} : pc'[c] = pc[c]
        /\ \A c \in Stoppers : pc'[c] = pc[c]
    BY <1>0, <1>5 DEF Goto, TypeOK, Callers
  <2>4. \A c \in Callers : ~Runs(c)'
    BY <1>1, <2>3 DEF Runs
  <2>5. Left(n, p)'
    BY <1>1, <1>5, <2>2, <2>4 DEF Left, Armed
  <2>6. RanAt(n)'
    BY <1>1, <1>5, <2>2 DEF Lifecycle, RanAt
  <2>7. CallersAt(n)'
    <3>1. CallersAt(n)
      BY DEF Lifecycle
    <3>2. \A c \in Callers : /\ ret'[c] = "none" <=> pc'[c] # "returned"
                             /\ ret'[c] = "nil" => stopErr' = "nil"
      BY <1>0, <1>5, <2>3, <3>1 DEF CallersAt
    <3>3. stopErr' = "none"
      BY <1>1, <1>5, <3>1 DEF CallersAt
    <3>4. QED
      BY <1>5, <2>1, <2>2, <2>3, <3>2, <3>3 DEF CallersAt
  <2>8. QED
    BY <1>1, <2>2, <2>5, <2>6, <2>7, ResourcesStay DEF Lifecycle
<1>6. CASE /\ Len(started) + 1 \in DOMAIN Hooks
           /\ started' = Append(started, Hooks[Len(started) + 1])
           /\ IF Hooks[Len(started) + 1] = "server" THEN ServerStart
              ELSE UNCHANGED server
           /\ job' = IF Hooks[Len(started) + 1] = "scheduler" THEN "waiting"
                     ELSE job
           /\ UNCHANGED <<state, cleanups, stopErr, callers, loopDone,
                          auditFailed>>
  <2>1. n \in 2 .. 4
    BY <1>2, <1>3, <1>6
  <2>2. Armed(n + 1)' /\ Hooks[Len(started) + 1] = Arming[n + 1]
    BY <1>1, <1>6, <2>1, HookAppended
  <2>3. /\ Rising' /\ ~Terminal' /\ (Failed' <=> Failed) /\ ~Failed
        /\ UNCHANGED <<db, executor>>
    BY <1>1, <1>6
       DEF Rising, Failed, Terminal, StartHook, callers
  <2>4. UNCHANGED <<pc, ret, todo, phase, failures, ran>>
    BY <1>6 DEF callers
  <2>5. Left(n + 1, p)'
    BY <1>1, <2>2, <2>3, <2>4 DEF Left, Runs
  <2>6. DatabaseAt(n + 1)' /\ ExecutorAt(n + 1, p)'
    BY <1>1, <2>1, <2>3
       DEF Lifecycle, DatabaseAt, ExecutorAt, Admitted, executor
  <2>7. ServerAt(n + 1, p)'
    <3>1. CASE n = 3
      <4>1. listener' = "open" /\ serve' = "spawned"
            /\ UNCHANGED <<inShutdown, serveErrors, requests>>
        BY <1>6, <2>2, <3>1 DEF Arming, ServerStart
      <4>2. QED
        BY <1>1, <2>3, <3>1, <4>1 DEF Lifecycle, ServerAt
    <3>2. CASE n # 3
      <4>1. UNCHANGED server
        BY <1>6, <2>1, <2>2, <3>2, ArmingFacts
      <4>2. QED
        BY <1>1, <2>1, <2>3, <3>2, <4>1 DEF Lifecycle, ServerAt, server
    <3>3. QED
      BY <3>1, <3>2
  <2>8. SchedulerAt(n + 1, p)'
    <3>1. job = "none" /\ ~loopDone
      BY <1>1, <2>1 DEF Lifecycle, SchedulerAt
    <3>2. job' = "none" \/ n = 4
      BY <1>6, <2>1, <2>2, <3>1, ArmingFacts
    <3>3. QED
      BY <1>1, <1>6, <2>1, <2>3, <3>1, <3>2 DEF Lifecycle, SchedulerAt
  <2>9. RanAt(n + 1)'
    <3>1. ran = << >>
      BY <1>1 DEF Lifecycle, RanAt
    <3>2. QED
      BY <2>4, <3>1 DEF RanAt
  <2>10. CallersAt(n + 1)'
    BY <1>0, <1>1, <1>2, <1>6, <2>1, <2>3, <2>4 DEF Lifecycle, CallersAt
  <2>11. QED
    BY <2>1, <2>5, <2>6, <2>7, <2>8, <2>9, <2>10 DEF Lifecycle
<1>7. QED
  BY <1>4, <1>5, <1>6 DEF StartHook

-----------------------------------------------------------------------------
(***************************************************************************)
(* The invariant holds.                                                    *)
(***************************************************************************)

LEMMA InitInv == Init => Inv
<1> SUFFICES ASSUME Init PROVE Inv
  OBVIOUS
<1>1. Rising /\ ~Terminal /\ ~Failed
  BY DEF Init, Rising, Terminal, Failed
<1>2. Left(0, "begin")
  BY <1>1 DEF Init, Left, Armed, Runs
<1>3. DatabaseAt(0) /\ ExecutorAt(0, "begin")
  BY <1>1 DEF Init, DatabaseAt, ExecutorAt
<1>4. ServerAt(0, "begin") /\ SchedulerAt(0, "begin")
  BY DEF Init, ServerAt, SchedulerAt
<1>5. RanAt(0)
  BY DEF Init, RanAt
<1>6. CallersAt(0)
  <2>1. pc[Main] = "construct" /\ \A c \in Stoppers : pc[c] = "absent"
    BY ConstantsAssumption DEF Init, Callers
  <2>2. \A c \in Callers : ret[c] = "none" /\ pc[c] # "returned"
    BY DEF Init
  <2>3. QED
    BY <1>1, <2>1, <2>2 DEF Init, CallersAt
<1>7. QED
  BY <1>2, <1>3, <1>4, <1>5, <1>6, InitType DEF Inv, Lifecycle, Points

\* A caller that waits is told.
LEMMA Awaited ==
    ASSUME TypeOK, NEW n \in 0 .. 5, NEW p, Lifecycle(n, p),
           NEW c \in Callers, AwaitStop(c)
    PROVE  Lifecycle(n, p)'
<1>1. ~Runs(c) /\ pc[c] = "waiting"
  BY DEF AwaitStop, Runs
<1>2. \/ Terminal /\ Return(c, stopErr)
      \/ Return(c, "error")
  BY DEF AwaitStop, Terminal
<1>3. Terminal => stopErr \in {"nil", "error"}
  BY DEF Lifecycle, CallersAt
<1>4. \E result \in {"nil", "error"} :
         Return(c, result) /\ (result = "nil" => stopErr = "nil")
  BY <1>2, <1>3
<1>5. QED
  BY <1>1, <1>4, Told DEF AwaitStop

\* Every step of every goroutine.
LEMMA StepLifecycle ==
    ASSUME TypeOK, NEW n \in 0 .. 5, NEW p \in Points, Lifecycle(n, p),
           [Next]_vars
    PROVE  \E m \in 0 .. 5, q \in Points : Lifecycle(m, q)'
<1>0. "begin" \in Points /\ "drain" \in Points /\ "observe" \in Points
  BY DEF Points
<1>1. CASE UNCHANGED vars \/ \E c \in Callers : Expire(c)
  <2>1. /\ UNCHANGED <<coordinator, pc, ret, todo, phase, failures, ran>>
        /\ UNCHANGED <<db, server, scheduler, executor>>
    BY <1>1 DEF vars, callers, Expire
  <2>2. QED
    BY <2>1, CallersStay, ResourcesStay DEF Lifecycle
<1>2. ASSUME NEW c \in Callers, RunCallbacks(c)
      PROVE  \E m \in 0 .. 5, q \in Points : Lifecycle(m, q)'
  <2>1. CASE CompleteTerminal(c)
    BY <2>1, Completed
  <2>2. CASE ~CompleteTerminal(c)
    <3>1. n - 1 \in 0 .. 5
      <4>1. \E x, point : At(c, x, point)
        BY <1>2, <2>2
           DEF RunCallbacks, SchedulerClose, SchedulerDrain, ServerShutdown,
               ServerDrain, ServerObserve, ExecutorClose, ExecutorDrain,
               DatabaseClose, SkipHook
      <4>2. n \in 1 .. 5
        BY <4>1, AtFacts
      <4>3. QED
        BY <4>2
    <3>2. \/ Lifecycle(n, "drain")' \/ Lifecycle(n, "observe")'
          \/ Lifecycle(n - 1, "begin")'
      BY <1>2, <2>2, SchedulerRuns, ServerRuns, ExecutorRuns, DatabaseRuns,
         HookSkipped DEF RunCallbacks
    <3>3. QED
      BY <1>0, <3>1, <3>2
  <2>3. QED
    BY <2>1, <2>2
<1>3. ASSUME NEW c \in Callers, AwaitStop(c)
      PROVE  \E m \in 0 .. 5, q \in Points : Lifecycle(m, q)'
  BY <1>3, Awaited
<1>4. CASE MainStep
  <2>0. Main \in Callers
    BY DEF Callers
  <2>1. CASE ConstructDatabase \/ ConstructExecutor
    <3>1. n + 1 \in 0 .. 5 /\ Lifecycle(n + 1, p)'
      BY <2>1, Constructs
    <3>2. QED
      BY <3>1
  <2>2. CASE Constructed \/ BeginStart
    BY <2>2, Returned, StartBegun
  <2>3. CASE BeanRefused
    BY <2>3, RolledBack DEF BeanRefused
  <2>4. CASE ConfigurationRefused
    <3>1. /\ pc[Main] = "construct" /\ ~Runs(Main) /\ Return(Main, "error")
          /\ UNCHANGED <<coordinator, todo, phase, failures, ran, db, server,
                         scheduler, executor>>
      BY <2>4 DEF ConfigurationRefused, Runs
    <3>2. Lifecycle(n, p)'
      BY <2>0, <3>1, Told
    <3>3. QED
      BY <3>2
  <2>5. CASE StartHook
    <3>1. Lifecycle(n, p)' \/ (n + 1 \in 0 .. 5 /\ Lifecycle(n + 1, p)')
      BY <2>5, HookStarted
    <3>2. QED
      BY <3>1
  <2>6. CASE MainStop
    BY <2>0, <2>6, Stopped DEF MainStop
  <2>7. QED
    BY <1>4, <2>1, <2>2, <2>3, <2>4, <2>5, <2>6 DEF MainStep
<1>5. ASSUME NEW c \in Stoppers, OtherStop(c)
      PROVE  \E m \in 0 .. 5, q \in Points : Lifecycle(m, q)'
  <2>1. c \in Callers /\ c # Main /\ pc[c] = "idle" /\ Stop(c)
    BY <1>5, ConstantsAssumption DEF OtherStop, Callers
  <2>2. Lifecycle(n, p)'
    BY <2>1, Stopped
  <2>3. QED
    BY <2>2
<1>6. CASE Serve \/ Request \/ RunJob
  BY <1>6, ServerSteps, SchedulerSteps
<1>7. CASE (\E s \in Submitters : Submit(s) \/ RunTask(s)) \/ TasksDone
  BY <1>7, ExecutorSteps
<1>8. QED
  BY <1>1, <1>2, <1>3, <1>4, <1>5, <1>6, <1>7 DEF Next, Goroutine

LEMMA StepInv == Inv /\ [Next]_vars => Inv'
<1> SUFFICES ASSUME Inv, [Next]_vars PROVE Inv'
  OBVIOUS
<1>1. PICK n \in 0 .. 5, p \in Points : Lifecycle(n, p)
  BY DEF Inv
<1>2. TypeOK
  BY DEF Inv
<1>3. \E m \in 0 .. 5, q \in Points : Lifecycle(m, q)'
  BY <1>1, <1>2, StepLifecycle
<1>4. TypeOK'
  BY <1>2, StepType
<1>5. QED
  BY <1>3, <1>4 DEF Inv

\* In every reachable state.
LEMMA Invariance == Spec => []Inv
BY InitInv, StepInv, PTL DEF Spec

-----------------------------------------------------------------------------
(***************************************************************************)
(* What follows.                                                           *)
(***************************************************************************)

\* A caller is told of success only when everything went well.
LEMMA ToldNil ==
    ASSUME TypeOK, NEW n \in 0 .. 5, NEW p, Lifecycle(n, p),
           NEW c \in Callers, ret[c] = "nil"
    PROVE  n = 0 /\ ~Failed /\ ~Rising /\ Terminal
<1>1. stopErr = "nil" /\ ~Failed
  BY DEF Lifecycle, CallersAt
<1>2. Terminal
  BY <1>1 DEF Lifecycle, CallersAt
<1>3. QED
  BY <1>1, <1>2, Ages DEF Lifecycle, Left

\* Whoever stops the application and however many, a call that reports success
\* has closed the pool and the listener and left no work behind.
THEOREM NothingLeftBehind == Spec => []StopReleasesAll
<1>1. Inv => StopReleasesAll
  <2> SUFFICES ASSUME Inv, NEW c \in Callers, ret[c] = "nil"
               PROVE  /\ Idle
                      /\ db = "closed"
                      /\ listener # "open"
                      /\ serve \notin {"spawned", "serving"}
    BY DEF StopReleasesAll
  <2>1. PICK n \in 0 .. 5, p \in Points : Lifecycle(n, p)
    BY DEF Inv
  <2>2. n = 0 /\ ~Failed /\ ~Rising
    BY <2>1, ToldNil DEF Inv
  <2>3. db = "closed"
    BY <2>1, <2>2 DEF Lifecycle, DatabaseAt
  <2>4. requests = 0 /\ serve \in {"off", "closed"} /\ listener # "open"
    BY <2>1, <2>2 DEF Lifecycle, ServerAt
  <2>5. job # "running"
    BY <2>1, <2>2 DEF Lifecycle, SchedulerAt
  <2>6. Admitted = {}
    BY <2>1, <2>2 DEF Lifecycle, ExecutorAt, Admitted
  <2>7. QED
    BY <2>3, <2>4, <2>5, <2>6 DEF Idle
<1>2. QED
  BY <1>1, Invariance, PTL

\* A failed server, audit or task is reported by every call.
THEOREM NoFailureHidden == Spec => []FailuresReported
<1>1. Inv => FailuresReported
  <2> SUFFICES ASSUME Inv, NEW c \in Callers, ret[c] = "nil"
               PROVE  serve # "failed" /\ ~auditFailed /\ ~taskFailed
    BY DEF FailuresReported
  <2>1. PICK n \in 0 .. 5, p \in Points : Lifecycle(n, p)
    BY DEF Inv
  <2>2. n = 0 /\ ~Failed
    BY <2>1, ToldNil DEF Inv
  <2>3. serve # "failed"
    BY <2>1, <2>2 DEF Lifecycle, ServerAt
  <2>4. ~auditFailed
    BY <2>1, <2>2 DEF Lifecycle, SchedulerAt
  <2>5. ~taskFailed
    BY <2>1, <2>2 DEF Lifecycle, ExecutorAt
  <2>6. QED
    BY <2>3, <2>4, <2>5
<1>2. QED
  BY <1>1, Invariance, PTL

\* Each callback runs at most once, in reverse order.
THEOREM CallbacksRunInOrder == Spec => []OrderlyStop
<1>1. Inv => OrderlyStop
  <2> DEFINE turn == [scheduler |-> 1, server |-> 2, async |-> 3,
                      database |-> 4]
  <2> SUFFICES ASSUME Inv, NEW i \in DOMAIN ran, NEW j \in DOMAIN ran, i < j
               PROVE  turn[ran[i]] < turn[ran[j]]
    BY DEF OrderlyStop
  <2>1. PICK n \in 0 .. 5, p \in Points : Lifecycle(n, p)
    BY DEF Inv
  <2>2. /\ ran \in Seq(Callbacks)
        /\ Place[ran[i]] > Place[ran[j]]
    BY <2>1 DEF Lifecycle, RanAt
  <2>3. ran[i] \in Callbacks /\ ran[j] \in Callbacks
    BY <2>2
  <2>4. QED
    BY <2>2, <2>3 DEF Place, Callbacks
<1>2. QED
  BY <1>1, Invariance, PTL

\* Work loses the database only when the stop is reported as failed.
THEOREM DatabaseOutlivesWork == Spec => []WorkKeepsDatabase
<1>1. Inv => WorkKeepsDatabase
  <2> SUFFICES ASSUME Inv, db = "closed", ~Failed PROVE Idle
    BY DEF WorkKeepsDatabase, Failed
  <2>1. PICK n \in 0 .. 5, p \in Points : Lifecycle(n, p)
    BY DEF Inv
  <2>2. n = 0
    BY <2>1 DEF Lifecycle, DatabaseAt
  <2>3. requests = 0 /\ job # "running"
    BY <2>1, <2>2 DEF Lifecycle, ServerAt, SchedulerAt
  <2>4. Admitted = {}
    BY <2>1, <2>2 DEF Lifecycle, ExecutorAt, Admitted
  <2>5. QED
    BY <2>3, <2>4 DEF Idle
<1>2. QED
  BY <1>1, Invariance, PTL

\* The executor admits nothing after it has reported its end.
THEOREM NoLateTask == Spec => []NoTaskAfterDone
<1>1. Inv => NoTaskAfterDone
  BY DEF Inv, Lifecycle, ExecutorAt, NoTaskAfterDone
<1>2. QED
  BY <1>1, Invariance, PTL

\* A terminal state has forgotten nothing that was opened or started.
THEOREM TerminalForgetsNothing == Spec => []TerminalStopsAll
<1>1. Inv => TerminalStopsAll
  <2> SUFFICES ASSUME Inv, Terminal
               PROVE  /\ db # "open"
                      /\ serve # "off" => inShutdown
                      /\ job # "none" => loopDone
                      /\ task # [s \in Submitters |-> "idle"] => closed
    BY DEF TerminalStopsAll, Terminal
  <2>1. PICK n \in 0 .. 5, p \in Points : Lifecycle(n, p)
    BY DEF Inv
  <2>2. n = 0
    BY <2>1, Ages DEF Lifecycle, Left, Inv
  <2>3. db # "open" /\ (serve # "off" => inShutdown)
    BY <2>1, <2>2 DEF Lifecycle, DatabaseAt, ServerAt
  <2>4. job # "none" => loopDone
    BY <2>1, <2>2 DEF Lifecycle, SchedulerAt
  <2>5. task # [s \in Submitters |-> "idle"] => closed
    BY <2>1, <2>2 DEF Lifecycle, ExecutorAt, Inv, TypeOK
  <2>6. QED
    BY <2>3, <2>4, <2>5
<1>2. QED
  BY <1>1, Invariance, PTL

\* While the readiness probe answers UP nothing has been told to stop.
THEOREM ReadinessIsTruthful == Spec => []ReadinessTruthful
<1>1. Inv => ReadinessTruthful
  <2> SUFFICES ASSUME Inv, state = "ready"
               PROVE  /\ started = Hooks
                      /\ db = "open"
                      /\ listener # "none" /\ ~inShutdown
                      /\ ~loopDone
                      /\ ~closed
    BY DEF ReadinessTruthful, Up
  <2>1. PICK n \in 0 .. 5, p \in Points : Lifecycle(n, p)
    BY DEF Inv
  <2>2. n = 5 /\ Rising /\ ~Terminal /\ state # "stopping"
    BY <2>1 DEF Lifecycle, CallersAt, Rising, Terminal
  <2>3. started = Hooks
    BY <2>1, <2>2 DEF Lifecycle, Left, Armed
  <2>4. db = "open" /\ listener # "none" /\ ~inShutdown
    BY <2>1, <2>2 DEF Lifecycle, DatabaseAt, ServerAt
  <2>5. ~loopDone /\ ~closed
    BY <2>1, <2>2 DEF Lifecycle, SchedulerAt, ExecutorAt
  <2>6. QED
    BY <2>3, <2>4, <2>5
<1>2. QED
  BY <1>1, Invariance, PTL

-----------------------------------------------------------------------------
(***************************************************************************)
(* The coordinator implements Shutdown.                                    *)
(***************************************************************************)

\* The phase of Shutdown, as ShutdownOnce maps it.
Phase == CASE state = "stopping" -> "stopping"
           [] state \in {"stopped", "failed"} -> "down"
           [] OTHER -> "up"

LEMMA PhaseFacts ==
    /\ Rising => Phase = "up"
    /\ state = "stopping" => Phase = "stopping"
    /\ Terminal => Phase = "down"
BY DEF Phase, Rising, Terminal

LEMMA PhaseFactsNext ==
    /\ Rising' => Phase' = "up"
    /\ state' = "stopping" => Phase' = "stopping"
    /\ Terminal' => Phase' = "down"
BY DEF Phase, Rising, Terminal

\* The steps of Shutdown, in the coordinator's variables.
AbstractStep ==
    \/ Phase = "up" /\ Phase' = "stopping" /\ UNCHANGED <<stopErr, ret>>
    \/ \E c \in Callers :
          /\ ret[c] = "none"
          /\ \/ /\ Phase = "stopping" /\ Phase' = "down"
                /\ stopErr' \in {"nil", "error"}
                /\ ret' = [ret EXCEPT ![c] = stopErr']
             \/ /\ Phase = "down" /\ UNCHANGED <<Phase, stopErr>>
                /\ ret' = [ret EXCEPT ![c] = stopErr]
             \/ /\ UNCHANGED <<Phase, stopErr>>
                /\ ret' = [ret EXCEPT ![c] = "error"]
    \/ UNCHANGED <<Phase, stopErr, ret>>

LEMMA AbstractStepRefines ==
    AbstractStep => [ShutdownOnce!Next]_ShutdownOnce!abstractVars
BY DEF AbstractStep, Phase, ShutdownOnce!Next, ShutdownOnce!Begin,
       ShutdownOnce!End, ShutdownOnce!Learn, ShutdownOnce!Refuse,
       ShutdownOnce!abstractVars

\* Coordinator.Stop begins the end, waits, learns the outcome or is refused.
LEMMA StopRefines ==
    ASSUME TypeOK, NEW c \in Callers, Stop(c), ret[c] = "none"
    PROVE  AbstractStep
<1>1. CASE state \in {"constructed", "ready"}
  <2>1. Rising /\ state' = "stopping" /\ UNCHANGED <<stopErr, ret>>
    BY <1>1 DEF Stop, Rising
  <2>2. QED
    BY <2>1, PhaseFacts, PhaseFactsNext DEF AbstractStep
<1>2. CASE state \notin {"constructed", "ready"}
  <2>1. UNCHANGED <<state, stopErr>>
    BY <1>2 DEF Stop
  <2>2. Phase' = Phase
    BY <2>1 DEF Phase
  <2>3. \/ UNCHANGED ret
        \/ Terminal /\ ret' = [ret EXCEPT ![c] = stopErr]
        \/ ret' = [ret EXCEPT ![c] = "error"]
    BY <1>2 DEF Stop, Return, Terminal
  <2>4. QED
    BY <2>1, <2>2, <2>3, PhaseFacts DEF AbstractStep
<1>3. QED
  BY <1>1, <1>2

\* Every step of the application is a step of Shutdown or none.
LEMMA StepRefines == Inv /\ [Next]_vars => AbstractStep
<1> SUFFICES ASSUME Inv, [Next]_vars PROVE AbstractStep
  OBVIOUS
<1>0. TypeOK /\ Main \in Callers
  BY DEF Inv, Callers
<1>1. PICK n \in 0 .. 5, p \in Points : Lifecycle(n, p)
  BY DEF Inv
<1>2. \A c \in Callers : pc[c] # "returned" => ret[c] = "none"
  BY <1>1 DEF Lifecycle, CallersAt
<1>3. ASSUME UNCHANGED <<state, stopErr, ret>> PROVE AbstractStep
  BY <1>3 DEF AbstractStep, Phase
<1>4. ASSUME NEW c \in Callers, RunCallbacks(c) PROVE AbstractStep
  <2>1. CASE CompleteTerminal(c)
    <3>1. Runs(c) /\ pc[c] # "returned"
      BY <2>1 DEF CompleteTerminal, Runs
    <3>2. state = "stopping" /\ Terminal'
      BY <1>1, <2>1, <3>1 DEF Lifecycle, Left, CompleteTerminal, Terminal
    <3>3. stopErr' \in {"nil", "error"} /\ ret' = [ret EXCEPT ![c] = stopErr']
      BY <2>1 DEF CompleteTerminal, Return
    <3>4. QED
      BY <1>2, <3>1, <3>2, <3>3, PhaseFacts, PhaseFactsNext DEF AbstractStep
  <2>2. CASE ~CompleteTerminal(c)
    <3>1. UNCHANGED <<state, stopErr, ret>>
      BY <1>4, <2>2
         DEF RunCallbacks, SchedulerClose, SchedulerDrain, ServerShutdown,
             ServerDrain, ServerObserve, ExecutorClose, ExecutorDrain,
             DatabaseClose, SkipHook, Proceed, Done, coordinator
    <3>2. QED
      BY <1>3, <3>1
  <2>3. QED
    BY <2>1, <2>2
<1>5. ASSUME NEW c \in Callers, AwaitStop(c) PROVE AbstractStep
  <2>1. ret[c] = "none" /\ UNCHANGED <<state, stopErr>>
    BY <1>2, <1>5 DEF AwaitStop, coordinator
  <2>2. Phase' = Phase
    BY <2>1 DEF Phase
  <2>3. \/ Terminal /\ ret' = [ret EXCEPT ![c] = stopErr]
        \/ ret' = [ret EXCEPT ![c] = "error"]
    BY <1>5 DEF AwaitStop, Return, Terminal
  <2>4. QED
    BY <2>1, <2>2, <2>3, PhaseFacts DEF AbstractStep
<1>6. ASSUME RollBack(Main), pc[Main] \in {"construct", "starting"}
      PROVE  AbstractStep
  <2>1. Rising /\ state' = "stopping" /\ UNCHANGED <<stopErr, ret>>
    BY <1>1, <1>6, RisingFacts DEF RollBack
  <2>2. QED
    BY <2>1, PhaseFacts, PhaseFactsNext DEF AbstractStep
<1>7. ASSUME Return(Main, "error"), pc[Main] # "returned",
             UNCHANGED <<state, stopErr>>
      PROVE  AbstractStep
  <2>1. Phase' = Phase
    BY <1>7 DEF Phase
  <2>2. QED
    BY <1>0, <1>2, <1>7, <2>1 DEF AbstractStep, Return
<1>8. CASE MainStep
  <2>1. CASE ConstructDatabase \/ ConstructExecutor \/ Constructed
    BY <1>3, <2>1
       DEF ConstructDatabase, ConstructExecutor, Constructed, coordinator,
           callers
  <2>2. CASE BeanRefused
    BY <1>6, <2>2 DEF BeanRefused
  <2>3. CASE ConfigurationRefused
    BY <1>7, <2>3 DEF ConfigurationRefused, coordinator
  <2>4. CASE BeginStart
    <3>1. CASE state = "constructed"
      <4>1. Rising /\ Rising' /\ UNCHANGED <<stopErr, ret>>
        BY <2>4, <3>1 DEF BeginStart, Rising
      <4>2. QED
        BY <4>1, PhaseFacts, PhaseFactsNext DEF AbstractStep
    <3>2. CASE state # "constructed"
      BY <1>7, <2>4, <3>2 DEF BeginStart
    <3>3. QED
      BY <3>1, <3>2
  <2>5. CASE StartHook
    <3>1. pc[Main] = "starting" /\ Rising
      BY <1>1, <2>5, RisingFacts DEF StartHook
    <3>2. CASE RollBack(Main)
      BY <1>6, <3>1, <3>2
    <3>3. CASE ~RollBack(Main)
      <4>1. Rising' /\ UNCHANGED <<stopErr, ret>>
        BY <2>5, <3>1, <3>3 DEF StartHook, Rising, callers
      <4>2. QED
        BY <3>1, <4>1, PhaseFacts, PhaseFactsNext DEF AbstractStep
    <3>4. QED
      BY <3>2, <3>3
  <2>6. CASE MainStop
    <3>1. ret[Main] = "none" /\ Stop(Main)
      BY <1>0, <1>2, <2>6 DEF MainStop
    <3>2. QED
      BY <1>0, <3>1, StopRefines
  <2>7. QED
    BY <1>8, <2>1, <2>2, <2>3, <2>4, <2>5, <2>6 DEF MainStep
<1>9. ASSUME NEW c \in Stoppers, OtherStop(c) PROVE AbstractStep
  <2>1. c \in Callers /\ ret[c] = "none" /\ Stop(c)
    BY <1>2, <1>9 DEF OtherStop, Callers
  <2>2. QED
    BY <1>0, <2>1, StopRefines
<1>10. CASE \/ UNCHANGED vars \/ Serve \/ Request \/ RunJob \/ TasksDone
            \/ \E c \in Callers : Expire(c)
            \/ \E s \in Submitters : Submit(s) \/ RunTask(s)
  BY <1>3, <1>10
     DEF vars, Serve, Request, RunJob, TasksDone, Expire, Submit, RunTask,
         coordinator, callers
<1>11. QED
  BY <1>4, <1>5, <1>8, <1>9, <1>10 DEF Next, Goroutine

\* However many goroutines call Stop, the application ends once and everyone
\* who waits is told the same outcome.
THEOREM EndsOnce == Spec => ImplementsShutdown
<1>1. Init => ShutdownOnce!Init
  BY DEF Init, ShutdownOnce!Init
<1>2. Inv /\ [Next]_vars => [ShutdownOnce!Next]_ShutdownOnce!abstractVars
  BY StepRefines, AbstractStepRefines
<1>3. QED
  BY <1>1, <1>2, Invariance, PTL
     DEF Spec, ImplementsShutdown, ShutdownOnce!Spec
=============================================================================
