------------------------ MODULE ApplicationLifecycle ------------------------
(***************************************************************************)
(* The life of one commerce process: RunCommand constructs the application *)
(* and checks, or starts, runs and stops it through lifecycle.Coordinator, *)
(* whose hooks and cleanups are the database, the HTTP server, the         *)
(* inventory audit's scheduler and the asynchronous executor.  Other       *)
(* goroutines may call Application.Stop at any time and submit VerifySKU   *)
(* tasks, and requests are served while the listener is open.              *)
(*                                                                         *)
(* Only beans with a cleanup or a hook are distinguished; construction of  *)
(* the others can fail and has no effect.  Observers are left out.         *)
(***************************************************************************)
EXTENDS Naturals, Sequences, SequencesExt, FiniteSets

CONSTANTS
    Main,            \* the goroutine of RunCommand
    Stoppers,        \* other goroutines that call Application.Stop
    Submitters,      \* submissions of VerifySKU under way at the same time
    MaxConcurrency,  \* spice.async.max-concurrency
    MaxRequests      \* bound on requests in flight

ASSUME ConstantsAssumption ==
    /\ Main \notin Stoppers
    /\ IsFiniteSet(Submitters)
    /\ MaxConcurrency \in Nat \ {0}
    /\ MaxRequests \in Nat

Callers == Stoppers \cup {Main}

VARIABLES
    \* The coordinator and its callers.
    state,        \* Coordinator.state
    cleanups,     \* Coordinator.cleanups
    started,      \* Coordinator.started
    stopErr,      \* Coordinator.stopErr, "none" before completeTerminal
    pc,           \* where each caller is
    ret,          \* what each caller's Run or Stop returned
    todo,         \* callbacks a caller in runCallbacks has still to run
    phase,        \* progress within the callback at the head of todo
    failures,     \* whether the caller has an error to return
    expired,      \* callers whose context is done
    ran,          \* auxiliary: the callbacks run so far
    \* The resources.
    db,           \* the sql.DB: none, open or closed
    listener,     \* Server.listener
    inShutdown,   \* http.Server is shutting down
    serve,        \* the goroutine running http.Server.Serve
    serveErrors,  \* Server.serveErrors holds Serve's result
    requests,     \* HTTP requests in flight
    job,          \* the scheduler's goroutine for Audit
    loopDone,     \* the scheduler's loopContext is done
    auditFailed,  \* Scheduler.result is an error
    task,         \* where each submission of VerifySKU is
    closed,       \* Executor.stats.Closed
    tasksDone,    \* Executor.done is closed
    taskFailed    \* Executor.results has an error

coordinator == <<state, cleanups, started, stopErr>>
callers     == <<pc, ret, todo, phase, failures, expired, ran>>
server      == <<listener, inShutdown, serve, serveErrors, requests>>
scheduler   == <<job, loopDone, auditFailed>>
executor    == <<task, closed, tasksDone, taskFailed>>
vars        == <<coordinator, callers, db, server, scheduler, executor>>

\* configureGeneratedLifecycle's hooks; Migrate has no stop callback.
Hooks     == <<"migrate", "server", "scheduler">>
Callbacks == {"scheduler", "server", "async", "database"}

Init ==
    /\ state = "constructed"
    /\ cleanups = << >>
    /\ started = << >>
    /\ stopErr = "none"
    /\ pc = [c \in Callers |-> IF c = Main THEN "construct" ELSE "absent"]
    /\ ret = [c \in Callers |-> "none"]
    /\ todo = [c \in Callers |-> << >>]
    /\ phase = [c \in Callers |-> "begin"]
    /\ failures = [c \in Callers |-> FALSE]
    /\ expired = {}
    /\ ran = << >>
    /\ db = "none"
    /\ listener = "none"
    /\ inShutdown = FALSE
    /\ serve = "off"
    /\ serveErrors = FALSE
    /\ requests = 0
    /\ job = "none"
    /\ loopDone = FALSE
    /\ auditFailed = FALSE
    /\ task = [s \in Submitters |-> "idle"]
    /\ closed = FALSE
    /\ tasksDone = FALSE
    /\ taskFailed = FALSE

Goto(c, label) == pc' = [pc EXCEPT ![c] = label]

Return(c, result) ==
    /\ Goto(c, "returned")
    /\ ret' = [ret EXCEPT ![c] = result]

-----------------------------------------------------------------------------
\* Coordinator.

\* Mutant of StopHooks: in the order in which they were started.
StopHooksForward == started

\* The hooks runCallbacks goes through, last started first.
StopHooks == Reverse(started)

\* Mutant of TakeCallbacks: the cleanups run before the stop callbacks.
TakeCallbacksCleanupFirst(c) ==
    /\ todo' = [todo EXCEPT ![c] = Reverse(cleanups) \o StopHooks]
    /\ started' = << >>
    /\ cleanups' = << >>

\* runCallbacks takes the started hooks, then the cleanups, so that nobody
\* else runs them.
TakeCallbacks(c) ==
    /\ todo' = [todo EXCEPT ![c] = StopHooks \o Reverse(cleanups)]
    /\ started' = << >>
    /\ cleanups' = << >>

\* Mutant of RollBack: the hooks already started are forgotten.
RollBackCleanupsOnly(c) ==
    /\ state' = "stopping"
    /\ todo' = [todo EXCEPT ![c] = Reverse(cleanups)]
    /\ started' = << >>
    /\ cleanups' = << >>
    /\ failures' = [failures EXCEPT ![c] = TRUE]
    /\ Goto(c, "aborting")
    /\ UNCHANGED <<stopErr, ret, phase, expired, ran>>

\* Abort and failStart: the cause is returned whatever the callbacks do.
RollBack(c) ==
    /\ state' = "stopping"
    /\ TakeCallbacks(c)
    /\ failures' = [failures EXCEPT ![c] = TRUE]
    /\ Goto(c, "aborting")
    /\ UNCHANGED <<stopErr, ret, phase, expired, ran>>

\* constructApplicationDependencies: of all beans only the database arms a
\* cleanup.
ConstructDatabase ==
    /\ pc[Main] = "construct"
    /\ cleanups = << >>
    /\ db' = "open"
    /\ cleanups' = <<"database">>
    /\ UNCHANGED <<state, started, stopErr, callers, server, scheduler,
                   executor>>

\* configureGeneratedAsync, after the remaining beans.
ConstructExecutor ==
    /\ pc[Main] = "construct"
    /\ cleanups = <<"database">>
    /\ cleanups' = <<"database", "async">>
    /\ UNCHANGED <<state, started, stopErr, callers, db, server, scheduler,
                   executor>>

\* configureGeneratedHTTP registers the routes; once the application is
\* returned others can hold it too.
Constructed ==
    /\ pc[Main] = "construct"
    /\ cleanups = <<"database", "async">>
    /\ pc' = [c \in Callers |-> IF c = Main THEN "built" ELSE "idle"]
    /\ UNCHANGED <<coordinator, ret, todo, phase, failures, expired, ran, db,
                   server, scheduler, executor>>

\* A bean, a route or a management report is refused: Abort.
BeanRefused ==
    /\ pc[Main] = "construct"
    /\ RollBack(Main)
    /\ UNCHANGED <<db, server, scheduler, executor>>

\* NewApplicationWithOptions: an observer or the configuration, which is
\* resolved before any bean, is refused without Abort.
ConfigurationRefused ==
    /\ pc[Main] = "construct"
    /\ cleanups = << >>
    /\ Return(Main, "error")
    /\ UNCHANGED <<coordinator, todo, phase, failures, expired, ran, db,
                   server, scheduler, executor>>

\* Coordinator.Start up to its first hook.
BeginStart ==
    /\ pc[Main] = "built"
    /\ \/ /\ state = "constructed"
          /\ state' = "starting"
          /\ Goto(Main, "starting")
          /\ UNCHANGED ret
       \/ /\ state # "constructed"
          /\ Return(Main, "error")
          /\ UNCHANGED state
    /\ UNCHANGED <<cleanups, started, stopErr, todo, phase, failures, expired,
                   ran, db, server, scheduler, executor>>

\* Server.Start: the listener is bound and Serve runs in its own goroutine.
ServerStart ==
    /\ listener' = "open"
    /\ serve' = "spawned"
    /\ UNCHANGED <<inShutdown, serveErrors, requests>>

\* Coordinator.Start runs the next hook, fails, or is ready.
StartHook ==
    /\ pc[Main] = "starting"
    /\ LET next == Len(started) + 1 IN
       \/ /\ next \in DOMAIN Hooks
          /\ Main \notin expired
          /\ started' = Append(started, Hooks[next])
          /\ IF Hooks[next] = "server" THEN ServerStart ELSE UNCHANGED server
          /\ job' = IF Hooks[next] = "scheduler" THEN "waiting" ELSE job
          /\ UNCHANGED <<state, cleanups, stopErr, callers, loopDone,
                         auditFailed>>
       \/ /\ next \in DOMAIN Hooks
          /\ Main \in expired \/ Hooks[next] \in {"migrate", "server"}
          /\ RollBack(Main)
          /\ UNCHANGED <<server, scheduler>>
       \/ /\ next \notin DOMAIN Hooks
          /\ state' = "ready"
          /\ Goto(Main, "running")
          /\ UNCHANGED <<cleanups, started, stopErr, ret, todo, phase,
                         failures, expired, ran, server, scheduler>>
    /\ UNCHANGED <<db, executor>>

\* Mutant of AwaitStop: a second Stop returns without waiting.
AwaitStopAtOnce(c) ==
    /\ pc[c] = "waiting"
    /\ Return(c, IF stopErr = "error" THEN "error" ELSE "nil")
    /\ UNCHANGED <<coordinator, todo, phase, failures, expired, ran, db,
                   server, scheduler, executor>>

\* Mutant of AwaitStop: the caller's context is not looked at.
AwaitStopForever(c) ==
    /\ pc[c] = "waiting"
    /\ state \in {"stopped", "failed"}
    /\ Return(c, stopErr)
    /\ UNCHANGED <<coordinator, todo, phase, failures, expired, ran, db,
                   server, scheduler, executor>>

\* Stop while another call stops the application: wait for its result.
AwaitStop(c) ==
    /\ pc[c] = "waiting"
    /\ \/ state \in {"stopped", "failed"} /\ Return(c, stopErr)
       \/ c \in expired /\ Return(c, "error")
    /\ UNCHANGED <<coordinator, todo, phase, failures, expired, ran, db,
                   server, scheduler, executor>>

\* Coordinator.Stop, up to what depends on the state.
Stop(c) ==
    /\ \/ /\ state \in {"constructed", "ready"}
          /\ state' = "stopping"
          /\ TakeCallbacks(c)
          /\ Goto(c, "stopping")
          /\ UNCHANGED ret
       \/ /\ state = "stopping"
          /\ Goto(c, "waiting")
          /\ UNCHANGED <<state, cleanups, started, todo, ret>>
       \/ /\ state \in {"stopped", "failed"}
          /\ Return(c, stopErr)
          /\ UNCHANGED <<state, cleanups, started, todo>>
       \/ /\ state = "starting"
          /\ Return(c, "error")
          /\ UNCHANGED <<state, cleanups, started, todo>>
    /\ UNCHANGED <<stopErr, phase, failures, ran, db, server, scheduler,
                   executor>>

\* Run stops the application when its context is done, and RunCommand with
\* --check as soon as it is built; both with a fresh context and deadline.
MainStop ==
    /\ \/ pc[Main] = "built"
       \/ pc[Main] = "running" /\ Main \in expired
    /\ Stop(Main)
    /\ expired' = expired \ {Main}

\* Another holder of the Application stops it.
OtherStop(c) ==
    /\ pc[c] = "idle"
    /\ Stop(c)
    /\ UNCHANGED expired

\* A caller's context ends: a signal while RunCommand constructs, starts or
\* runs, the deadline of the shutdown context afterwards.
Expire(c) ==
    /\ pc[c] \notin {"absent", "idle", "returned"}
    /\ c \notin expired
    /\ expired' = expired \cup {c}
    /\ UNCHANGED <<coordinator, pc, ret, todo, phase, failures, ran, db,
                   server, scheduler, executor>>

\* c runs runCallbacks and is at this point of this callback.
At(c, callback, point) ==
    /\ pc[c] \in {"stopping", "aborting"}
    /\ todo[c] # << >>
    /\ Head(todo[c]) = callback
    /\ phase[c] = point

\* The callback goes on to its next point, with an error or without.
Proceed(c, point, err) ==
    /\ phase' = [phase EXCEPT ![c] = point]
    /\ failures' = [failures EXCEPT ![c] = @ \/ err]
    /\ UNCHANGED <<coordinator, pc, ret, todo, expired, ran>>

\* The callback returns; its error does not keep the next from running.
Done(c, err) ==
    /\ ran' = Append(ran, Head(todo[c]))
    /\ todo' = [todo EXCEPT ![c] = Tail(@)]
    /\ phase' = [phase EXCEPT ![c] = "begin"]
    /\ failures' = [failures EXCEPT ![c] = @ \/ err]
    /\ UNCHANGED <<coordinator, pc, ret, expired>>

\* runCallbacks passes over a hook without a stop callback.
SkipHook(c) ==
    /\ At(c, "migrate", "begin")
    /\ todo' = [todo EXCEPT ![c] = Tail(@)]
    /\ UNCHANGED <<coordinator, pc, ret, phase, failures, expired, ran, db,
                   server, scheduler, executor>>

\* completeTerminal publishes the result and closes done.
CompleteTerminal(c) ==
    /\ pc[c] \in {"stopping", "aborting"}
    /\ todo[c] = << >>
    /\ state' = IF pc[c] = "stopping" THEN "stopped" ELSE "failed"
    /\ stopErr' = IF failures[c] THEN "error" ELSE "nil"
    /\ Return(c, stopErr')
    /\ UNCHANGED <<cleanups, started, todo, phase, failures, expired, ran, db,
                   server, scheduler, executor>>

-----------------------------------------------------------------------------
\* The callbacks.

\* Scheduler.Shutdown stops future runs and waits for the current one.
SchedulerClose(c) ==
    /\ At(c, "scheduler", "begin")
    /\ loopDone' = TRUE
    /\ Proceed(c, "drain", FALSE)
    /\ UNCHANGED <<job, auditFailed, db, server, executor>>

SchedulerDrain(c) ==
    /\ At(c, "scheduler", "drain")
    /\ \/ job = "ended" /\ Done(c, auditFailed)
       \/ c \in expired /\ Done(c, TRUE)
    /\ UNCHANGED <<db, server, scheduler, executor>>

\* Server.Stop, http.Server.Shutdown: the listener Serve has registered is
\* closed and the connections that are not idle are waited for.
ServerShutdown(c) ==
    /\ At(c, "server", "begin")
    /\ inShutdown' = TRUE
    /\ listener' = IF serve = "serving" THEN "closed" ELSE listener
    /\ Proceed(c, "drain", FALSE)
    /\ UNCHANGED <<serve, serveErrors, requests, db, scheduler, executor>>

ServerDrain(c) ==
    /\ At(c, "server", "drain")
    /\ \/ requests = 0 /\ Proceed(c, "observe", FALSE)
       \/ c \in expired /\ Proceed(c, "observe", TRUE)
    /\ UNCHANGED <<db, server, scheduler, executor>>

\* Mutant of ServerObserve: Serve's result is received and dropped.
ServerObserveDropped(c) ==
    /\ At(c, "server", "observe")
    /\ \/ serveErrors /\ serveErrors' = FALSE /\ Done(c, FALSE)
       \/ c \in expired /\ Done(c, TRUE) /\ UNCHANGED serveErrors
    /\ UNCHANGED <<listener, inShutdown, serve, requests, db, scheduler,
                   executor>>

\* Server.Stop: the result of Serve, or the context.
ServerObserve(c) ==
    /\ At(c, "server", "observe")
    /\ \/ /\ serveErrors
          /\ serveErrors' = FALSE
          /\ Done(c, serve = "failed")
       \/ /\ c \in expired
          /\ Done(c, TRUE)
          /\ UNCHANGED serveErrors
    /\ UNCHANGED <<listener, inShutdown, serve, requests, db, scheduler,
                   executor>>

\* Executor.Shutdown stops admission and waits for the admitted tasks.
ExecutorClose(c) ==
    /\ At(c, "async", "begin")
    /\ closed' = TRUE
    /\ Proceed(c, "drain", FALSE)
    /\ UNCHANGED <<task, tasksDone, taskFailed, db, server, scheduler>>

ExecutorDrain(c) ==
    /\ At(c, "async", "drain")
    /\ \/ tasksDone /\ Done(c, taskFailed)
       \/ c \in expired /\ Done(c, TRUE)
    /\ UNCHANGED <<db, server, scheduler, executor>>

\* The cleanup of storage.Database closes the pool and does not wait.
DatabaseClose(c) ==
    /\ At(c, "database", "begin")
    /\ db' = "closed"
    /\ \E err \in BOOLEAN : Done(c, err)
    /\ UNCHANGED <<server, scheduler, executor>>

-----------------------------------------------------------------------------
\* The other goroutines.

\* The goroutine of Server.Start runs http.Server.Serve, which closes the
\* listener when it returns: because of Shutdown, or of a failed Accept.
Serve ==
    /\ \/ serve = "spawned" /\ ~inShutdown /\ serve' = "serving"
          /\ UNCHANGED <<listener, serveErrors>>
       \/ serve \in {"spawned", "serving"} /\ inShutdown /\ serve' = "closed"
          /\ listener' = "closed" /\ serveErrors' = TRUE
       \/ serve = "serving" /\ ~inShutdown /\ serve' = "failed"
          /\ listener' = "closed" /\ serveErrors' = TRUE
    /\ UNCHANGED <<coordinator, callers, db, inShutdown, requests, scheduler,
                   executor>>

\* A request reaches its handler, also on a connection that outlives a failed
\* Serve, or its handler returns.
Request ==
    /\ \/ /\ serve \in {"serving", "failed"} /\ ~inShutdown
          /\ requests < MaxRequests
          /\ requests' = requests + 1
       \/ /\ requests > 0
          /\ requests' = requests - 1
    /\ UNCHANGED <<coordinator, callers, db, listener, inShutdown, serve,
                   serveErrors, scheduler, executor>>

\* Scheduler.runJob: an Audit that fails is the job's last.
RunJob ==
    /\ \/ /\ job = "waiting"
          /\ job' = IF loopDone THEN "ended" ELSE "running"
          /\ UNCHANGED auditFailed
       \/ /\ job = "running"
          /\ job' = IF loopDone THEN "ended" ELSE "waiting"
          /\ UNCHANGED auditFailed
       \/ /\ job = "running"
          /\ job' = "ended"
          /\ auditFailed' = TRUE
    /\ UNCHANGED <<coordinator, callers, db, server, loopDone, executor>>

Goes(s, from, to) == task[s] = from /\ task' = [task EXCEPT ![s] = to]

\* Tasks of the executor's WaitGroup, and slots taken.
Admitted == {s \in Submitters : task[s] \in {"running", "observed"}}
Slots    == {s \in Submitters : task[s] \in {"slot", "running"}}

\* Mutant of Admit: the executor's state is not looked at again.
AdmitUnchecked(s) == Goes(s, "slot", "running")

\* Submit adds the task under the mutex beginShutdown closes admission under,
\* or gives the slot back: admission has ended, or a context is done.
Admit(s) ==
    \/ ~closed /\ Goes(s, "slot", "running")
    \/ Goes(s, "slot", "idle")

\* SubmitServiceVerifySKU looks at the state, then Submit waits for a slot or
\* the end of admission, even with a slot free.
Submit(s) ==
    /\ \/ state = "ready" /\ Goes(s, "idle", "submitting")
       \/ Cardinality(Slots) < MaxConcurrency /\ Goes(s, "submitting", "slot")
       \/ Goes(s, "submitting", "idle")
       \/ Admit(s)
    /\ UNCHANGED <<coordinator, callers, db, server, scheduler, closed,
                   tasksDone, taskFailed>>

\* Executor.run: the slot is given back before the observers are told and the
\* WaitGroup is left.
RunTask(s) ==
    /\ \/ /\ Goes(s, "running", "observed")
          /\ \E err \in BOOLEAN : taskFailed' = (taskFailed \/ err)
       \/ /\ Goes(s, "observed", "idle")
          /\ UNCHANGED taskFailed
    /\ UNCHANGED <<coordinator, callers, db, server, scheduler, closed,
                   tasksDone>>

\* The goroutine of beginShutdown.
TasksDone ==
    /\ closed
    /\ ~tasksDone
    /\ Admitted = {}
    /\ tasksDone' = TRUE
    /\ UNCHANGED <<coordinator, callers, db, server, scheduler, task, closed,
                   taskFailed>>

-----------------------------------------------------------------------------
RunCallbacks(c) ==
    \/ SchedulerClose(c) \/ SchedulerDrain(c)
    \/ ServerShutdown(c) \/ ServerDrain(c) \/ ServerObserve(c)
    \/ ExecutorClose(c) \/ ExecutorDrain(c)
    \/ DatabaseClose(c)
    \/ SkipHook(c)
    \/ CompleteTerminal(c)

MainStep ==
    \/ ConstructDatabase \/ ConstructExecutor \/ Constructed
    \/ BeanRefused \/ ConfigurationRefused
    \/ BeginStart \/ StartHook \/ MainStop

\* What the goroutine of a caller does by itself.
Goroutine(c) == RunCallbacks(c) \/ AwaitStop(c) \/ (c = Main /\ MainStep)

Next ==
    \/ \E c \in Callers : Goroutine(c) \/ Expire(c)
    \/ \E c \in Stoppers : OtherStop(c)
    \/ Serve
    \/ Request
    \/ RunJob
    \/ \E s \in Submitters : Submit(s) \/ RunTask(s)
    \/ TasksDone

Spec == Init /\ [][Next]_vars

\* Runnable goroutines run.  The shutdown context of RunCommand has a positive
\* timeout; handlers, tasks and audits may run for ever, signals need not come
\* and the contexts of other callers of Stop need not end.
FairSpec ==
    /\ Spec
    /\ \A c \in Callers : WF_vars(Goroutine(c))
    /\ WF_vars(pc[Main] \in {"stopping", "waiting"} /\ Expire(Main))
    /\ WF_vars(Serve)
    /\ WF_vars(TasksDone)

-----------------------------------------------------------------------------
\* The management probes.

\* Mutant of Up: the readiness group gets the liveness probe.
UpLive(group) == state \in {"constructed", "starting", "ready", "stopping"}

\* What Manager.Report answers for a group of LifecycleChecks.
Up(group) ==
    IF group = "readiness"
    THEN state = "ready"
    ELSE state \in {"constructed", "starting", "ready", "stopping"}

-----------------------------------------------------------------------------
\* Properties

Idle ==
    /\ requests = 0
    /\ job # "running"
    /\ Admitted = {}

\* Type invariant.  ran holds callbacks only: runCallbacks never calls the nil
\* Stop of a hook that has none.
TypeOK ==
    /\ state \in {"constructed", "starting", "ready", "stopping", "stopped",
                  "failed"}
    /\ cleanups \in Seq({"database", "async"})
    /\ started \in Seq({"migrate", "server", "scheduler"})
    /\ stopErr \in {"none", "nil", "error"}
    /\ pc \in [Callers -> {"absent", "idle", "construct", "built", "starting",
                           "running", "stopping", "aborting", "waiting",
                           "returned"}]
    /\ ret \in [Callers -> {"none", "nil", "error"}]
    /\ todo \in [Callers -> Seq(Callbacks \cup {"migrate"})]
    /\ phase \in [Callers -> {"begin", "drain", "observe"}]
    /\ failures \in [Callers -> BOOLEAN]
    /\ expired \in SUBSET Callers
    /\ ran \in Seq(Callbacks)
    /\ db \in {"none", "open", "closed"}
    /\ listener \in {"none", "open", "closed"}
    /\ serve \in {"off", "spawned", "serving", "closed", "failed"}
    /\ inShutdown \in BOOLEAN /\ serveErrors \in BOOLEAN
    /\ requests \in 0 .. MaxRequests
    /\ job \in {"none", "waiting", "running", "ended"}
    /\ loopDone \in BOOLEAN /\ auditFailed \in BOOLEAN
    /\ task \in [Submitters -> {"idle", "submitting", "slot", "running",
                                "observed"}]
    /\ closed \in BOOLEAN /\ tasksDone \in BOOLEAN /\ taskFailed \in BOOLEAN

\* A Stop, or a RunCommand, that reports success has released everything:
\* whoever ran the callbacks and however many called, the pool and the
\* listener are closed and no request, audit or task is left behind.
StopReleasesAll ==
    \A c \in Callers : ret[c] = "nil" =>
        /\ Idle
        /\ db = "closed"
        /\ listener # "open"
        /\ serve \notin {"spawned", "serving"}

\* A server that stopped serving, an audit or a task that failed, at any time,
\* is reported by every Stop and by the exit status.
FailuresReported ==
    \A c \in Callers : ret[c] = "nil" =>
        serve # "failed" /\ ~auditFailed /\ ~taskFailed

\* Whatever path leads to it, each callback runs at most once and in reverse
\* order: a second Server.Stop would wait for a result that never comes.
OrderlyStop ==
    LET turn == [scheduler |-> 1, server |-> 2, async |-> 3, database |-> 4] IN
    \A i, j \in DOMAIN ran : i < j => turn[ran[i]] < turn[ran[j]]

\* Work is cut off from the database only when a deadline was missed, and the
\* call that stops the application then fails.
WorkKeepsDatabase ==
    db = "closed" /\ ~Idle =>
        \E c \in Callers : failures[c]

\* Nothing is admitted to the executor once it has reported its end.
NoTaskAfterDone == tasksDone => Admitted = {}

\* In a terminal state nothing that was opened or started has been forgotten,
\* also when construction or a start hook failed half way: the pool is closed
\* and the server, the scheduler and the executor have been told to stop.
TerminalStopsAll ==
    state \in {"stopped", "failed"} =>
        /\ db # "open"
        /\ serve # "off" => inShutdown
        /\ job # "none" => loopDone
        /\ task # [s \in Submitters |-> "idle"] => closed

\* While the readiness probe answers UP, every hook has been started and
\* nothing has been stopped or taken to be stopped, whoever calls Stop at the
\* moment: the pool is open, the server and the scheduler have not been told
\* to stop and the executor admits tasks.  (That Serve itself still runs is
\* not implied: see FailuresReported.)
ReadinessTruthful ==
    Up("readiness") =>
        /\ started = Hooks
        /\ db = "open"
        /\ listener # "none" /\ ~inShutdown
        /\ ~loopDone
        /\ ~closed

\* The coordinator implements Shutdown: however many goroutines call Stop
\* while the application starts, runs or fails, it ends once, and every
\* caller that waits for the end is told the same outcome.
ShutdownOnce == INSTANCE Shutdown WITH
    phase <- CASE state = "stopping" -> "stopping"
               [] state \in {"stopped", "failed"} -> "down"
               [] OTHER -> "up",
    outcome <- stopErr,
    reply <- ret

\* The property TLC checks; see ShutdownOnce.
ImplementsShutdown == ShutdownOnce!Spec

\* A signal ends the process in every phase, however long handlers, audits
\* and tasks run and whoever else stops the application.
ShutdownCompletes ==
    Main \in expired /\ pc[Main] # "returned" ~> pc[Main] = "returned"
=============================================================================
