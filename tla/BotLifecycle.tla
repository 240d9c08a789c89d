----------------------------- MODULE BotLifecycle -----------------------------
(***************************************************************************)
(* The life of a vitrine bot (app.py: build, startup, stop, shutdown):     *)
(* handlers are registered on a tree of routers and conversations, the     *)
(* build compiles the tree and closes it, startup runs its hooks, starts   *)
(* the workers and the sync of the command menus, and PTB stops all of it. *)
(*                                                                         *)
(* External: run_polling of telegram.ext calls startup as post_init, stop  *)
(* as post_stop once updates are no longer fetched, and shutdown as        *)
(* post_shutdown; when startup raises it goes on to shutdown at once.      *)
(***************************************************************************)
EXTENDS Workers, FiniteSets

CONSTANTS
    Routers,        \* routers and conversations
    Root,           \* the router of the bot
    Handlers, On,   \* functions with a decorator, and the router each is on
    StartupHooks,   \* how many there are
    ShutdownHooks

ASSUME LifecycleAssumption ==
    /\ Root \in Routers /\ On \in [Handlers -> Routers] /\ Handlers \cap Workers = {}
    /\ StartupHooks \in Nat /\ ShutdownHooks \in Nat

VARIABLES
    children,     \* of each router
    decorated,    \* the functions whose decorator was made, if not yet applied
    registered,   \* the handlers that their routers hold
    late,         \* what was registered on a closed router, or with its workers started
    frozen,       \* the routers that make no more decorators
    compiled,     \* the handlers that the application has
    stage,
    hooks,        \* how many are still to run
    menuTask,     \* of the initial menu sync: none, running, cancelled, done
    timers        \* the timeouts of conversations: none, running, cancelled

treeVars == <<children, decorated, registered, late, frozen, compiled>>
vars == <<workerVars, treeVars, stage, hooks, menuTask, timers>>

\* What is mounted below a router, with itself.
Closed(S) == \A p \in S : children[p] \subseteq S
Tree(r) == {c \in Routers : \A S \in SUBSET Routers : r \in S /\ Closed(S) => c \in S}

Init ==
    /\ WorkersInit
    /\ children = [r \in Routers |-> {}]
    /\ decorated = {} /\ registered = {} /\ late = {} /\ frozen = {} /\ compiled = {}
    /\ stage = "new" /\ hooks = 0 /\ menuTask = "none" /\ timers = "none"

(***************************************************************************)
(* Registration and build.                                                 *)
(***************************************************************************)

\* router.command(...) and its like: a closed router, or conversation, makes no more
\* decorators (_check_mutable), ...
Decorate(h) ==
    /\ On[h] \notin frozen
    /\ decorated' = decorated \cup {h}
    /\ UNCHANGED <<workerVars, children, registered, late, frozen, compiled, stage, hooks,
                   menuTask, timers>>

\* ... but one that it has made adds its function whenever it is applied.
Register(h) ==
    /\ h \in decorated
    /\ registered' = registered \cup {h}
    /\ late' = IF On[h] \in frozen /\ h \notin registered THEN late \cup {h} ELSE late
    /\ UNCHANGED <<workerVars, children, decorated, frozen, compiled, stage, hooks,
                   menuTask, timers>>

\* Bot.worker makes no decorator once there is an application.  (What else is declared
\* on the bot, middleware, on_startup and so on, is checked as it is added.)
DecorateWorker(w) ==
    /\ stage = "new"
    /\ decorated' = decorated \cup {w}
    /\ UNCHANGED <<workerVars, children, registered, late, frozen, compiled, stage, hooks,
                   menuTask, timers>>

Startable == stage \in {"new", "built", "starting"}

RegisterWorker(w) ==
    /\ w \in decorated
    /\ specs' = specs \cup {w}
    /\ late' = IF Startable \/ w \in specs THEN late ELSE late \cup {w}
    /\ UNCHANGED <<phase, outcome, healthy, failures, children, decorated, registered,
                   frozen, compiled, stage, hooks, menuTask, timers>>

\* include, or conversation; nothing is mounted below itself.
Include(r, c) ==
    /\ r \notin frozen /\ r \notin Tree(c)
    /\ children' = [children EXCEPT ![r] = @ \cup {c}]
    /\ UNCHANGED <<workerVars, decorated, registered, late, frozen, compiled, stage, hooks,
                   menuTask, timers>>

\* Mutant: only the router of the bot is closed.
BuildFreezesRoot ==
    /\ stage = "new"
    /\ compiled' = {h \in registered : On[h] \in Tree(Root)}
    /\ frozen' = frozen \cup {Root}
    /\ stage' = "built"
    /\ UNCHANGED <<workerVars, children, decorated, registered, late, hooks, menuTask,
                   timers>>

\* build, unless the compiler refuses what it finds and nothing changes.
Build ==
    /\ stage = "new"
    /\ compiled' = {h \in registered : On[h] \in Tree(Root)}
    /\ frozen' = frozen \cup Tree(Root)
    /\ stage' = "built"
    /\ UNCHANGED <<workerVars, children, decorated, registered, late, hooks, menuTask,
                   timers>>

(***************************************************************************)
(* Startup.                                                                *)
(***************************************************************************)

Startup ==
    /\ stage = "built"
    /\ stage' = "starting" /\ hooks' = StartupHooks
    /\ UNCHANGED <<workerVars, treeVars, menuTask, timers>>

\* The next hook returns, its scope closed.
HookReturns ==
    /\ stage \in {"starting", "shutting"} /\ hooks > 0
    /\ hooks' = hooks - 1
    /\ UNCHANGED <<workerVars, treeVars, stage, menuTask, timers>>

\* It raises: the rest of its kind are not run.
HookRaises ==
    /\ stage \in {"starting", "shutting"} /\ hooks > 0
    /\ IF stage = "starting" THEN stage' = "shutting" /\ hooks' = ShutdownHooks
       ELSE stage' = "down" /\ hooks' = 0
    /\ UNCHANGED <<workerVars, treeVars, menuTask, timers>>

\* The rest of startup.  From now on PTB feeds updates, and conversations set timers.
Started ==
    /\ stage = "starting" /\ hooks = 0
    /\ StartWorkers
    /\ menuTask' = "running" /\ timers' = "running"
    /\ stage' = "up"
    /\ UNCHANGED <<treeVars, hooks>>

\* _initial_menu_sync is through, or fails and logs it, or dies of its cancellation.
MenuTaskEnds ==
    /\ menuTask \in {"running", "cancelled"}
    /\ menuTask' = "done"
    /\ UNCHANGED <<workerVars, treeVars, stage, hooks, timers>>

WorkerStep(w) == Works(w) /\ UNCHANGED <<treeVars, stage, hooks, menuTask, timers>>

(***************************************************************************)
(* Stop and shutdown.                                                      *)
(***************************************************************************)

\* Bot.stop cancels the menu sync and waits for it, ...
Stop ==
    /\ stage = "up"
    /\ stage' = "stopping"
    /\ menuTask' = IF menuTask = "running" THEN "cancelled" ELSE menuTask
    /\ UNCHANGED <<workerVars, treeVars, hooks, timers>>

\* ... then cancels the workers, ...
StopWorkers ==
    /\ stage = "stopping" /\ menuTask = "done"
    /\ CancelWorkers
    /\ stage' = "joining"
    /\ UNCHANGED <<treeVars, hooks, menuTask, timers>>

\* Mutant: the workers are not waited for.
WorkersLeft ==
    /\ stage = "joining"
    /\ timers' = "cancelled"
    /\ stage' = "stopped"
    /\ UNCHANGED <<workerVars, treeVars, hooks, menuTask>>

\* ... waits for them, and closes the conversations, whose timeouts it only cancels.
WorkersJoined ==
    /\ stage = "joining" /\ \A w \in Workers : ~Alive(w)
    /\ timers' = "cancelled"
    /\ stage' = "stopped"
    /\ UNCHANGED <<workerVars, treeVars, hooks, menuTask>>

\* The cleanups of the last timeout hook are through; nothing waits for that.
TimersEnd ==
    /\ timers = "cancelled"
    /\ timers' = "none"
    /\ UNCHANGED <<workerVars, treeVars, stage, hooks, menuTask>>

Shutdown ==
    /\ stage = "stopped"
    /\ stage' = "shutting" /\ hooks' = ShutdownHooks
    /\ UNCHANGED <<workerVars, treeVars, menuTask, timers>>

ShutDown ==
    /\ stage = "shutting" /\ hooks = 0
    /\ stage' = "down"
    /\ UNCHANGED <<workerVars, treeVars, hooks, menuTask, timers>>

Next ==
    \/ \E h \in Handlers : Decorate(h) \/ Register(h)
    \/ \E r, c \in Routers : Include(r, c)
    \/ \E w \in Workers : DecorateWorker(w) \/ RegisterWorker(w)
    \/ Build \/ Startup \/ HookReturns \/ HookRaises \/ Started \/ MenuTaskEnds
    \/ \E w \in Workers : WorkerStep(w)
    \/ Stop \/ StopWorkers \/ WorkersJoined \/ TimersEnd \/ Shutdown \/ ShutDown

\* Hooks and cleanups return or raise in the end, a cancelled task dies of it unless
\* its cleanups keep it alive, and PTB goes on once it was told to stop.
Fairness ==
    /\ WF_vars(HookReturns \/ HookRaises)
    /\ WF_vars(MenuTaskEnds)
    /\ \A w \in Workers : WF_vars(phase[w] = "cleaning" /\ WorkerStep(w))
    /\ WF_vars(StopWorkers \/ WorkersJoined \/ Shutdown \/ ShutDown)

Spec == Init /\ [][Next]_vars /\ Fairness

(***************************************************************************)
(* Properties.                                                             *)
(***************************************************************************)

TypeOK ==
    /\ WorkersTypeOK
    /\ children \in [Routers -> SUBSET Routers]
    /\ decorated \subseteq Handlers \cup Workers /\ late \subseteq registered \cup specs
    /\ registered \subseteq Handlers /\ compiled \subseteq Handlers
    /\ frozen \subseteq Routers
    /\ stage \in {"new", "built", "starting", "up", "stopping", "joining", "stopped",
                  "shutting", "down"}
    /\ hooks \in Nat
    /\ menuTask \in {"none", "running", "cancelled", "done"}
    /\ timers \in {"none", "running", "cancelled"}

\* In whatever order routers are filled, included and built, and whichever of them are
\* shared: a handler is lost in silence exactly if its decorator was made before the build
\* and applied after it, and a worker only if its was applied after startup.  The
\* documentation allows neither: "Registering anything after bot.build() (or bot.run())
\* raises instead of being silently ignored" (docs/handler-precedence.md:51).
NothingIgnored ==
    /\ stage # "new" => compiled = {h \in registered \ late : On[h] \in Tree(Root)}
    /\ stage \in {"up", "stopping", "joining"} => \A w \in specs \ late : phase[w] # "none"

\* Shutdown hooks may take away what the others use: by then no worker and no menu sync
\* runs, nor one of their cleanups, and no timeout that was not told to end.  (A timeout
\* hook that was may still be at its cleanups: nothing waits for those.)
QuietShutdown ==
    stage \in {"stopped", "shutting", "down"} =>
        /\ \A w \in Workers : ~Alive(w)
        /\ menuTask \in {"none", "done"}
        /\ timers # "running"

\* A worker that is started lives as long as its bot, however it returns and crashes.
\* Two ends are premature: a CancelledError of its own, and the delay that no float can
\* hold.
SupervisionLasts ==
    (stage = "up") =>
        \A w \in specs \ late :
            Alive(w) \/ outcome[w] = "cancelled" \/ failures[w] - 1 > MaxExponent

\* A bot that is told to stop gets through its shutdown (docs/workers.md:44: workers
\* "are cancelled cleanly when the bot stops").
StopEnds == stage = "stopping" ~> stage = "down"
===============================================================================
