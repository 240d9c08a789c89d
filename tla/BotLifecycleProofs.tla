-------------------------- MODULE BotLifecycleProofs --------------------------
(***************************************************************************)
(* Proofs about BotLifecycle, for any workers, routers and hooks.          *)
(***************************************************************************)
EXTENDS BotLifecycle, TLAPS

(***************************************************************************)
(* Types.                                                                  *)
(***************************************************************************)

\* A worker whose supervision has not ended has a delay that a float can hold.
FailuresBounded == \A w \in Workers : phase[w] # "ended" => failures[w] <= MaxExponent + 1

\* Before the last part of startup nothing of the bot runs.
NotStarted ==
    stage \in {"new", "built", "starting"} =>
        /\ \A w \in Workers : phase[w] = "none"
        /\ menuTask = "none" /\ timers = "none"

TInv == TypeOK /\ FailuresBounded /\ NotStarted

LEMMA BackoffTypes ==
    ASSUME TInv, NEW w \in Workers, NEW n \in Nat, n <= MaxExponent + 2, BacksOff(w, n)
    PROVE  WorkersTypeOK' /\ FailuresBounded'
<1>1. MaxExponent \in Nat
  BY WorkersAssumption
<1>2. phase' \in [Workers -> Phases] /\ failures' \in [Workers -> 0 .. MaxExponent + 2]
  BY <1>1 DEF TInv, TypeOK, WorkersTypeOK, BacksOff, Phases
<1>3. FailuresBounded'
  <2>1. SUFFICES ASSUME NEW v \in Workers, phase'[v] # "ended"
                 PROVE  failures'[v] <= MaxExponent + 1
    BY DEF FailuresBounded
  <2>2. CASE v = w
    <3>1. failures'[w] = n /\ ~(n - 1 > MaxExponent)
      BY <2>1, <2>2 DEF TInv, TypeOK, WorkersTypeOK, BacksOff
    <3> QED
      BY <1>1, <2>2, <3>1
  <2>3. CASE v # w
    <3>1. failures'[v] = failures[v] /\ phase'[v] = phase[v]
      BY <2>3 DEF TInv, TypeOK, WorkersTypeOK, BacksOff
    <3> QED
      BY <2>1, <3>1 DEF TInv, FailuresBounded
  <2> QED
    BY <2>2, <2>3
<1> QED
  BY <1>2, <1>3 DEF TInv, TypeOK, WorkersTypeOK, BacksOff

LEMMA RaisedTypes ==
    ASSUME TInv, NEW w \in Workers, phase[w] = "cleaning", Raised(w)
    PROVE  WorkersTypeOK' /\ FailuresBounded'
<1>1. MaxExponent \in Nat /\ failures[w] \in Nat
  BY WorkersAssumption DEF TInv, TypeOK, WorkersTypeOK
<1>2. failures[w] <= MaxExponent + 1
  BY DEF TInv, FailuresBounded
<1>3. PICK n \in Nat : n = failures[w] + 1 /\ n <= MaxExponent + 2
  BY <1>1, <1>2
<1> QED
  BY <1>3, BackoffTypes DEF Raised

LEMMA WorksTypes ==
    ASSUME TInv, NEW w \in Workers, Works(w)
    PROVE  WorkersTypeOK' /\ FailuresBounded'
<1> USE DEF TInv, TypeOK, WorkersTypeOK
<1>0. MaxExponent \in Nat
  BY WorkersAssumption
<1>1. CASE Wakes(w)
  BY <1>1 DEF Wakes, Phases, FailuresBounded
<1>2. CASE RunsLong(w)
  BY <1>2 DEF RunsLong, FailuresBounded
<1>3. CASE RunEnds(w)
  BY <1>3 DEF RunEnds, Phases, Outcomes, FailuresBounded
<1>4. CASE CleanedUp(w)
  <2>1. CASE outcome[w] = "returned" /\ w \in Periodic
    <3>1. /\ failures' = [failures EXCEPT ![w] = 0] /\ phase' = [phase EXCEPT ![w] = "resting"]
          /\ UNCHANGED <<specs, outcome, healthy>>
      BY <1>4, <2>1 DEF CleanedUp, Returned
    <3>2. failures' \in [Workers -> 0 .. MaxExponent + 2]
      BY <1>0, <3>1
    <3>3. FailuresBounded'
      <4>1. \A v \in Workers : v # w => failures'[v] = failures[v] /\ phase'[v] = phase[v]
        BY <3>1
      <4>2. failures'[w] <= MaxExponent + 1
        BY <1>0, <3>1
      <4> QED
        BY <4>1, <4>2 DEF FailuresBounded
    <3> QED
      BY <3>1, <3>2, <3>3 DEF Phases
  <2>2. CASE outcome[w] = "returned" /\ w \notin Periodic
    <3>1. phase[w] = "cleaning" /\ BacksOff(w, IF healthy[w] THEN 1 ELSE failures[w] + 1)
      BY <1>4, <2>2 DEF CleanedUp, Returned
    <3>2. CASE healthy[w]
      BY <1>0, <3>1, <3>2, BackoffTypes
    <3>3. CASE ~healthy[w]
      BY <3>1, <3>3, RaisedTypes DEF Raised
    <3> QED
      BY <3>2, <3>3
  <2>3. CASE outcome[w] = "raised"
    BY <1>4, <2>3, RaisedTypes DEF CleanedUp
  <2>4. CASE outcome[w] = "cancelled"
    <3>1. phase' = [phase EXCEPT ![w] = "ended"] /\ UNCHANGED <<specs, outcome, healthy, failures>>
      BY <1>4, <2>4 DEF CleanedUp
    <3> QED
      BY <3>1 DEF Phases, FailuresBounded
  <2> QED
    BY <2>1, <2>2, <2>3, <2>4 DEF Outcomes
<1>5. CASE CleanupRaises(w)
  BY <1>5, RaisedTypes DEF CleanupRaises
<1> QED
  BY <1>1, <1>2, <1>3, <1>4, <1>5 DEF Works

LEMMA TInvStep ==
    ASSUME TInv, [Next]_vars
    PROVE  TInv'
<1> USE DEF TInv, TypeOK, treeVars
<1>1. ASSUME NEW w \in Workers, WorkerStep(w)
      PROVE  TInv'
  <2>1. stage \notin {"new", "built", "starting"} /\ UNCHANGED <<treeVars, stage, hooks, menuTask, timers>>
    BY <1>1 DEF WorkerStep, Works, Wakes, RunsLong, RunEnds, CleanedUp, CleanupRaises, NotStarted
  <2>2. specs' = specs
    BY <1>1 DEF WorkerStep, Works, Wakes, RunsLong, RunEnds, CleanedUp, CleanupRaises, Returned,
                Raised, BacksOff, WorkersTypeOK, Outcomes
  <2> QED
    BY <1>1, <2>1, <2>2, WorksTypes DEF WorkerStep, NotStarted
<1>2. ASSUME NEW h \in Handlers, Decorate(h) \/ Register(h)
      PROVE  TInv'
  <2>1. UNCHANGED <<workerVars, children, frozen, compiled, stage, hooks, menuTask, timers>>
    BY <1>2 DEF Decorate, Register
  <2>2. /\ decorated' \subseteq Handlers \cup Workers /\ registered' \subseteq Handlers
        /\ late' \subseteq registered' \cup specs
    BY <1>2 DEF Decorate, Register
  <2> QED
    BY <2>1, <2>2 DEF workerVars, WorkersTypeOK, FailuresBounded, NotStarted
<1>3. ASSUME NEW r \in Routers, NEW c \in Routers, Include(r, c)
      PROVE  TInv'
  BY <1>3 DEF Include, workerVars, WorkersTypeOK, FailuresBounded, NotStarted
<1>4. ASSUME NEW w \in Workers, DecorateWorker(w) \/ RegisterWorker(w)
      PROVE  TInv'
  <2>1. /\ UNCHANGED <<phase, outcome, healthy, failures, children, registered, frozen, compiled>>
        /\ UNCHANGED <<stage, hooks, menuTask, timers>>
    BY <1>4 DEF DecorateWorker, RegisterWorker, workerVars
  <2>2. /\ decorated' \subseteq Handlers \cup Workers /\ specs' \subseteq Workers
        /\ late' \subseteq registered \cup specs'
    BY <1>4 DEF DecorateWorker, RegisterWorker, workerVars, WorkersTypeOK
  <2> QED
    BY <2>1, <2>2 DEF WorkersTypeOK, FailuresBounded, NotStarted
<1>5. ASSUME Started
      PROVE  TInv'
  <2>1. FailuresBounded'
    BY <1>5 DEF Started, StartWorkers, FailuresBounded, NotStarted
  <2> QED
    BY <1>5, <2>1 DEF Started, StartWorkers, WorkersTypeOK, Phases, NotStarted
<1>6. ASSUME StopWorkers
      PROVE  TInv'
  <2>1. /\ stage' = "joining" /\ UNCHANGED <<specs, healthy, failures, treeVars, hooks, menuTask, timers>>
        /\ \A w \in Workers : phase[w] = "ended" => phase'[w] = "ended"
    BY <1>6 DEF StopWorkers, CancelWorkers
  <2>2. phase' \in [Workers -> Phases] /\ outcome' \in [Workers -> Outcomes]
    BY <1>6 DEF StopWorkers, CancelWorkers, WorkersTypeOK, Phases, Outcomes
  <2>3. FailuresBounded'
    <3>1. \A w \in Workers : phase'[w] # "ended" => failures[w] <= MaxExponent + 1
      BY <2>1 DEF FailuresBounded
    <3> QED
      BY <2>1, <3>1 DEF FailuresBounded
  <2> QED
    BY <2>1, <2>2, <2>3 DEF WorkersTypeOK, NotStarted
<1>7. ASSUME UNCHANGED vars \/ Build \/ Startup \/ HookReturns \/ HookRaises \/ MenuTaskEnds
                \/ Stop \/ WorkersJoined \/ TimersEnd \/ Shutdown \/ ShutDown
      PROVE  TInv'
  <2>1. UNCHANGED workerVars /\ UNCHANGED <<children, decorated, registered, late>>
    BY <1>7 DEF vars, Build, Startup, HookReturns, HookRaises, MenuTaskEnds, Stop,
                WorkersJoined, TimersEnd, Shutdown, ShutDown
  <2>2. WorkersTypeOK' /\ FailuresBounded'
    BY <2>1 DEF workerVars, WorkersTypeOK, FailuresBounded
  <2>3. hooks' \in Nat
    <3>1. hooks' \in {hooks, StartupHooks, ShutdownHooks, 0} \/ (hooks > 0 /\ hooks' = hooks - 1)
      BY <1>7 DEF vars, Build, Startup, HookReturns, HookRaises, MenuTaskEnds, Stop,
                  WorkersJoined, TimersEnd, Shutdown, ShutDown
    <3>2. hooks \in Nat /\ StartupHooks \in Nat /\ ShutdownHooks \in Nat
      BY LifecycleAssumption
    <3> QED
      BY <3>1, <3>2
  <2>4. frozen' \subseteq Routers /\ compiled' \subseteq Handlers
    BY <1>7 DEF vars, Build, Startup, HookReturns, HookRaises, MenuTaskEnds, Stop,
                WorkersJoined, TimersEnd, Shutdown, ShutDown, Tree
  <2>5. stage' \in {"new", "built", "starting", "up", "stopping", "joining", "stopped",
                    "shutting", "down"}
    BY <1>7 DEF vars, Build, Startup, HookReturns, HookRaises, MenuTaskEnds, Stop,
                WorkersJoined, TimersEnd, Shutdown, ShutDown
  <2>6. /\ menuTask' \in {"none", "running", "cancelled", "done"}
        /\ timers' \in {"none", "running", "cancelled"}
    BY <1>7 DEF vars, Build, Startup, HookReturns, HookRaises, MenuTaskEnds, Stop,
                WorkersJoined, TimersEnd, Shutdown, ShutDown
  <2>7. NotStarted'
    <3>1. stage' \in {"new", "built", "starting"} =>
             stage \in {"new", "built", "starting"} /\ (menuTask' = menuTask \/ menuTask # "none")
      BY <1>7 DEF vars, Build, Startup, HookReturns, HookRaises, MenuTaskEnds, Stop,
                WorkersJoined, TimersEnd, Shutdown, ShutDown
    <3>2. stage' \in {"new", "built", "starting"} => UNCHANGED timers \/ timers # "none"
      BY <1>7 DEF vars, Build, Startup, HookReturns, HookRaises, MenuTaskEnds, Stop,
                WorkersJoined, TimersEnd, Shutdown, ShutDown
    <3> QED
      BY <2>1, <3>1, <3>2 DEF workerVars, NotStarted
  <2> QED
    BY <2>1, <2>2, <2>3, <2>4, <2>5, <2>6, <2>7 DEF workerVars
<1> QED
  BY <1>1, <1>2, <1>3, <1>4, <1>5, <1>6, <1>7 DEF Next

LEMMA TypesHold == Spec => []TInv
<1>1. Init => TInv
  <2>1. SUFFICES ASSUME Init PROVE TInv
    OBVIOUS
  <2>2. MaxExponent \in Nat
    BY WorkersAssumption
  <2>3. WorkersTypeOK /\ FailuresBounded
    BY <2>1, <2>2 DEF Init, WorkersInit, WorkersTypeOK, FailuresBounded, Phases, Outcomes
  <2>4. TypeOK /\ NotStarted
    BY <2>1, <2>3 DEF Init, WorkersInit, TypeOK, NotStarted
  <2> QED
    BY <2>3, <2>4 DEF TInv
<1> QED
  BY <1>1, TInvStep, PTL DEF Spec

\* Every variable keeps its type, and no failure is counted beyond the one whose delay
\* no float holds.
THEOREM TypeCorrect == Spec => []TypeOK
<1>1. TInv => TypeOK
  BY DEF TInv
<1> QED
  BY <1>1, TypesHold, PTL

(***************************************************************************)
(* What runs, and when.                                                    *)
(***************************************************************************)

\* Of the parts of Bot.stop, those that are behind it have ended what they end.
InOrder ==
    /\ stage \in {"joining", "stopped", "shutting", "down"} => menuTask \in {"none", "done"}
    /\ QuietShutdown

LEMMA InOrderStep ==
    ASSUME TInv, InOrder, [Next]_vars
    PROVE  InOrder'
<1> USE DEF InOrder, QuietShutdown
<1>1. ASSUME NEW w \in Workers, WorkerStep(w)
      PROVE  InOrder'
  <2>1. Alive(w) /\ UNCHANGED <<stage, menuTask, timers>>
    BY <1>1 DEF WorkerStep, Works, Wakes, RunsLong, RunEnds, CleanedUp, CleanupRaises, Alive
  <2>2. stage \notin {"stopped", "shutting", "down"}
    BY <2>1
  <2> QED
    BY <2>1, <2>2
<1>2. ASSUME Started \/ StopWorkers
      PROVE  InOrder'
  BY <1>2 DEF Started, StopWorkers
<1>3. ASSUME HookRaises
      PROVE  InOrder'
  BY <1>3 DEF HookRaises, workerVars, TInv, NotStarted, Alive
<1>4. ASSUME \/ UNCHANGED vars \/ Build \/ Startup \/ HookReturns \/ MenuTaskEnds \/ Stop
             \/ WorkersJoined \/ TimersEnd \/ Shutdown \/ ShutDown
             \/ \E h \in Handlers : Decorate(h) \/ Register(h)
             \/ \E r, c \in Routers : Include(r, c)
      PROVE  InOrder'
  BY <1>4 DEF vars, workerVars, Build, Startup, HookReturns, MenuTaskEnds, Stop, WorkersJoined,
              TimersEnd, Shutdown, ShutDown, Decorate, Register, Include, Alive
<1>5. ASSUME NEW w \in Workers, DecorateWorker(w) \/ RegisterWorker(w)
      PROVE  InOrder'
  BY <1>5 DEF DecorateWorker, RegisterWorker, workerVars, Alive
<1> QED
  BY <1>1, <1>2, <1>3, <1>4, <1>5 DEF Next

\* Bot.stop waits for the menu sync and the workers and cancels what timeouts there are,
\* and startup that fails has started none of them: what shutdown hooks dispose of is no
\* longer in use, but for the cleanups of a timeout hook that was cancelled.
THEOREM ShutdownIsQuiet == Spec => []QuietShutdown
<1>1. Init => InOrder
  BY DEF Init, InOrder, QuietShutdown
<1>2. InOrder => QuietShutdown
  BY DEF InOrder
<1> QED
  BY <1>1, <1>2, InOrderStep, TypesHold, PTL DEF Spec

(***************************************************************************)
(* The tree of routers.                                                    *)
(***************************************************************************)

LEMMA TreeFacts ==
    ASSUME NEW r \in Routers, children \in [Routers -> SUBSET Routers]
    PROVE  r \in Tree(r) /\ Tree(r) \subseteq Routers /\ Closed(Tree(r))
<1>1. r \in Tree(r) /\ Tree(r) \subseteq Routers
  BY DEF Tree
<1>2. ASSUME NEW p \in Tree(r), NEW c \in children[p]
      PROVE  c \in Tree(r)
  <2>1. p \in Routers /\ c \in Routers
    BY <1>1, <1>2
  <2>2. ASSUME NEW S \in SUBSET Routers, r \in S, Closed(S)
        PROVE  c \in S
    <3>1. p \in S
      BY <1>2, <2>2 DEF Tree
    <3> QED
      BY <1>2, <2>2, <3>1 DEF Closed
  <2> QED
    BY <2>1, <2>2 DEF Tree
<1> QED
  BY <1>1, <1>2 DEF Closed

\* What is mounted outside a tree does not change it.
LEMMA TreeUndisturbed ==
    ASSUME NEW r \in Routers, children \in [Routers -> SUBSET Routers],
           NEW p \in Routers, p \notin Tree(r), NEW c \in Routers,
           children' = [children EXCEPT ![p] = @ \cup {c}]
    PROVE  Tree(r)' = Tree(r)
<1>0. /\ \A q \in Routers : children[q] \subseteq children'[q]
      /\ \A q \in Routers \ {p} : children'[q] = children[q]
  OBVIOUS
<1>1. ASSUME NEW x \in Tree(r)'
      PROVE  x \in Tree(r)
  <2>1. r \in Tree(r) /\ Tree(r) \subseteq Routers /\ Closed(Tree(r))
    BY TreeFacts
  <2> DEFINE T == Tree(r)
  <2>2. \A q \in T : children'[q] \subseteq T
    BY <1>0, <2>1 DEF Closed
  <2>3. T \in SUBSET Routers /\ r \in T
    BY <2>1
  <2>4. \A S \in SUBSET Routers : r \in S /\ (\A q \in S : children'[q] \subseteq S) => x \in S
    BY <1>1 DEF Tree, Closed
  <2> HIDE DEF T
  <2>5. x \in T
    BY <2>2, <2>3, <2>4
  <2> QED
    BY <2>5 DEF T
<1>2. ASSUME NEW x \in Tree(r)
      PROVE  x \in Tree(r)'
  <2>1. x \in Routers
    BY <1>2 DEF Tree
  <2>2. ASSUME NEW S \in SUBSET Routers, r \in S, \A q \in S : children'[q] \subseteq S
        PROVE  x \in S
    <3>1. \A q \in S : children[q] \subseteq S
      BY <1>0, <2>2
    <3> QED
      BY <1>2, <2>2, <3>1 DEF Tree, Closed
  <2> QED
    BY <2>1, <2>2 DEF Tree, Closed
<1> QED
  BY <1>1, <1>2

\* Until the build no router is closed; once built, the whole tree of the bot is, and what
\* it held is compiled.
BuiltTree ==
    /\ stage = "new" => frozen = {} /\ late = {}
    /\ stage # "new" => /\ Tree(Root) \subseteq frozen
                        /\ compiled = {h \in registered \ late : On[h] \in Tree(Root)}

LEMMA BuiltTreeStep ==
    ASSUME TInv, BuiltTree, [Next]_vars
    PROVE  BuiltTree'
<1>0. Root \in Routers /\ children \in [Routers -> SUBSET Routers]
      /\ registered \subseteq Handlers /\ Handlers \cap Workers = {}
  BY LifecycleAssumption DEF TInv, TypeOK
<1>1. ASSUME NEW h \in Handlers, Decorate(h) \/ Register(h)
      PROVE  BuiltTree'
  <2>1. Tree(Root)' = Tree(Root) /\ UNCHANGED <<stage, frozen, compiled>>
    BY <1>1 DEF Decorate, Register, Tree, Closed
  <2>2. CASE Decorate(h)
    BY <2>1, <2>2 DEF Decorate, BuiltTree
  <2>3. CASE Register(h)
    <3>1. frozen = {} => late' = late
      BY <2>3 DEF Register
    <3>2. On[h] \in frozen =>
             \A g \in Handlers : g \in registered' \ late' <=> g \in registered \ late
      BY <2>3 DEF Register
    <3>3. \A g \in Handlers : g # h => (g \in registered' \ late' <=> g \in registered \ late)
      BY <2>3 DEF Register
    <3>4. registered' \subseteq Handlers
      BY <1>0, <2>3 DEF Register
    <3>5. CASE stage = "new"
      BY <2>1, <3>1, <3>5 DEF BuiltTree
    <3>6. CASE stage # "new"
      <4>1. \A g \in Handlers : /\ On[g] \in Tree(Root)
                                => (g \in registered' \ late' <=> g \in registered \ late)
        BY <3>2, <3>3, <3>6 DEF BuiltTree
      <4> QED
        BY <1>0, <2>1, <3>4, <3>6, <4>1 DEF BuiltTree
    <3> QED
      BY <3>5, <3>6
  <2> QED
    BY <1>1, <2>2, <2>3
<1>2. ASSUME NEW r \in Routers, NEW c \in Routers, Include(r, c)
      PROVE  BuiltTree'
  <2>1. UNCHANGED <<stage, registered, late, frozen, compiled>>
    BY <1>2 DEF Include
  <2>2. CASE stage = "new"
    BY <2>1, <2>2 DEF BuiltTree
  <2>3. CASE stage # "new"
    <3>1. r \notin Tree(Root)
      BY <1>2, <2>3 DEF Include, BuiltTree
    <3>2. Tree(Root)' = Tree(Root)
      BY <1>0, <1>2, <3>1, TreeUndisturbed DEF Include
    <3> QED
      BY <2>1, <2>3, <3>2 DEF BuiltTree
  <2> QED
    BY <2>2, <2>3
<1>3. ASSUME Build
      PROVE  BuiltTree'
  <2>1. Tree(Root)' = Tree(Root) /\ registered \ late = registered
    BY <1>3 DEF Build, Tree, Closed, BuiltTree
  <2> QED
    BY <1>3, <2>1 DEF Build, BuiltTree
<1>4. ASSUME UNCHANGED treeVars, stage = "new" <=> stage' = "new"
      PROVE  BuiltTree'
  <2>1. Tree(Root)' = Tree(Root)
    BY <1>4 DEF treeVars, Tree, Closed
  <2> QED
    BY <1>4, <2>1 DEF treeVars, BuiltTree
<1>5. ASSUME \/ UNCHANGED vars \/ Startup \/ HookReturns \/ HookRaises \/ Started
             \/ MenuTaskEnds \/ Stop \/ StopWorkers \/ WorkersJoined \/ TimersEnd
             \/ Shutdown \/ ShutDown \/ \E w \in Workers : WorkerStep(w)
      PROVE  UNCHANGED treeVars /\ (stage = "new" <=> stage' = "new")
  BY <1>5 DEF vars, Startup, HookReturns, HookRaises, Started, MenuTaskEnds, Stop, StopWorkers,
              WorkersJoined, TimersEnd, Shutdown, ShutDown, WorkerStep
<1>6. ASSUME NEW w \in Workers, DecorateWorker(w) \/ RegisterWorker(w)
      PROVE  BuiltTree'
  <2>1. UNCHANGED <<children, registered, frozen, compiled, stage>> /\ Tree(Root)' = Tree(Root)
    BY <1>6 DEF DecorateWorker, RegisterWorker, Tree, Closed
  <2>2. late' \in {late, late \cup {w}} /\ (stage = "new" => late' = late)
    BY <1>6 DEF DecorateWorker, RegisterWorker, Startable
  <2>3. registered' \ late' = registered \ late
    BY <1>0, <2>1, <2>2
  <2> QED
    BY <2>1, <2>2, <2>3 DEF BuiltTree
<1> QED
  BY <1>1, <1>2, <1>3, <1>4, <1>5, <1>6 DEF Next

(***************************************************************************)
(* The workers of a running bot.                                           *)
(***************************************************************************)

WorkersLast ==
    /\ stage \in {"up", "stopping", "joining"} => \A w \in specs \ late : phase[w] # "none"
    /\ SupervisionLasts

LEMMA WorkersLastStep ==
    ASSUME TInv, WorkersLast, [Next]_vars
    PROVE  WorkersLast'
<1>0. specs \subseteq Workers /\ phase \in [Workers -> Phases] /\ outcome \in [Workers -> Outcomes]
      /\ failures \in [Workers -> 0 .. MaxExponent + 2]
  BY DEF TInv, TypeOK, WorkersTypeOK
<1>1. ASSUME NEW w \in Workers, WorkerStep(w)
      PROVE  WorkersLast'
  <2>1. /\ UNCHANGED <<stage, specs, late>> /\ phase[w] # "none"
        /\ \A v \in Workers \ {w} :
              phase'[v] = phase[v] /\ outcome'[v] = outcome[v] /\ failures'[v] = failures[v]
    <3>1. UNCHANGED <<stage, late>> /\ phase[w] # "none"
      BY <1>1 DEF WorkerStep, treeVars, Works, Wakes, RunsLong, RunEnds, CleanedUp, CleanupRaises
    <3>2. PICK p, o, n : /\ phase' = [phase EXCEPT ![w] = p]
                         /\ outcome' = [outcome EXCEPT ![w] = o]
                         /\ failures' = [failures EXCEPT ![w] = n]
                         /\ specs' = specs
      <4>1. /\ phase = [phase EXCEPT ![w] = phase[w]]
            /\ outcome = [outcome EXCEPT ![w] = outcome[w]]
            /\ failures = [failures EXCEPT ![w] = failures[w]]
        BY <1>0
      <4>2. CASE Wakes(w) \/ RunsLong(w)
        BY <4>1, <4>2 DEF Wakes, RunsLong
      <4>3. CASE RunEnds(w)
        BY <4>1, <4>3 DEF RunEnds
      <4>4. ASSUME NEW k, BacksOff(w, k)
            PROVE  \E p, o, n : /\ phase' = [phase EXCEPT ![w] = p]
                                /\ outcome' = [outcome EXCEPT ![w] = o]
                                /\ failures' = [failures EXCEPT ![w] = n]
                                /\ specs' = specs
        BY <4>1, <4>4 DEF BacksOff
      <4>5. CASE CleanupRaises(w)
        BY <4>4, <4>5 DEF CleanupRaises, Raised
      <4>6. CASE CleanedUp(w)
        <5>1. CASE outcome[w] = "cancelled"
          BY <4>1, <4>6, <5>1 DEF CleanedUp
        <5>2. CASE outcome[w] = "raised"
          BY <4>4, <4>6, <5>2 DEF CleanedUp, Raised
        <5>3. CASE outcome[w] = "returned" /\ w \in Periodic
          BY <4>1, <4>6, <5>3 DEF CleanedUp, Returned
        <5>4. CASE outcome[w] = "returned" /\ w \notin Periodic
          BY <4>4, <4>6, <5>4 DEF CleanedUp, Returned
        <5> QED
          BY <1>0, <5>1, <5>2, <5>3, <5>4 DEF Outcomes
      <4> QED
        BY <1>1, <4>2, <4>3, <4>5, <4>6 DEF WorkerStep, Works
    <3> QED
      BY <1>0, <3>1, <3>2
  <2>2. phase'[w] # "none" /\ (phase'[w] = "ended" => outcome'[w] = "cancelled"
                                                        \/ failures'[w] - 1 > MaxExponent)
    <3>1. CASE Wakes(w) \/ RunsLong(w) \/ RunEnds(w)
      BY <1>0, <3>1 DEF Wakes, RunsLong, RunEnds
    <3>2. ASSUME NEW n, BacksOff(w, n)
          PROVE  phase'[w] # "none" /\ (phase'[w] = "ended" => failures'[w] - 1 > MaxExponent)
      BY <1>0, <3>2 DEF BacksOff
    <3>3. CASE CleanupRaises(w)
      BY <3>2, <3>3 DEF CleanupRaises, Raised
    <3>4. CASE CleanedUp(w)
      <4>1. CASE outcome[w] = "cancelled"
        BY <1>0, <3>4, <4>1 DEF CleanedUp
      <4>2. CASE outcome[w] = "raised"
        BY <3>2, <3>4, <4>2 DEF CleanedUp, Raised
      <4>3. CASE outcome[w] = "returned" /\ w \in Periodic
        BY <1>0, <3>4, <4>3 DEF CleanedUp, Returned
      <4>4. CASE outcome[w] = "returned" /\ w \notin Periodic
        BY <3>2, <3>4, <4>4 DEF CleanedUp, Returned
      <4> QED
        BY <1>0, <4>1, <4>2, <4>3, <4>4 DEF Outcomes
    <3> QED
      BY <1>1, <3>1, <3>3, <3>4 DEF WorkerStep, Works
  <2> QED
    BY <1>0, <2>1, <2>2 DEF WorkersLast, SupervisionLasts, Alive
<1>2. ASSUME Started
      PROVE  WorkersLast'
  BY <1>0, <1>2 DEF Started, StartWorkers, WorkersLast, SupervisionLasts, Alive
<1>3. ASSUME StopWorkers
      PROVE  WorkersLast'
  BY <1>0, <1>3 DEF StopWorkers, CancelWorkers, treeVars, WorkersLast, SupervisionLasts
<1>4. ASSUME NEW w \in Workers, RegisterWorker(w)
      PROVE  WorkersLast'
  <2>1. UNCHANGED <<phase, outcome, failures, stage>>
    BY <1>4 DEF RegisterWorker
  <2>2. stage \in {"up", "stopping", "joining"} => specs' \ late' = specs \ late
    BY <1>4 DEF RegisterWorker, Startable
  <2> QED
    BY <2>1, <2>2 DEF WorkersLast, SupervisionLasts, Alive
<1>5. ASSUME \/ UNCHANGED vars \/ Build \/ Startup \/ HookReturns \/ HookRaises
             \/ MenuTaskEnds \/ Stop \/ WorkersJoined \/ TimersEnd \/ Shutdown \/ ShutDown
             \/ \E w \in Workers : DecorateWorker(w)
             \/ \E h \in Handlers : Decorate(h) \/ Register(h)
             \/ \E r, c \in Routers : Include(r, c)
      PROVE  WorkersLast'
  <2>1. UNCHANGED workerVars
    BY <1>5 DEF vars, Build, Startup, HookReturns, HookRaises, MenuTaskEnds, Stop, TimersEnd,
                WorkersJoined, Shutdown, ShutDown, DecorateWorker, Decorate, Register, Include
  <2>2. /\ stage' = "up" => stage = "up"
        /\ stage' \in {"up", "stopping", "joining"} => stage \in {"up", "stopping", "joining"}
    BY <1>5 DEF vars, Build, Startup, HookReturns, HookRaises, MenuTaskEnds, Stop, TimersEnd,
                WorkersJoined, Shutdown, ShutDown, DecorateWorker, Decorate, Register, Include
  <2>3. late \subseteq late'
    BY <1>5 DEF vars, treeVars, Build, Startup, HookReturns, HookRaises, MenuTaskEnds, Stop,
                TimersEnd, WorkersJoined, Shutdown, ShutDown, DecorateWorker, Decorate, Register,
                Include
  <2> QED
    BY <2>1, <2>2, <2>3 DEF workerVars, WorkersLast, SupervisionLasts, Alive
<1> QED
  BY <1>1, <1>2, <1>3, <1>4, <1>5 DEF Next

\* _check_mutable and freeze: what is registered on a router or conversation before it is
\* closed, and on any that is mounted under the bot when it is built, is in the
\* application, whatever was included in what and in which order, and startup starts every
\* worker there is: only a decorator that outlives the build, or the startup, is lost.
THEOREM RegistrationsCount == Spec => []NothingIgnored
<1>1. Init => BuiltTree /\ WorkersLast
  BY DEF Init, BuiltTree, WorkersLast, SupervisionLasts
<1>2. BuiltTree /\ WorkersLast => NothingIgnored
  BY DEF BuiltTree, WorkersLast, NothingIgnored
<1> QED
  BY <1>1, <1>2, BuiltTreeStep, WorkersLastStep, TypesHold, PTL DEF Spec

\* _supervise: while the bot is up a worker ends by a cancellation of its own or by the
\* overflow of its delay, and by no crash, return or failing cleanup.
THEOREM CrashesAreSurvived == Spec => []SupervisionLasts
<1>1. Init => WorkersLast
  BY DEF Init, WorkersLast, SupervisionLasts
<1>2. WorkersLast => SupervisionLasts
  BY DEF WorkersLast
<1> QED
  BY <1>1, <1>2, WorkersLastStep, TypesHold, PTL DEF Spec
===============================================================================
