---------------------------- MODULE Conversations ----------------------------
(***************************************************************************)
(* The ConversationDispatcher of vitrine (conversations.py): the one       *)
(* handler that runs every caller's conversation.  Updates are handled by  *)
(* tasks; a live run's inactivity timer is a task of its own.  asyncio     *)
(* switches tasks only where a coroutine suspends, so everything between   *)
(* two suspensions is one action here.                                     *)
(*                                                                         *)
(* A step, an entry and an exit hook all run through Dispatch.run, the     *)
(* handler pipeline: it suspends, and later gives one of Results.          *)
(***************************************************************************)
EXTENDS Naturals, Sequences

CONSTANTS
    Callers,      \* the (chat, user) pairs whose updates arrive
    Flows,        \* the conversations registered with the bot
    TimedFlows,   \* those declared with a timeout
    HookedFlows,  \* those with an @on_exit hook
    States,       \* the state names, which every flow declares
    Runs,         \* identities of runs: the state objects of the flows
    Tasks,        \* updates in flight at once; one when PTB feeds the bot
    NoRun         \* no run

ASSUME ConstantsAssumption ==
    /\ Callers # {} /\ Flows # {} /\ States # {}
    /\ TimedFlows \subseteq Flows
    /\ HookedFlows \subseteq Flows
    /\ NoRun \notin Runs
    /\ States \cap {"none", "stopped", "raised", "END", "CANCEL"} = {}

VARIABLES
    runs,       \* caller -> its live run, or NoRun
    flow,       \* run -> the flow it is a run of
    stateName,  \* run -> the state it is in
    owner,      \* run -> the caller its timer was started for
    timer,      \* run -> is its timer pending ("armed"), or "off"
    expiring,   \* run -> is its timer running its exit hook: "no", "running", or
                \* "cancelled", which it still has to take
    pc,         \* task -> where its update is suspended
    job,        \* task -> what it is handling
    closed,     \* has the bot stopped
    started,    \* history: every run that was ever recorded
    exits       \* history: run -> the reasons its exit hook was run with

dispatcherVars == <<runs, flow, stateName, owner, timer, expiring>>
taskVars == <<pc, job>>
historyVars == <<started, exits>>
vars == <<dispatcherVars, taskVars, closed, historyVars>>

-----------------------------------------------------------------------------
(* What the pipeline gives back.  "none": the handler completed and        *)
(* returned None or a bare Screen.  "stopped": it never completed -- a     *)
(* guard or the throttle refused, a middleware answered, or it failed and  *)
(* the error layer answered -- which Dispatch.run also reports as None.    *)
(* "raised": an exception left the pipeline, as when rendering the error   *)
(* layer's own Screen fails.                                               *)
Results == States \cup {"none", "stopped", "raised", "END", "CANCEL"}
NoOutcome == {"none", "stopped"}
Endings == {"END", "CANCEL"}
Reasons == {"FINISHED", "CANCELLED", "TIMEOUT"}

\* Mutant: the outcome passed on as the reason.
ExitReasonUnmapped(result) == result

\* _exit_reason, of an outcome that ends a run.
ExitReason(result) == IF result = "END" THEN "FINISHED" ELSE "CANCELLED"

Kinds == {"entry", "step", "fallback"}
Job == [caller: Callers, flow: Flows, kind: Kinds, at: States,
        run: Runs \cup {NoRun}, result: Results]

\* The job of a task with no update: any value would do.
IdleJob == [caller |-> CHOOSE c \in Callers : TRUE,
            flow   |-> CHOOSE f \in Flows : TRUE,
            kind   |-> "entry",
            at     |-> CHOOSE s \in States : TRUE,
            run    |-> NoRun,
            result |-> "none"]

PCs == {"idle", "matched", "entering", "stepping", "replacing", "exiting"}

Recorded(r) == \E c \in Callers : runs[c] = r

\* A run object is made when an entry begins; one that was never recorded and
\* whose hook never ran is garbage once its entry is over.
Fresh(r) ==
    /\ r \notin started
    /\ exits[r] = <<>>
    /\ \A t \in Tasks : pc[t] \in {"entering", "replacing"} => job[t].run # r

-----------------------------------------------------------------------------
Init ==
    /\ runs = [c \in Callers |-> NoRun]
    /\ flow = [r \in Runs |-> IdleJob.flow]
    /\ stateName = [r \in Runs |-> IdleJob.at]
    /\ owner = [r \in Runs |-> IdleJob.caller]
    /\ timer = [r \in Runs |-> "off"]
    /\ expiring = [r \in Runs |-> "no"]
    /\ pc = [t \in Tasks |-> "idle"]
    /\ job = [t \in Tasks |-> IdleJob]
    /\ closed = FALSE
    /\ started = {}
    /\ exits = [r \in Runs |-> <<>>]

Goto(t, label, j) ==
    /\ pc' = [pc EXCEPT ![t] = label]
    /\ job' = [job EXCEPT ![t] = j]

Done(t) == Goto(t, "idle", IdleJob)

\* _arm: only a flow with a timeout has a timer.
Armed(f) == IF f \in TimedFlows THEN "armed" ELSE "off"

\* _exit, up to its first suspension: the hook is called with the reason.
HookCalled(r, f, reason) ==
    exits' = IF f \in HookedFlows THEN [exits EXCEPT ![r] = Append(@, reason)] ELSE exits

\* Mutant: the timer of a forgotten run goes on.
ForgetRecordOnly(c, r) ==
    /\ runs' = [runs EXCEPT ![c] = NoRun]
    /\ UNCHANGED timer

\* _forget: the record goes, and its timer with it.
Forget(c, r) ==
    /\ runs' = [runs EXCEPT ![c] = NoRun]
    /\ timer' = [timer EXCEPT ![r] = "off"]

-----------------------------------------------------------------------------
(* Matching: the update goes to a step of the caller's live run -- one of  *)
(* its current state's, or a fallback -- or else to an entry of any flow.  *)

\* Mutant: a live run is offered the steps of all its states.
OfferedAnyState(c) ==
    LET live == runs[c] IN
    [caller: {c}, flow: Flows, kind: {"entry"}, at: {IdleJob.at},
     run: {NoRun}, result: {"none"}]
    \cup
    (IF live = NoRun THEN {}
     ELSE [caller: {c}, flow: {flow[live]}, kind: {"step", "fallback"},
           at: States, run: {NoRun}, result: {"none"}])

Offered(c) ==
    LET live == runs[c] IN
    [caller: {c}, flow: Flows, kind: {"entry"}, at: {IdleJob.at},
     run: {NoRun}, result: {"none"}]
    \cup
    (IF live = NoRun THEN {}
     ELSE [caller: {c}, flow: {flow[live]}, kind: {"step", "fallback"},
           at: {stateName[live]}, run: {NoRun}, result: {"none"}])

Match(t, c) ==
    /\ ~closed
    /\ pc[t] = "idle"
    /\ \E j \in Offered(c) : Goto(t, "matched", j)
    /\ UNCHANGED <<dispatcherVars, closed, historyVars>>

-----------------------------------------------------------------------------
(* _enter.  Nothing is recorded, and the caller's run is left alone, until *)
(* the entry's outcome shows that a run really started.                    *)

BeginEntry(t) ==
    /\ pc[t] = "matched"
    /\ job[t].kind = "entry"
    /\ \E r \in Runs : Fresh(r) /\ Goto(t, "entering", [job[t] EXCEPT !.run = r])
    /\ UNCHANGED <<dispatcherVars, closed, historyVars>>

\* _enter returns early: the handler never completed, or it started no run.
EntryWithoutOutcome(t) ==
    /\ pc[t] = "entering"
    /\ Done(t)
    /\ UNCHANGED <<dispatcherVars, closed, historyVars>>

\* The end of _enter, which forgets old (a run with no hook to wait for, or
\* NoRun) on its way: the flow's hook is called at once, or the run recorded.
Conclude(t, result, old) ==
    LET c == job[t].caller
        f == job[t].flow
        r == job[t].run
        disarmed == [x \in Runs |-> IF x = old THEN "off" ELSE timer[x]]
    IN
    \/ /\ result \in Endings
       /\ runs' = [runs EXCEPT ![c] = IF @ = old THEN NoRun ELSE @]
       /\ timer' = disarmed
       /\ HookCalled(r, f, ExitReason(result))
       /\ IF f \in HookedFlows
          THEN Goto(t, "exiting", [job[t] EXCEPT !.result = result])
          ELSE Done(t)
       /\ UNCHANGED <<flow, stateName, owner, started>>
    \/ /\ result \in States
       /\ runs' = [runs EXCEPT ![c] = r]
       /\ flow' = [flow EXCEPT ![r] = f]
       /\ stateName' = [stateName EXCEPT ![r] = result]
       /\ owner' = [owner EXCEPT ![r] = c]
       /\ timer' = [disarmed EXCEPT ![r] = Armed(f)]
       /\ started' = started \cup {r}
       /\ Done(t)
       /\ UNCHANGED exits

\* _end_replaced, when the run to replace has a hook: it is forgotten, and its
\* hook called, before the new run is recorded.
EntryReplaces(t) ==
    LET c == job[t].caller  old == runs[c] IN
    /\ pc[t] = "entering"
    /\ old # NoRun
    /\ flow[old] \in HookedFlows
    /\ \E result \in States \cup Endings :
          Goto(t, "replacing", [job[t] EXCEPT !.result = result])
    /\ Forget(c, old)
    /\ HookCalled(old, flow[old], "CANCELLED")
    /\ UNCHANGED <<flow, stateName, owner, expiring, closed, started>>

\* Mutant: a run is recorded over the caller's old one, which is not ended.
EntryConcludesUnreplaced(t) ==
    /\ pc[t] = "entering"
    /\ \E result \in States \cup Endings : Conclude(t, result, NoRun)
    /\ UNCHANGED <<expiring, closed>>

EntryConcludes(t) ==
    LET old == runs[job[t].caller] IN
    /\ pc[t] = "entering"
    /\ old # NoRun => flow[old] \notin HookedFlows
    /\ \E result \in States \cup Endings : Conclude(t, result, old)
    /\ UNCHANGED <<expiring, closed>>

\* The replaced run's hook is over, and _enter goes on from there.
ReplacedHookReturns(t) ==
    /\ pc[t] = "replacing"
    /\ Conclude(t, job[t].result, NoRun)
    /\ UNCHANGED <<expiring, closed>>

\* An exception leaves the hook's pipeline, and so _enter.
ReplacedHookRaises(t) ==
    /\ pc[t] = "replacing"
    /\ Done(t)
    /\ UNCHANGED <<dispatcherVars, closed, historyVars>>

-----------------------------------------------------------------------------
(* _step.  The timer is off while the step runs, and restarts after it.    *)

Matched(t) == pc[t] = "matched" /\ job[t].kind # "entry"

\* The run ended between matching and handling.
StepTooLate(t) ==
    LET r == runs[job[t].caller] IN
    /\ Matched(t)
    /\ r # NoRun => flow[r] # job[t].flow
    /\ Done(t)
    /\ UNCHANGED <<dispatcherVars, closed, historyVars>>

\* Mutant: the timer goes on while the step runs.
BeginStepTimed(t) ==
    LET r == runs[job[t].caller] IN
    /\ Matched(t)
    /\ r # NoRun
    /\ flow[r] = job[t].flow
    /\ Goto(t, "stepping", [job[t] EXCEPT !.run = r])
    /\ UNCHANGED <<dispatcherVars, closed, historyVars>>

BeginStep(t) ==
    LET r == runs[job[t].caller] IN
    /\ Matched(t)
    /\ r # NoRun
    /\ flow[r] = job[t].flow
    /\ timer' = [timer EXCEPT ![r] = "off"]
    /\ Goto(t, "stepping", [job[t] EXCEPT !.run = r])
    /\ UNCHANGED <<runs, flow, stateName, owner, expiring, closed, historyVars>>

\* Mutant: no second look at the record after the step.
SteppedUnchecked(t) == pc[t] = "stepping"

Stepped(t) == pc[t] = "stepping" /\ runs[job[t].caller] = job[t].run

\* The step's run ended while the step ran; how the step ended is ignored.
StepOutlived(t) ==
    /\ pc[t] = "stepping"
    /\ ~Stepped(t)
    /\ Done(t)
    /\ UNCHANGED <<dispatcherVars, closed, historyVars>>

\* Mutant: a step that raises leaves the timer off.
StepStaysUnarmed(t, result) ==
    LET r == job[t].run IN
    /\ Stepped(t)
    /\ \/ result = "raised"
       \/ job[t].kind # "fallback" /\ result \notin Endings
    /\ stateName' = IF result \in States THEN [stateName EXCEPT ![r] = result] ELSE stateName
    /\ timer' = IF result = "raised" THEN timer ELSE [timer EXCEPT ![r] = Armed(flow[r])]
    /\ Done(t)
    /\ UNCHANGED <<runs, flow, owner, expiring, closed, historyVars>>

\* The run lives on, in the state the outcome names if it names one.  An
\* exception re-arms the timer as well.
StepStays(t, result) ==
    LET r == job[t].run IN
    /\ Stepped(t)
    /\ \/ result = "raised"
       \/ job[t].kind # "fallback" /\ result \notin Endings
    /\ stateName' = IF result \in States THEN [stateName EXCEPT ![r] = result] ELSE stateName
    /\ timer' = [timer EXCEPT ![r] = Armed(flow[r])]
    /\ Done(t)
    /\ UNCHANGED <<runs, flow, owner, expiring, closed, historyVars>>

\* The run is over: the outcome says so, or the step is a fallback, whatever
\* its outcome.
StepEnds(t, result) ==
    LET c == job[t].caller  r == job[t].run IN
    /\ Stepped(t)
    /\ result # "raised"
    /\ job[t].kind = "fallback" \/ result \in Endings
    /\ Forget(c, r)
    /\ HookCalled(r, flow[r],
                  IF job[t].kind = "fallback" THEN "CANCELLED" ELSE ExitReason(result))
    /\ IF flow[r] \in HookedFlows
       THEN Goto(t, "exiting", [job[t] EXCEPT !.result = result])
       ELSE Done(t)
    /\ UNCHANGED <<flow, stateName, owner, expiring, closed, started>>

\* The hook of a run that ended by its own step or entry is over, or raised.
ExitHookReturns(t) ==
    /\ pc[t] = "exiting"
    /\ Done(t)
    /\ UNCHANGED <<dispatcherVars, closed, historyVars>>

-----------------------------------------------------------------------------
(* _expire, and the end of the bot.                                        *)

\* Mutant: the hook of a timeout is called while the run is still recorded.
ExpireRecorded(r) ==
    LET c == owner[r] IN
    /\ timer[r] = "armed"
    /\ timer' = [timer EXCEPT ![r] = "off"]
    /\ IF runs[c] = r
       THEN /\ HookCalled(r, flow[r], "TIMEOUT")
            /\ expiring' = IF flow[r] \in HookedFlows
                           THEN [expiring EXCEPT ![r] = "running"] ELSE expiring
       ELSE UNCHANGED <<exits, expiring>>
    /\ UNCHANGED <<runs, flow, stateName, owner, taskVars, closed, started>>

\* The sleep is over: the run is forgotten and its hook called, unless it is no
\* longer the caller's run.
Expire(r) ==
    LET c == owner[r] IN
    /\ timer[r] = "armed"
    /\ timer' = [timer EXCEPT ![r] = "off"]
    /\ IF runs[c] = r
       THEN /\ runs' = [runs EXCEPT ![c] = NoRun]
            /\ HookCalled(r, flow[r], "TIMEOUT")
            /\ expiring' = IF flow[r] \in HookedFlows
                           THEN [expiring EXCEPT ![r] = "running"] ELSE expiring
       ELSE UNCHANGED <<runs, exits, expiring>>
    /\ UNCHANGED <<flow, stateName, owner, taskVars, closed, started>>

\* A timeout's hook is over, or raised, or took its cancellation: its pipeline has
\* been left, with what that does (Updates).
TimeoutHookReturns(r) ==
    /\ expiring[r] # "no"
    /\ expiring' = [expiring EXCEPT ![r] = "no"]
    /\ UNCHANGED <<runs, flow, stateName, owner, timer, taskVars, closed, historyVars>>

\* close, which Bot.stop calls.  run_polling stops the bot once PTB has handled
\* every update it had fetched.  A timer that sleeps dies of its cancellation at once;
\* one that runs a hook is asked to stop, and nobody waits for it.
Close ==
    /\ ~closed
    /\ \A t \in Tasks : pc[t] = "idle"
    /\ closed' = TRUE
    /\ timer' = [r \in Runs |-> IF Recorded(r) THEN "off" ELSE timer[r]]
    /\ runs' = [c \in Callers |-> NoRun]
    /\ expiring' = [r \in Runs |-> IF expiring[r] = "running" THEN "cancelled" ELSE expiring[r]]
    /\ UNCHANGED <<flow, stateName, owner, taskVars, historyVars>>

-----------------------------------------------------------------------------
HandleUpdate(t) ==
    \/ BeginEntry(t)
    \/ EntryWithoutOutcome(t)
    \/ EntryReplaces(t)
    \/ EntryConcludes(t)
    \/ ReplacedHookReturns(t)
    \/ ReplacedHookRaises(t)
    \/ StepTooLate(t)
    \/ BeginStep(t)
    \/ StepOutlived(t)
    \/ \E result \in Results : StepStays(t, result) \/ StepEnds(t, result)
    \/ ExitHookReturns(t)

Next ==
    \/ \E t \in Tasks, c \in Callers : Match(t, c)
    \/ \E t \in Tasks : HandleUpdate(t)
    \/ \E r \in Runs : Expire(r) \/ TimeoutHookReturns(r)
    \/ Close

\* An armed timer fires: asyncio's sleep ends.  Nothing is assumed of callers,
\* nor of the handlers a bot's author writes.
Fairness == \A r \in Runs : WF_vars(Expire(r))

Spec == Init /\ [][Next]_vars /\ Fairness

-----------------------------------------------------------------------------
(* Properties                                                              *)

\* Every variable has its type.
TypeOK ==
    /\ runs \in [Callers -> Runs \cup {NoRun}]
    /\ flow \in [Runs -> Flows]
    /\ stateName \in [Runs -> States]
    /\ owner \in [Runs -> Callers]
    /\ timer \in [Runs -> {"armed", "off"}]
    /\ expiring \in [Runs -> {"no", "running", "cancelled"}]
    /\ pc \in [Tasks -> PCs]
    /\ job \in [Tasks -> Job]
    /\ closed \in BOOLEAN
    /\ started \subseteq Runs
    /\ exits \in [Runs -> Seq(Reasons)]

Stepping(r) == \E t \in Tasks : pc[t] = "stepping" /\ job[t].run = r

\* A run's exit hook is called at most once, and never while the run is live:
\* a step, its timer and a replacing entry may all want to end the same run
\* (the `is run` re-checks of _step and _expire after their suspensions).
OneExitPerRun ==
    \A r \in Runs :
        /\ Len(exits[r]) <= 1
        /\ Recorded(r) => exits[r] = <<>>

\* No run is immortal: while no step of it is running, a live run of a flow
\* with a timeout has its timer pending, whatever became of its steps.
IdleRunIsArmed ==
    \A r \in Runs :
        Recorded(r) /\ flow[r] \in TimedFlows /\ ~Stepping(r) => timer[r] = "armed"

\* A slow step never times out under itself, nor is its run replaced: the run
\* it works on stays the caller's live run until the step has ended.
RunOutlivesItsStep ==
    \A t \in Tasks : pc[t] = "stepping" => runs[job[t].caller] = job[t].run

\* A step mounted on a state runs only while its run is in that state, though
\* the run is looked up once to match the update and again to handle it.
StepRunsInItsState ==
    \A t \in Tasks :
        pc[t] = "stepping" => stateName[job[t].run] = job[t].at

\* on_exit runs whenever a run ends: a run that was recorded and no longer is
\* has had its hook called, unless the bot stopped first.
EndedRunHadItsHook ==
    \A r \in started :
        \/ Recorded(r)
        \/ closed
        \/ flow[r] \notin HookedFlows
        \/ exits[r] # <<>>

\* Stopping the bot leaves nothing behind that was not told to stop: no run, no pending
\* timer of a run ended or replaced earlier, and no timeout hook but those that were
\* cancelled; none begins afterwards.  A cancelled hook may go on for as long as its
\* `finally` and its cleanups take, after close and after Bot.stop.
ClosedIsQuiet ==
    closed =>
        /\ \A c \in Callers : runs[c] = NoRun
        /\ \A r \in Runs : timer[r] = "off" /\ expiring[r] # "running"

\* A live run with a timeout that its caller leaves alone ends: it stays live
\* for ever only if some update keeps stepping it.
IdleRunExpires ==
    \A r \in Runs :
        (Recorded(r) /\ flow[r] \in TimedFlows) ~> (~Recorded(r) \/ Stepping(r))

-----------------------------------------------------------------------------
(* The abstract specification, for flows that all have an exit hook.       *)

Lifecycle == INSTANCE RunLifecycle WITH live <- runs, stopped <- closed

\* Whatever tasks, timers and pipelines do between two suspensions, a caller
\* has one run at a time and each run ends once, with its hook called then.
ImplementsLifecycle == Lifecycle!Spec

-----------------------------------------------------------------------------
(* What the repository says of the program, and the code does not do.      *)

\* "The new run replaces the old one once its first screen has gone out": an
\* entry that started a run, and ended the caller's old one for it, records
\* the new one.
ReplacementTakesOver ==
    [][\A t \in Tasks :
          pc[t] = "replacing" /\ job[t].result \in States /\ pc'[t] = "idle"
              => runs'[job[t].caller] = job[t].run]_vars
=============================================================================
