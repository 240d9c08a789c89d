# vitrine in TLA+

A formal model of [vitrine](../src/README.md), a framework for Telegram bots on
top of python-telegram-bot (PTB): TLA+ modules translated from `src/src/vitrine/`,
TLC configurations that model-check them on small instances, and theorems about
them that TLAPS checks for every value of the constants.

All file names without a directory are under `src/src/vitrine/`.

## 1. The system

### Components

| Component | State it keeps | Operations | Talks to |
|---|---|---|---|
| Conversations (`conversations.py`) | the live run of each (chat, user), its state name, its timer; the timers running an exit hook | match and handle an update; enter, step, replace, cancel, expire, close | every step and hook goes through the dispatch pipeline |
| Command menus (`commands.py`) | the record of what each chat was given, the seed of chats to clear, a lock | full and targeted sync | Telegram's menus, a `MenuStore`, the app's scopes |
| Dependency scope (`injection.py`) | cache, pending cleanups, principal and hold count of one update | resolve, hold, release, close, undo | providers, invocations that join an update |
| Dispatch pipeline (`dispatch.py`, `middleware.py`) | per invocation: where it is, its extras | decode, middleware, guards, throttle, arguments, handler, result, error layer | all of the above |
| Authorization (`auth.py`) | the principal in the scope | resolve, ban, check guards | scope, pipeline |
| Error layer (`errors.py`) | the registry of handlers by exception type | dispatch, last resort | delivery |
| Delivery (`screens.py`, `media.py`) | the `file_id` cache; the messages are Telegram's | render: send, edit, replace, try again without a stale `file_id` | Telegram |
| Bot lifecycle (`app.py`, `routing.py`) | registrations, the tree of routers, what is frozen, the startup menu task | register, include, build, startup, stop, shutdown | PTB's application, workers, conversations |
| Workers (`workers.py`) | one supervised task per worker, its failure count | start, run, back off, stop | dependencies |
| Rate limiter (`ratelimit.py`) | a queue of hit times per key, a sweep counter | check, sweep | the pipeline's throttle step |
| Routing, callback codec, arguments, pagination, scopes, injectables (`routing.py`, `app.py`, `callbacks.py`, `args.py`, `pagination.py`, `commands.py`, `injection.py`) | none | pure functions and build-time checks | build, pipeline |
| Markdown, media download, logging, exceptions, test client | none of interest | | |

### Where it is hard

- **Interleaving at suspensions.** asyncio switches tasks only where a coroutine
  suspends. PTB handles one update at a time (`Bot.build` leaves
  `concurrent_updates` off), yet conversation timers, timeout hooks, the startup
  menu sync and workers are tasks of their own, and an application that is driven
  another way (`docs/ptb-integration.md`) may handle updates concurrently. State
  that is read before an `await` and used after it is the main hazard: the run a
  step works on, the run an entry replaces, the scope an invocation has joined,
  the message a delivery edits, the chats a sync has read.
- **Partial failure.** An operation of several steps stops between two of them:
  an old run forgotten and the new one not recorded; a menu written and not
  recorded; a scope closed with a provider half set up; a message sent and the old
  one not deleted; an error handler that raises.
- **State in another system.** Telegram holds the menus, the messages and the
  files, and a call that raises may have been carried out.
- **Timers, retries, shutdown.** A timeout racing a slow step; flood control
  holding a lock; a worker's cleanup that replaces its cancellation; what is left
  when the bot has stopped.
- **Order of declarations.** Which handler takes an update, which registration is
  dead, what a parameter is resolved from: decided when the bot is built, and
  invisible until the update comes.

`PROJECT.json` lists the hazards one by one, at the line where each bites, with
the property that would catch it.

### What makes each component correct

- Conversations: one run per caller; each run ends once, and with its hook; no
  run outlives its timeout unattended; a slow step keeps its run; a step runs in
  its own state; stopping leaves nothing behind that was not told to end.
- Command menus: the record never names a menu its chat does not hold; no chat
  holds a menu that nobody remembers; a finished sync has converged; an older
  reading is never written last; every sync ends.
- Dependency scope: the cleanup of a provider is owed once and runs once, newest
  first; nobody works in a scope that is closed, or is handed what is no longer up.
- Pipeline, authorization, errors: guards hold on every path; a press is answered
  and a failure told whatever breaks; every update ends with its scope closed.
- Delivery: a failure never takes the last message away; an OK means that the
  screen is shown; a stale `file_id` costs an upload and nothing more.
- Lifecycle and workers: nothing registered in time is ignored; supervision
  outlives crashes; shutdown hooks run when all that is waited for is over and the
  rest was told to end; a stop ends.
- Pure parts: it is known which buttons give back what was packed, the limiter is a
  sliding window, a line is accepted exactly when it fits the usage, and it is known
  which dead handlers the build lets pass and which live ones it refuses.

## 2. Modules

| Module | What it is |
|---|---|
| `Conversations` | `ConversationDispatcher`: one action per stretch of code between two suspensions |
| `RunLifecycle` | abstract specification: what conversations promise, without tasks or timers |
| `MCConversations` | instance for TLC: symmetry of runs |
| `ConversationsProofs` | theorems for any number of updates in flight; then for one at a time, and the refinement of `RunLifecycle` |
| `CommandMenus` | `CommandMenus.sync`, its record, its lock and its environment |
| `MCCommandMenus` | instance for TLC: symmetry of menus and tasks |
| `CommandMenusProofs` | theorems about the reconciler |
| `DependencyScope` | one update's scope: resolution, holds, failed resolutions, cleanups |
| `Updates` | extends `DependencyScope`: gate, pipeline, error layer and the end of an update |
| `MCUpdates` | instance for TLC: a session on a connection, and a principal that needs both |
| `UpdatesProofs` | the invariant of the scope, kept by each of its steps; then theorems about scope, guards and answers |
| `Delivery` | `Delivery` and the `file_id` cache, with Telegram and a user who deletes messages |
| `MCDelivery` | instance for TLC: screens that take every route |
| `DeliveryProofs` | theorems about delivery |
| `Workers` | `WorkerSupervisor` |
| `BotLifecycle` | extends `Workers`: registration, build, startup, stop, shutdown |
| `MCBotLifecycle` | instance for TLC |
| `BotLifecycleProofs` | theorems about registration, supervision and shutdown |
| `Inputs` | the one variable of the pure parts: an input |
| `Pagination`, `RateLimiter`, `CommandArgs`, `CallbackCodec` | what is computed from a user's input |
| `InputProperties` | what these promise, stated without their steps |
| `InputProofs` | theorems about throttles, pages and buttons |
| `Routing` | the handlers of a built bot, the build's check of them, and who gets an update |
| `RoutingProperties` | what routing promises |
| `CommandScopes`, `ConversationBuild` | menus and `/help`; the steps of a conversation, in the order in which they are tried |
| `DeclarationProperties` | what these two promise |
| `DeclarationProofs` | theorems about routing, steps, menus and command lines |
| `RouterTree`, `Injectables` | the tree of routers, and what a handler's parameters are given |
| `BuildProperties` | what these two promise |
| `BuildProofs` | theorems about injection and middlewares |
| `Lists` | choosing from a list by a condition |
| `MCValues` | all small inputs of all of them |

Definitions whose comment begins with "Mutant:" are altered copies of the
definition that follows. They take no part in the specification; each shows that
the property it is paired with in `PROJECT.json` can fail. A few mutants replace a
definition that has no such copy by another definition of the module.

### Conversations

| Model | Code |
|---|---|
| `runs` | `ConversationDispatcher.runs` |
| `flow`, `stateName`, `owner`, `timer` | `_Run.flow`, `_Run.state_name`, the key its timer was started with, `_Run.timer` |
| `expiring` | `_expiring`: a timeout hook that runs, or that was cancelled and is not over |
| `pc`, `job` | where `handle_update` is suspended, and its local variables |
| `started`, `exits` | history only: runs ever recorded, reasons a hook was called with |
| `Match` | `check_update` |
| `BeginEntry`, `EntryWithoutOutcome`, `EntryReplaces`, `EntryConcludes`, `ReplacedHookReturns`, `ReplacedHookRaises` | `_enter` with `_end_replaced`, cut at its suspensions |
| `StepTooLate`, `BeginStep`, `StepOutlived`, `StepStays`, `StepEnds`, `ExitHookReturns` | `_step` with `_exit` |
| `Expire`, `TimeoutHookReturns` | `_expire` |
| `Close` | `close` |

Entries, steps and hooks run through `Dispatch.run`. Here it suspends and then
gives any of `Results`: a state, `END`, `CANCEL`, `"none"` (the handler completed
without a transition), `"stopped"` (it never completed: throttled, refused,
answered by a middleware, or failed with the error layer answering) or
`"raised"` (an exception left the pipeline: `errors.dispatch` renders a handler's
`Screen` outside its `try`, and a task may be cancelled; `ErrorScreenRaises` and
`Cancelled` in `Updates`). The dispatcher cannot tell `"none"` from `"stopped"`:
both come to it as `None`.

Matching and handling are two actions, because PTB awaits between them (it
refreshes persisted context data) and a timer may fire there. `Close` waits for
the updates' tasks to be idle: `Application.stop` drains the update queue before
`post_stop` calls `Bot.stop`. It only requests the cancellation of the timeout hooks;
each ends when its `finally` and its cleanups are through (`TimeoutHookReturns`), which
may be after the bot has stopped. What a screen says and which filters match are abstracted: any
step of the current state, any fallback and any entry may match any update. The
order in which they are tried is in `ConversationBuild`.

### CommandMenus

| Model | Code |
|---|---|
| `telegram` | the chat-scoped menus Telegram holds (outside the process) |
| `store` | the `MenuStore` |
| `published`, `loaded` | `_published`, and whether it is not `None` |
| `seedPending`, `seed` | `_seed_source is not None`, `_seed` |
| `lock` | `_lock` |
| `pc`, `job`, `tries` | where `sync` is suspended, its locals, the attempt of `_with_flood_control` |
| `newest` | history only: the reading of the scopes made last |
| `Call`, `Acquire`, `Load`, `Resolve`, `DefaultWritten`, `Abort` | `sync` up to its loops |
| `Skip`, `Flooded`, `Accepted`, `Refused`, `StoreKeeps`, `StoreFails`, `Finish` | the two loops |
| `Cancel`, `Restart` | cancellation of the sync's task; end of the process and a new one |

The two loops treat a chat alike, one with `set_my_commands` and `store.set`, the
other with `delete_my_commands` and `store.discard`; a delete is modelled as a
write of `NoMenu`, and deletes wait for the writes. Chats are taken in any order
where the code sorts them: ids mean nothing to the properties. A menu stands for
its fingerprint, so digests are assumed not to collide. What the scopes want is
chosen afresh whenever they are read; what it really is, is in `CommandScopes`.
`Faults` says what may go wrong besides a call that is refused, which always may:

- `"store"`: a store call raises, with its work done or not;
- `"lost"`: Telegram does what it was asked and the answer is lost;
- `"cancel"`: a sync's task is cancelled at any suspension;
- `"restart"`: the process ends at any point and a new one starts.

An API call and its answer are one action; a task cancelled, or a process ended,
between the two is covered by `Accepted` followed by `Cancel` or `Restart`.

### DependencyScope and Updates

| Model | Code |
|---|---|
| `holders`, `closed`, `cache`, `principal`, `cleanups` | `DependencyScope._holds`, `closed`, `cache`, `principal`, `cleanups` |
| `made` | history: every instance a provider returned, what it was built from, how it ended |
| `frames` | the stack of `resolve_kwargs`, `resolve_name` and `_call_factory` of an invocation |
| `journal`, `undoing` | `Invocation.journal`; what `undo` has still to abort |
| `Join`, `Release`, `Finishes` | `join_update_scope`, `release`, one round of `aclose` |
| `Call`, `Takes`, `Asks`, `ProviderReturns`, `ResolverReturns`, `FunctionReturns`, `Raises`, `Aborts`, `AbortCancelled` | the steps of injection, `Auth.resolve` in `all_or_nothing`, `undo`, and its cancellation |
| `pc`, `step` | where an invocation is in `Dispatch.run`; where the update is in `process_update` |
| `GateJoins` ... `GateGivesUp` | `Bot._ban_gate` |
| `TooLate` | `ConversationDispatcher._step` with a run that has ended: it returns |
| `Enters` ... `MiddlewaresReturn` | `Dispatch.run`, outside in and back |
| `Reports`, `ErrorHandled`, `ErrorHandlerFails`, `ErrorScreenRaises` | `ErrorRegistry.dispatch`, `_last_resort` |
| `Finally` | the `finally` of `Dispatch.run`: release, then answer |
| `PtbErrorEnters` | `Bot._on_ptb_error`, once for each exception that leaves a handler |
| `ProcessingEnds`, `CleansUp` | `run_in_update_scope` |
| `Cancelled` | `ConversationDispatcher.close` cancelling a timeout hook |

A resolution takes one parameter at a time: what is known or cached it takes
(`Takes`), for anything else it calls a provider (`Asks`). Between two awaits nobody
else runs, which `MayRun` says: a step of an invocation needs every other one to be
at an await. Providers that ask for each other only raise, as `resolve_name` does.

The gate and the handlers of an update come one after the other; what overlaps
with them is an exit hook. A timer armed by a step runs its hook in the context of
the update that armed it, and joins the scope if it fires before that is closed.
Guards, roles, the throttle and the arguments are one step, since nothing is
awaited between them that others can see: its outcomes are a refusal, a drop in
silence, and the call. Middlewares are opaque: they pass, stop, or raise before or
after; the order in which they nest is in `RouterTree`. The last cleanup that fails
reports to error handlers in a scope of their own, which is left out.

### Delivery

Each task delivers one screen, by `Sends` or `Edits`, and is then at one of its
calls: `edit_text`, `edit_media`, `edit_again`, `send`, `send_again`, `delete`. The two
that try again come after a file that was rejected (`WrongFile`): a `file_id` that is
no good, or a URL, of which Telegram says the same; the code does not look at what it
had sent. Telegram accepts, rejects the file, refuses, or
loses the answer with the work done or not. What a message can be edited into is
its route (`Route`, from `Delivery.edit`). `cached` is the one `file_id` of the one
source; `FileIdsExpire` makes it worthless at any time. The message that a task
edits is taken from the update, so it may be gone, or changed, when the call
arrives. Keyboards, captions and formatting are left out, except that a reply
keyboard cannot be edited in.

### Workers and BotLifecycle

`phase` is where `_supervise` is: in its first delay, running, closing the scope
of the run, in a backoff, in the rest of a periodic worker, or ended. Times are a
choice: a run was longer than `_HEALTHY_RUNTIME` or not. `failures` counts as in
the code up to `MaxExponent`, the largest power of two that a float holds; beyond
it the delay cannot be computed and the task ends. `Stubborn` workers have a
cleanup that may raise while they are cancelled.

`children`, `frozen` and `compiled` are the tree of routers and conversations,
those that `_check_mutable` refuses to change, and those whose handlers the
application got. A registration has two steps: `Decorate` and `DecorateWorker` make a
decorator, which is where the code checks that registration is open, and `Register` and
`RegisterWorker` apply it, at any later time; `late` are those that came after the
build or the startup. `timers` are the timeouts of conversations: running, told to
end, or over (`TimersEnd`). `stage` runs through `build`, `startup`, `stop` in its three parts
(menu task, workers, conversations), and `shutdown`. Nothing forbids registering,
including and building in any order.

### The pure parts

One operator per function, over sequences and records; the comment of each module
says what a registration, a parameter or a wire is. The properties are stated in
`InputProperties`, `RoutingProperties`, `DeclarationProperties` and `BuildProperties`
on other terms than the code's: the pages by pressing Next, a throttle by counting the calls in a window, an
accepted line by the existence of a reading, a dead handler by the updates it gets, a
resolvable parameter by reachability among the providers. Each speaks of the
variable `input`; `MCValues` has one initial state for each input and no other step.
In `Routing` a message handler is what its filters let through: texts, and commands too
if the author's filters say so; a registration may ask for edited messages. In
`CallbackCodec` a value has a type and a text, a field one of six types, and what
pydantic reads from a string is an external definition (`Read`): a text is a text, also
for a field that takes numbers, and nothing is read for a list.
Where the code filters a list, the modules that are proved about join the chosen
elements (`Those`, over `FlattenSeq`), since the prover cannot expand `SelectSeq`.

Where the code calls itself, the model is a function of how deep it goes, for the
prover cannot reason beside a `RECURSIVE` operator. `ResolveKwargs` has the number of
calls that Python still allows (`MaxDepth`, the recursion limit): `calls[left]` is what
comes of each function's parameters, with each stack, when `left` calls are left, and
none left is Python's `RecursionError`. `WalkFrom` goes down over at most as many
routers as there are; a router is a number, and the tree says what it includes, so that
a router included twice, which the code allows as long as nothing is circular, is one
router. `ParseArgs` has the number of arguments it has taken.

## 3. Runs

| Run | Checks | Shows |
|---|---|---|
| `conversations_sequential` | `TypeOK`, `RunOutlivesItsStep`, `StepRunsInItsState`, `EndedRunHadItsHook`, `ClosedIsQuiet`, `IdleRunExpires`, `ImplementsLifecycle` | one update at a time, timers beside it; runs left alone end; the abstract specification is implemented |
| `conversations_concurrent` | `OneExitPerRun`, `IdleRunIsArmed` | two updates of one caller at once |
| `conversations_replacement` | `ReplacementTakesOver` | violated, see section 5 |
| `menus_reliable` | `StaysInLine`, `FinishedSyncConverged` | failing store and restarts, no lost answers |
| `menus_faulty` | `TypeOK`, `WritesNewestReading`, `EverySyncEnds` | everything goes wrong at once |
| `menus_lost_answer` | `StaysInLine` | violated, see section 5 |
| `updates` | `TypeOK`, `CleanupsInOrder`, `HeldWhileUsed`, `HandedIsLive`, `GuardsHold`, `UserIsAnswered`, `UpdateEnds` | gate, two handlers and a timeout hook share a scope while anything may raise |
| `delivery` | `NeverStranded`, `OkIsShown`, `StaleIdsHeal` | two deliveries in one chat, a user who deletes, ids that expire, answers that are lost |
| `bot_lifecycle` | `NothingIgnored`, `QuietShutdown`, `SupervisionLasts`, `StopEnds` | registration in any order, crashes, startup that fails, stop at any time |
| `worker_backoff` | `HealthyLoopResetsBackoff` | violated, see section 5 |
| `worker_stop` | `StopEnds` | violated, see section 5 |
| `values` | `PagerShowsEverything`, `WindowIsExact`, `AcceptedIffUsageFits`, `ButtonsComeBack`; `BuildRefusesTheDead`, `EveryPressIsTaken`, `GateThenNavigation`; `MiddlewaresFollowTheTree`, `HelpAgreesWithMenus`, `ResolutionIsSound`, `BuildAgreesWithInjection`, `StepsAreTriedAsDeclared` | every pure algorithm against its reference definition |

**Bounds.** Conversations: two callers and two flows, one with a timeout and one
without. Three runs: an old one, the one that replaces it, and one of the other
caller, or a third generation. A run object is reused once it was never recorded
and never reported, so entries that start nothing are unbounded. Two states are
what it takes to be in the wrong one. The concurrent run has one caller, since
tasks of different callers share nothing, two tasks, and a flow without an exit
hook; the refinement needs every flow to have one, which is what `RunLifecycle`
describes.
Menus: two chats and two menus with two tasks: a chat that is current while the
other is not, one that changes menus, one that leaves. `menus_faulty` trades the
second chat for a third task waiting for the lock and all three attempts. There is
no bound on how often a sync is called, the scopes change, or the process restarts.
Updates: two handlers in two groups, so that one meets what the other has left
behind; one hook; two generator providers of which one is built on the other, and
a principal that needs both, so that a provider is known already, is new, or is
being undone when another asks for it. Any of the handlers may be guarded; one of them
is a conversation's, and may come too late.
Delivery: two tasks, side by side or one after the other, and a screen for each
route (text, with a reply keyboard, two kinds of editable media of one file, a
given `file_id` with and without a source, a URL). Every delivery ends, so nothing else
is bounded.
Lifecycle: two workers, a periodic one and a loop; a root and one more router,
which may be registered on, included, or neither, before and after the build; one
hook of each kind. `MaxExponent` is 1 where a float's is 1023: a third failure in a
row overflows.
Values: lists of five items, five calls to a throttle, two parameters and six
words, two fields of any of the types and their changes, two registrations of any kind,
in groups around the gate's, with and without filters and edits, beside an entry and a
raw handler, trees of three levels, three commands with two scopes, two providers
and a resolver, three steps of a conversation.
TLC's symmetry is used in runs of invariants only.

**Deadlock.** The menu runs check for it. The others switch the check off, for
their systems do stop: a stopped bot with every run used up, an update that is over
(`UpdateEnds` says that it gets there), deliveries that are done, a bot that is down
(`StopEnds`). `values` has no steps but stuttering ones.

**Fairness.** Of conversations only this is assumed: an armed timer fires
(`WF` on `Expire`), because `asyncio.sleep` ends. Nothing is assumed of users or
of handlers; accordingly `IdleRunExpires` lets a run live on while a step of it
runs. Of menus: each awaited call returns or raises (`WF` on the steps of a
sync), which the HTTP client's timeouts give for Telegram and the store's author
owes for the store; and a waiting sync gets the lock if it is released again and
again (`SF` on `Acquire`), since `asyncio.Lock` wakes waiters in order. Of updates:
what an invocation awaits returns or raises, and PTB goes on to the next handler;
a timer may never fire. Of the lifecycle: hooks and cleanups return or raise, and a
bot that was told to stop is driven on by PTB's `run_polling`; workers themselves
need never return. Delivery has no liveness property: one that is given no answer
is ended by `CallLost`.

## 4. Proofs

All theorems hold for any values of the constants that satisfy the named
assumptions in the modules (`ConstantsAssumption`, `MenusAssumption`,
`ScopeAssumption`, `UpdatesAssumption`, `DeliveryAssumption`, `WorkersAssumption`,
`LifecycleAssumption`; for the pure parts `SweepAssumption`, `ArgsAssumption`,
`CodecAssumption`, `RoutingAssumption`, `ScopesAssumption` and
`InjectablesAssumption`). The theorems about pure parts name what their input is; the
inputs of `MCValues` satisfy each of these hypotheses.

**Conversations, any number of updates in flight** (`ConversationsProofs`):
`TypeCorrect`, `ExitsOnce`, `NoImmortalRun`. The safety properties are not
inductive: that a run is not recorded again after its hook has been called depends
on which runs an entry may still hold. `IInv` adds that a live run is owned by its
caller, was recorded and never reported; that a run in the hands of an entry is
new, unreported, and held by one task; and that a step's run belongs to the step's
caller.

**Conversations, one update at a time** (the second part of `ConversationsProofs`,
hypothesis `OneAtATime`): `SlowStepKeepsItsRun`, `StepsMeetTheirState`,
`NoRunEndsUnnoticed`, `StoppedBotIsQuiet`. `SInv` ties the one busy task to the
record: what it matched is still true, the caller whose run is being replaced has
none, the run of a step is live in the state the step was matched for. `CInv` says
that an armed timer is always that of a live run, so that cancelling the timers of
the recorded runs cancels all; a timeout hook that was cancelled may be left, and
`ClosedIsQuiet` says so. None of these four holds with two updates of one
caller in flight (TLC finds a counterexample to each with the constants of
`ConversationsConcurrent.cfg`); that is what the hypothesis is for, and what an
application that processes updates concurrently would lose.
`DispatcherImplementsLifecycle` uses these invariants to show that every step of
the dispatcher is a step of `RunLifecycle` or a stutter, under the identity of the
record, the reported reasons and `closed`; it assumes an exit hook on every flow.

**Menus** (`CommandMenusProofs`): `MenusTyped` and `ReadingNeverStale` hold under
every fault: `LInv` says that only the holder of the lock is past its acquisition
and that the record is loaded there. `RecordIsTrusted` and `SyncConverges` assume
`Reliable`: no lost answer, no cancellation, and a restart only if the store
is gone with the process and `known_scope_chats` names every chat. `RInv`
adds to `LInv` that the chats left to write are wanted, that what is being
recorded is what the chat holds, that the seed was read before its source is
consumed, and that the chats a sync is done with have converged. Convergence
needs the trusted record (a skipped chat really holds its menu) and the trusted
record needs the lock, so the three are one induction.

**Updates** (`UpdatesProofs`), for any handlers, hooks and providers:
`ScopeHeldWhileUsed` rests on `HInv`, that whoever is between its join and its
release holds the scope, and that a closed scope has no holders.
`GuardsAlwaysHold` adds `Guarded`: a handler leaves its place only when a banned
caller was let in by a gate that failed, and works only on what its guards allow.
`NobodyIsLeftWaiting` adds `AInv`: nothing starts before the gate is through; a
failure is told, or has escaped, before its handler ends; PTB is through with a
handler that an exception has left only when its own call of the error handler is over,
so that no escape excuses another; the answer to a press is the last thing a handler
does, unless it was a step that came too late, which does nothing; and an update that
ends has run every handler or turned the user away.

**The scope** (the first part of `UpdatesProofs`, with `CleanupsKeepTheirOrder`,
`NothingDeadIsHanded` and `TypeCorrect`), for any providers that
depend on each other in any way, and any number of invocations. Neither property is
inductive: what a raising resolution aborts depends on its journal, what is cached
afterwards on the names in it, and what may be cleaned up on the order of the
cleanups. `SInv` says that instances are built on older ones; that the cleanups
are exactly those of the open instances, oldest first, so that the newest has nothing
built on it; that a journal has the cleanups of what its invocation made, and the
names of all that was built on that, so that a failed resolution leaves none of
it in the cache; and that what is about to be aborted is in no cache. Each step keeps
`SInv` as long as nobody works in a closed scope (`Free`), which `HInv` gives;
`RaisesUncleared`, `AbortsStillOwed` and the other mutants of the module each break
one part of it. The steps are small (a parameter each) so that none of this needs an
induction over a handler's parameters.

**Delivery** (`DeliveryProofs`), for any number of deliveries and any screens:
`UserKeepsAScreen` rests on `OneIsKept`: of the messages in the chat there is one
that nobody is about to delete. That two deliveries cannot delete each other's
messages follows from `MessagesAreNew`: a message is the target of another delivery
only once its own has sent it and is past all but its own deletion.
`ReturnedMessageShows` rests on `AllLanded`, which says the same of a message that
was sent and whose task has still to delete the old one; `ExpiredIdsDoNoHarm` counts
the uploads by the call a task is at: a call that tries again is the second for its
message, and the first handed over a source only if that was a refused URL.

**Lifecycle** (`BotLifecycleProofs`), for any workers, routers and hooks:
`RegistrationsCount` rests on `BuiltTree` (once built, the whole tree is frozen), so
that what is missing from the application came with a decorator that was made before
and applied later;
and on a lemma that a change of children outside a tree leaves the tree as it is.
`ShutdownIsQuiet` and `CrashesAreSurvived` say when the menu task and the workers
can still be running (`InOrder`, `WorkersLast`), and that the timers were told to end by
then, not that they have; the types bound `failures`, because
supervision ends at the failure whose delay overflows.

**Inputs** (`InputProofs`), for schedules, lists and models of any size. The operators
recur over their input, and the library's induction theorems are out of reach here;
but a set of numbers has a least element, so the numbers up to which a fact
holds are a set that contains 0 and every successor (`Smallest`, `Climb`).
`WindowsAreExact` climbs along the schedule of calls: the queue of a key stands, in
order, for calls of the key that were let through, and those that it has lost are out
of a window that was in use by then (`Remembers`), of the only one if the key has one
throttle; it assumes a limit of at least 1, since at 0 the code raises. `PagerShowsAll` assumes a page size of at least 1 and
takes any number a stale button asks for. `ButtonsAlwaysComeBack` is about models
with distinct field names, and versions of one model that agree on what stayed; it has
both directions: the payloads that come back, and those that the format or the type of
a field loses.

**Routing** (`DeclarationProofs`), for any handlers in any groups, any commands, models
and payloads, and any run of the caller: `GateComesThenNavigation`, `PressesAreTaken`
and `RefusedIffDead`. `IsBot` says what registrations are: the entries of
conversations are in group 0, only message handlers are reply buttons, no handler is
registered under two numbers. What `Compile` puts where is spelled out once
(`CompileLaysOut`): a gate, the reply buttons, the conversations, the rest in order,
the raw handlers, the catch-all; the first of a group that takes an update gets
it. `RefusedIffDead` has two directions. In a bot that the check accepts, every
command and callback has an update that no earlier handler of its group, entry or
not, takes (`AcceptedIsAlive`): its command, edited if it asked for that, or a payload
that nobody ahead has. In a bot that it refuses, one is behind another that takes all
that it takes (`RefusedIsDead`), edited messages aside. The three escapes named in
`RefusesTheDead`, and the twins of its other direction, are really there: without any
of them TLC finds a bot that breaks the property.

**Steps and menus** (`DeclarationProofs`), for any conversations, any declared
commands and any scopes. Both are lists that are filtered, duplicated and joined.
A joined list can be gone through part by part (`PartByPart`), so what it holds is
what its parts hold (`ElementsOfParts`), and its first wanted element is that of the
first part that has one (`FoundInParts`). `StepsComeAsDeclared` applies this to the
steps of a state, where each declared step is replaced by its copies, to the cancel
commands, and to the entries of all conversations: the first candidate that takes an
update is the first declared one of the kind that comes first (`EarliestOfState`,
`EarliestOfThose`, `EarliestOfParts`). `HelpIsTheMenu` has two parts. A menu and
`/help` list the same scopes in the same order; this needs that `scope_chats` does not
name the default scope, which `Bot` refuses (`app.py:113`), for else its commands
would be listed twice in the one and once in the other. And what `/help <command>`
finds is what `/help` lists, because each scope is among the sorted ones
(`ScopesAssumption`) and the menu has no name twice.

**Command lines** (`DeclarationProofs`), for any parameters and any line without line
breaks: `LinesFitTheirUsage`. The loop of `parse_args` cuts a line at its first space and
strips what is left; the usage speaks of the words of the line. Three lemmas connect the
two: a line cut in two has the words of both parts (`CutText`), `strip` takes no word
off (`StripKeepsWords`), and a line that starts with a word, in which two words have a
separator between them, gives `partition` that word and no other (`NextWord`).
`Reached` is the invariant of the loop: it has failed exactly if one of the arguments
so far is not given; otherwise the words of its values and those of the rest of the line
are the words of the line, each argument has its own, and the rest begins with the next,
or is empty behind a greedy argument. A round keeps it (`TakeOne`), and at the end it says
what fits (`FitsIs`). That only the last argument is greedy is what `Signature` checks.
A line break after the command's word is left out: it is not where the text begins (section 5).

**Injection** (`BuildProofs`), for any handler, providers and resolver: `InjectionIsSound`
and `BuildMeansInjection`. `IsContext` has two hypotheses beside the types: a function
that is the default of another's parameter (`Depends`) exists before that function, as
Python evaluates defaults when a function is defined; and the recursion limit
is not below `(factories + 2) * functions`. What can be had is found
bottom up, in rounds (`Rounds`); a function of the n-th round succeeds with n calls
(`FoundIsResolved`, where the stack only holds names of later rounds), and what succeeds
is in a round (`OkCanBeHad`, by climbing along the calls that are left). A circle is
named before the limit is reached since every call leaves less to go: a provider puts
one more name on the stack, and a `Depends` goes to an older function (`LessToGo`); only
the resolver of the principal begins with an empty stack, so it must be callable, and
then goes no deeper than its round. `BuildMeansInjection` needs that a handler is
nobody's provider.

**Middlewares** (`BuildProofs`), for any routers, also ones that are included twice or in
themselves: `MiddlewaresRunFromTheRoot`. A walk of height h holds exactly the handlers at
the end of the ways down over at most h routers, each with the middlewares along its way
(`WalksAre`); a way that starts a router higher has one router more in front. In
a tree no handler is met twice, since what is under one child is not under another; it
assumes that a handler is registered by one router.

**Model-checked only.** Liveness (`IdleRunExpires`, `EverySyncEnds`, `UpdateEnds`,
`StopEnds`), since fairness is outside what this proof system handles.
Every other property that a passing run checks is the statement of a theorem.

## 5. Where code and documentation part

With a run that shows it:

- **A replaced run can take the new one with it** (`conversations_replacement`,
  `conversations.py:517`). `_enter` ends the old run, hook included, before it
  records the new one. If an exception leaves the hook's pipeline, the new run is
  never recorded although its first screen has gone out.
  `docs/conversations.md:101`: "The new run replaces the old one once its first
  screen has gone out".
- **A menu whose answer was lost is forgotten** (`menus_lost_answer`,
  `commands.py:378`). A call that raised is taken not to have happened.
  `commands.py:308`: "A chat whose write fails -- to Telegram or to the store --
  stays in line for the next sync". With a persistent store, a restart between
  the write and `store.set` has the same effect (set `Faults = {"restart"}` in
  the configuration). `RecordIsTrusted` is the other side: without lost answers
  and cancellation the sentence holds.
- **A loop that crashes is never healthy** (`worker_backoff`, `workers.py:104`).
  The failures are reset where a run returns; a loop that ran for a week and then
  raised waits as long as all its failures ask for. `workers.py:36`: "a long-running
  loop alive at least this long is healthy and resets the backoff".
- **A cleanup can undo a cancellation** (`worker_stop`, `workers.py:89`). When a
  provider's cleanup raises while its worker is cancelled, the exception takes the
  place of the `CancelledError`, the worker is restarted, and `stop` waits for it
  without end. `docs/workers.md:44`: "are cancelled cleanly when the bot stops".
Met while modelling, and in the model, but with no run of their own:

- Whether registration is open is checked where a decorator is made, not where it is
  applied (`routing.py:177` and 181; `app.py:254` and 257 for workers): one that was
  made before the build and is applied after it registers in silence what nobody
  calls. `docs/handler-precedence.md:51`: "Registering anything after `bot.build()`
  (or `bot.run()`) raises instead of being silently ignored". `NothingIgnored` names
  exactly these registrations, and says that nothing else is lost.
- The build refuses two handlers of one command in a group although the second, with
  `edits=True`, would get the edited messages the first does not want
  (`app.py:621`; the error it raises, `app.py:627`: "only one of them would ever
  run"). `RefusesTheDead` names them as `EditedTwins`.
- A cancel command ends the run also when its handler never completed: a
  middleware answered it, or the throttle refused it (`conversations.py:559`;
  compare `tests/test_conversations.py:385`, "Its return value isn't a step result:
  no run starts, no state changes", which tests entries and steps).
- Supervision of a worker ends at failure 1025 when `backoff_base` is a float
  (`workers.py:105`), and with a `CancelledError` of the worker's own
  (`workers.py:101`); `SupervisionLasts` names both.
- When the resolver fails in the ban gate, the update goes on (`app.py:477`), and the
  resolver runs again for the first guarded handler; `docs/auth.md:53`: "at most
  once per update".
- A gate that failed lets a banned user reach handlers without guards; `GuardsHold`
  says so. A handler in a group below -100 runs before the gate, although
  `app.py:472` says "before any handler in any group", and one in group -100 never
  runs and is not reported, since the gate is the first of its group (`app.py:338`);
  `GateHolds` and `RefusesTheDead` leave the two out.
- A cancellation during `aclose` leaves the remaining cleanups undone
  (`injection.py:161`); `UpdateEnds` allows it.
- When two invocations overlap, the failed principal resolution of one aborts a
  provider that the other may be using (`injection.py:180`); `HandedIsLive` is
  stated accordingly.
- Two throttles that share a key but not a window forget hits of each other: the
  shorter window evicts what the longer one still counts. `WindowIsExact` shows
  that such a pair never refuses too much.
- A command's text starts after the first space (`dispatch.py:58`): a line break
  after the command is not one, and the words up to the next space are lost.
- A payload of `None` in a positional field comes back as the field's default
  (`callbacks.py:193`).
- A value is written by `str()` (`callbacks.py:59`). A number in a field of `int | str`
  comes back as a text, bytes come back as `b'...'` spelled out, and the button of a
  list, of a model, or of an Enum or a `Literal` of numbers, packs and decodes as
  expired. `KeepsItsType` says which fields are safe.
- The check of the build (`app.py:608`) does not see a command behind a message handler
  or an entry whose filters let commands through, such as `filters.ALL`
  (`routing.py:137`), nor handlers whose `when=` together cover all of a model.
- The press of a button that a step took whose run ended meanwhile is answered by
  nobody (`conversations.py:536`); `UserIsAnswered` excepts it.
- `Bot.stop` requests the cancellation of the timeout hooks and waits for none
  (`conversations.py:677`, `app.py:533`): their cleanups may run beside the shutdown
  hooks and after them. `ClosedIsQuiet` and `QuietShutdown` say "not cancelled".
- The name of a `Depends` parameter counts as being resolved, so a provider of the
  same name below it is reported as a circle (`injection.py:393`); a circle
  through the resolver of the principal is not reported, and recurses without end.
- A photo and a document of the same bytes share a cache entry (`media.py:48`): the
  `file_id` of one is offered for the other. When Telegram rejects it as of the wrong
  type, an edit falls back to a new message, and a send fails.
- A screen with a `file_id` and a source uploads the source each time the id is
  rejected: an id that was given is cached nowhere (`screens.py:503`).
- A URL that Telegram cannot make a file of is taken for a rejected `file_id`
  (`screens.py:327`) and handed over again as it is (`screens.py:550`, 583): four times
  when the edit falls back to a new message. `StaleIdsHeal` has the bound.

Outside the models:

- A synchronous generator is handed out as a generator and its cleanup never runs
  (`injection.py:327`); `docs/dependency-injection.md:61`: "it can be a generator or
  async generator".
- A limit of 0 raises `IndexError` in the throttle (`ratelimit.py:88`).
- When `run_polling` fails between `post_init` and its loop, `post_stop` is not
  called and the workers are not stopped.

## 6. Not modelled

- Which of an exception's classes has a handler (`ErrorRegistry.find`): the error
  handler is one function that tells the user, or raises, or returns a screen that
  does not arrive.
- Fields of callback models whose type is another union than `int | str`, or that have
  validators of their own; floats and dates, which are read from what `str` writes.
- Filters that let some messages of a command through and not others (a text, a chat):
  a message handler takes a command, or does not. Channel posts and business messages.
- In `Updates`, an exit hook that runs inside a handler, when its run is replaced or
  ends (a second pipeline run under the first), and raw handlers, which answer for
  themselves.
- Decorators other than those of handlers and workers (`provide`, `on_error`,
  `middleware`, hooks) that are applied late.
- The cache of the scope in `Injectables`: below a `Depends` whose parameter has the
  name of a provider, the second resolution of a provider may be called circular where
  the code has its value. The claims about circles are one-way beside a `Depends`.
- The registry of callback prefixes and `decode` across models; the press of a
  button is a press of one model, or of none that is known.
- What a middleware does with `call_next` beyond calling it once or not at all: one
  that detaches it into a task, or calls it twice.
- Keyboards, captions and texts of screens; the download helper of `media.py`.
- Failing cleanups of an update report to the error handlers in a scope of their
  own, which takes part in nothing else.
- A conversation's replies and the delivery of its screens are not composed: what
  `Conversations` needs of the pipeline is its result, and the screens of a goodbye
  and of the next flow race in `Delivery` like any two.
- `markdown.py`, `logging.py`, `exceptions.py`, `testing.py` and the examples:
  formatting, declarations and test support without state of interest.

## 7. What is left

- `Updates` as a refinement of a specification of one answer per press, which would
  give `Conversations` its `Results` by composition.
- Liveness as theorems.
