------------------------------- MODULE Updates -------------------------------
(***************************************************************************)
(* One update going through vitrine: the ban gate, then its handlers, each *)
(* through the pipeline of dispatch.py (decode, middlewares, guard,        *)
(* throttle, arguments, injection, handler, result, error layer), all in   *)
(* one DependencyScope.  PTB runs the handlers of its groups one after the *)
(* other (external: telegram.ext); beside them run the exit hooks of       *)
(* conversations whose timer was armed under this update, and these go on  *)
(* when the update is done, until the bot stops and cancels them.          *)
(*                                                                         *)
(* pc says where an invocation is; between two places the program awaits.  *)
(***************************************************************************)
EXTENDS DependencyScope

CONSTANTS
    Groups,            \* the handlers PTB finds for the update, group by group
    Hooks,             \* timeout hooks that may run meanwhile
    Steps,             \* those by which a conversation's dispatcher takes it as a step
    Gate,              \* the ban gate
    OnError,           \* per handler, the bot's error handler that PTB calls for it
    Handler, ErrorHandler, \* what they call: the two functions of the author
    Press              \* whether it is the press of a button: some handler takes it,
                       \* be it the catch-all (a raw handler answers for itself)

Handlers == ToSet(Groups)
Errors == {OnError[h] : h \in Handlers}

ASSUME UpdatesAssumption ==
    /\ Groups \in Seq(Users) /\ IsInjective(Groups) /\ (Press => Groups # <<>>)
    /\ Users = Handlers \cup Hooks \cup Errors \cup {Gate, Update} /\ Gate # Update
    /\ Handlers \cap Hooks = {} /\ Errors \cap (Handlers \cup Hooks) = {}
    /\ {Gate, Update} \cap (Handlers \cup Hooks \cup Errors) = {}
    /\ \A g, h \in Handlers : OnError[g] = OnError[h] => g = h
    /\ Steps \subseteq Handlers
    /\ Functions = {Handler, ErrorHandler}
    /\ Press \in BOOLEAN

Invocations == Users \ {Update}

VARIABLES
    step,         \* of the update: gate, handlers, closing, done
    pc,           \* of each invocation
    caller,       \* who sent it: unknown, user or banned
    guarded,      \* the invocations whose handler has guards
    armed,        \* a conversation took its step, and has its timer running
    answered,     \* the press got an answer
    gateOpen,     \* the gate could not tell who it is, and let it pass
    failed, told, \* handlers that raised; whose failure the user was told of
    escaped       \* handlers that an exception left all the same

given == <<caller, guarded>>
outcome == <<armed, answered, gateOpen, failed, told, escaped>>
vars == <<scopeVars, step, pc, given, outcome>>

Init ==
    /\ ScopeInit
    /\ step = "gate"
    /\ pc = [u \in Invocations |-> "idle"]
    /\ caller \in {"unknown", "user", "banned"}
    /\ guarded \in SUBSET Handlers
    /\ answered = FALSE /\ gateOpen = FALSE /\ armed = FALSE
    /\ failed = {} /\ told = {} /\ escaped = {}

GoesTo(u, place) == pc' = [pc EXCEPT ![u] = place]
Idle(u) == frames[u] = <<>> /\ undoing[u] = <<>>

(***************************************************************************)
(* The ban gate.                                                           *)
(***************************************************************************)

GateJoins ==
    /\ step = "gate" /\ pc[Gate] = "idle"
    /\ Join(Gate) /\ GoesTo(Gate, "entered")
    /\ UNCHANGED <<step, given, outcome>>

GateResolves ==
    /\ pc[Gate] = "entered" /\ ~principal
    /\ Call(Gate, Principal) /\ GoesTo(Gate, "guard")
    /\ UNCHANGED <<step, given, outcome>>

\* The gate knows who it is: a banned user is told, and the update ends here.
GateDecides ==
    /\ (pc[Gate] = "guard" \/ (pc[Gate] = "entered" /\ principal)) /\ Idle(Gate)
    /\ Release(Gate) /\ GoesTo(Gate, "done")
    /\ step' = IF caller = "banned" THEN "closing" ELSE "handlers"
    /\ answered' = (answered \/ (Press /\ caller = "banned"))
    /\ UNCHANGED <<given, gateOpen, armed, failed, told, escaped>>

\* Mutant: the hold is kept when the gate cannot tell.
GateGivesUpHolding ==
    /\ pc[Gate] = "error" /\ Idle(Gate)
    /\ GoesTo(Gate, "done")
    /\ step' = "handlers" /\ gateOpen' = TRUE
    /\ UNCHANGED <<scopeVars, given, armed, answered, failed, told, escaped>>

\* It cannot tell: the failure is logged and the update goes on.
GateGivesUp ==
    /\ pc[Gate] = "error" /\ Idle(Gate)
    /\ Release(Gate) /\ GoesTo(Gate, "done")
    /\ step' = "handlers" /\ gateOpen' = TRUE
    /\ UNCHANGED <<given, armed, answered, failed, told, escaped>>

(***************************************************************************)
(* The pipeline: Dispatch.run.                                             *)
(***************************************************************************)

\* PTB is through with a handler when an exception that escaped it was dealt with.
Through(h) == pc[h] = "late" \/ (pc[h] = "done" /\ (h \in escaped => pc[OnError[h]] = "done"))

\* A handler's turn comes after that of the groups before it.
MyTurn(u) ==
    /\ step = "handlers"
    /\ \E k \in DOMAIN Groups : Groups[k] = u /\ \A j \in 1 .. k - 1 : Through(Groups[j])

\* A hook's comes whenever its timer, once armed, fires before the update's scope is
\* closed (later it has a scope of its own).
Enters(u) ==
    /\ pc[u] = "idle"
    /\ MyTurn(u) \/ (u \in Hooks /\ armed)
    /\ Join(u) /\ GoesTo(u, "middleware")
    /\ UNCHANGED <<step, given, outcome>>

\* The step of a run that ended between the match and now: the dispatcher has taken the
\* update, and returns (ConversationDispatcher._step).
TooLate(u) ==
    /\ u \in Steps /\ pc[u] = "idle" /\ MyTurn(u)
    /\ GoesTo(u, "late")
    /\ UNCHANGED <<scopeVars, step, given, outcome>>

\* The data of the button no longer decodes: it is answered, and nothing else runs.
Expires(u) ==
    /\ u \in Handlers /\ Press /\ pc[u] = "middleware"
    /\ answered' = TRUE /\ GoesTo(u, "finally")
    /\ UNCHANGED <<scopeVars, step, given, gateOpen, armed, failed, told, escaped>>

\* A middleware answers by itself, without calling the next.
MiddlewareStops(u) ==
    /\ pc[u] = "middleware" /\ GoesTo(u, "finally")
    /\ UNCHANGED <<scopeVars, step, given, outcome>>

MiddlewareRaises(u) ==
    /\ pc[u] \in {"middleware", "after"} /\ GoesTo(u, "error")
    /\ UNCHANGED <<scopeVars, step, given, outcome>>

\* core: a guarded handler needs the principal first.
Identifies(u) ==
    /\ pc[u] = "middleware" /\ u \in guarded /\ ~principal
    /\ Call(u, Principal) /\ GoesTo(u, "guard")
    /\ UNCHANGED <<step, given, outcome>>

AtCore(u) ==
    /\ Idle(u)
    /\ u # Gate
    /\ pc[u] = "guard" \/ (pc[u] = "middleware" /\ (u \in guarded => principal))

\* Mutant: a guard only looks for a ban.
MayPassIfNotBanned(u) == u \in guarded => caller # "banned"

\* Auth.check: guards let a known principal pass that is not banned.
MayPass(u) == u \in guarded => caller = "user"

\* The guard refuses (also for a missing role), the throttle does, or the command
\* line does not fit: raised to the error layer.
Refused(u) ==
    /\ AtCore(u) /\ GoesTo(u, "error")
    /\ UNCHANGED <<scopeVars, step, given, outcome>>

\* The throttle has an on_limit of its own: nothing is told (_Drop).
Dropped(u) ==
    /\ AtCore(u) /\ MayPass(u) /\ GoesTo(u, "finally")
    /\ UNCHANGED <<scopeVars, step, given, outcome>>

Admitted(u) ==
    /\ AtCore(u) /\ MayPass(u)
    /\ Call(u, Handler) /\ GoesTo(u, "handler")
    /\ UNCHANGED <<step, given, outcome>>

\* The resolution goes on; something that u resolves comes up.
Resolves(u) ==
    /\ Takes(u) \/ Asks(u) \/ ProviderReturns(u) \/ ResolverReturns(u)
    /\ UNCHANGED <<step, pc, given, outcome>>

\* Something that u resolves, or the handler itself, raises.
Fails(u) ==
    /\ pc[u] \in {"guard", "handler"}
    /\ Raises(u) /\ GoesTo(u, "error")
    /\ UNCHANGED <<step, given, outcome>>

HandlerReturns(u) ==
    /\ pc[u] = "handler" /\ FunctionReturns(u, Handler) /\ GoesTo(u, "result")
    /\ UNCHANGED <<step, given, outcome>>

\* handle_result: the Screen is delivered, or the conversation takes its step.
ResultTaken(u) ==
    /\ pc[u] = "result" /\ GoesTo(u, "after")
    /\ armed' = (armed \/ u \in Handlers)
    /\ UNCHANGED <<scopeVars, step, given, answered, gateOpen, failed, told, escaped>>

ResultRaises(u) ==
    /\ pc[u] = "result" /\ GoesTo(u, "error")
    /\ UNCHANGED <<scopeVars, step, given, outcome>>

MiddlewaresReturn(u) ==
    /\ pc[u] = "after" /\ GoesTo(u, "finally")
    /\ UNCHANGED <<scopeVars, step, given, outcome>>

\* ErrorRegistry.dispatch: the handler for the exception, injected like any other.
Reports(u) ==
    /\ pc[u] = "error" /\ u # Gate /\ Idle(u)
    /\ Call(u, ErrorHandler) /\ GoesTo(u, "on_error")
    /\ failed' = failed \cup ({u} \ Hooks)
    /\ UNCHANGED <<step, given, armed, answered, gateOpen, told, escaped>>

\* It tells the user, by itself or by the Screen it returns.
ErrorHandled(u) ==
    /\ pc[u] = "on_error" /\ FunctionReturns(u, ErrorHandler) /\ GoesTo(u, "finally")
    /\ told' = told \cup ({u} \ Hooks)
    /\ UNCHANGED <<step, given, armed, answered, gateOpen, failed, escaped>>

\* The error handler, or what it needs, raises: _last_resort tells the user.
ErrorHandlerFails(u) ==
    /\ pc[u] = "on_error" /\ Raises(u) /\ GoesTo(u, "finally")
    /\ told' = told \cup ({u} \ Hooks)
    /\ UNCHANGED <<step, given, armed, answered, gateOpen, failed, escaped>>

\* The Screen it returns cannot be delivered: that exception leaves Dispatch.run.
ErrorScreenRaises(u) ==
    /\ pc[u] = "on_error" /\ FunctionReturns(u, ErrorHandler) /\ GoesTo(u, "finally")
    /\ escaped' = escaped \cup ({u} \ Hooks)
    /\ UNCHANGED <<step, given, armed, answered, gateOpen, failed, told>>

\* Mutant: a press is answered only when all went well.
FinallyUnlessFailed(u) ==
    /\ pc[u] = "finally" /\ Idle(u) /\ Release(u)
    /\ answered' = (answered \/ (Press /\ u \in Handlers \ failed))
    /\ GoesTo(u, IF closed' /\ cleanups # <<>> THEN "closing" ELSE "done")
    /\ UNCHANGED <<step, given, gateOpen, armed, failed, told, escaped>>

\* The scope is released, then the press is answered, whatever happened before (a
\* hook answers nothing).
Finally(u) ==
    /\ pc[u] = "finally" /\ Idle(u) /\ Release(u)
    /\ answered' = (answered \/ (Press /\ u \in Handlers))
    /\ GoesTo(u, IF closed' /\ cleanups # <<>> THEN "closing" ELSE "done")
    /\ UNCHANGED <<step, given, gateOpen, armed, failed, told, escaped>>

\* The bot stops: ConversationDispatcher.close cancels a hook at its await.  One that
\* undoes a failed resolution leaves the rest of it to the cleanups, and one that runs
\* the cleanups of the scope leaves the rest of them undone.
Cancelled(u) ==
    /\ u \in Hooks
    /\ \/ /\ pc[u] \in {"guard", "handler", "on_error"} /\ Raises(u)
          /\ GoesTo(u, "finally")
       \/ /\ pc[u] \in {"error", "finally"} /\ AbortCancelled(u) /\ GoesTo(u, "finally")
       \/ /\ pc[u] \in {"middleware", "result", "after"} /\ GoesTo(u, "finally")
          /\ UNCHANGED scopeVars
       \/ /\ pc[u] = "closing" /\ GoesTo(u, "cut")
          /\ UNCHANGED scopeVars
    /\ UNCHANGED <<step, given, outcome>>

(***************************************************************************)
(* What escapes the pipeline, and the end of the update.                   *)
(***************************************************************************)

\* PTB gives it to _on_ptb_error before it goes on with the next group.
PtbErrorEnters(h) ==
    /\ h \in escaped /\ pc[h] = "done" /\ pc[OnError[h]] = "idle"
    /\ Join(OnError[h]) /\ GoesTo(OnError[h], "error")
    /\ UNCHANGED <<step, given, outcome>>

\* process_update is through with every group.
ProcessingEnds ==
    /\ step \in {"handlers", "closing"} /\ Update \in holders
    /\ step = "handlers" => \A h \in Handlers : Through(h)
    /\ Release(Update)
    /\ step' = IF closed' /\ cleanups # <<>> THEN "closing" ELSE "done"
    /\ UNCHANGED <<pc, given, outcome>>

\* The one that closed the scope runs its cleanups.  One that fails goes to the
\* error handlers, in a scope of their own.
CleansUp ==
    /\ Finishes
    /\ IF Update \notin holders /\ step = "closing"
       THEN /\ step' = IF Len(cleanups) = 1 THEN "done" ELSE step
            /\ UNCHANGED pc
       ELSE /\ \E u \in Invocations : pc[u] = "closing"
            /\ pc' = [u \in Invocations |->
                        IF pc[u] = "closing" /\ Len(cleanups) = 1 THEN "done" ELSE pc[u]]
            /\ UNCHANGED step
    /\ UNCHANGED <<given, outcome>>

Undoes(u) == Aborts(u) /\ UNCHANGED <<step, pc, given, outcome>>

\* Everything is over: nothing is left to happen but timers, which may not fire.
Over == /\ step = "done" /\ holders = {}
        /\ \A u \in Invocations : pc[u] # "closing"

Invocation(u) ==
    \/ Enters(u) \/ TooLate(u) \/ Expires(u) \/ MiddlewareStops(u) \/ MiddlewareRaises(u)
    \/ Identifies(u) \/ Refused(u) \/ Dropped(u) \/ Admitted(u)
    \/ Resolves(u) \/ Fails(u) \/ Undoes(u) \/ HandlerReturns(u)
    \/ ResultTaken(u) \/ ResultRaises(u) \/ MiddlewaresReturn(u)
    \/ Reports(u) \/ ErrorHandled(u) \/ ErrorHandlerFails(u) \/ ErrorScreenRaises(u)
    \/ Finally(u) \/ Cancelled(u)

\* Between two awaits of a resolution nothing else happens.
AllAwait == \A u \in Users : Awaits(u)

Next ==
    \/ AllAwait /\ (GateJoins \/ GateResolves \/ GateDecides \/ GateGivesUp)
    \/ \E u \in Invocations : MayRun(u) /\ Invocation(u)
    \/ AllAwait /\ ((\E h \in Handlers : PtbErrorEnters(h)) \/ ProcessingEnds \/ CleansUp)

\* Whatever the program awaits (a provider, a handler, Telegram) answers or fails,
\* and PTB goes on; a timer may or may not fire.
Fairness ==
    /\ WF_vars(AllAwait /\ (GateJoins \/ GateResolves \/ GateDecides \/ GateGivesUp))
    /\ \A u \in Invocations : WF_vars(pc[u] # "idle" /\ MayRun(u) /\ Invocation(u))
    /\ WF_vars(AllAwait /\ \/ ProcessingEnds
                           \/ \E h \in Handlers : PtbErrorEnters(h) \/ Enters(h) \/ TooLate(h))
    /\ WF_vars(AllAwait /\ CleansUp)

Spec == Init /\ [][Next]_vars /\ Fairness

(***************************************************************************)
(* Properties.                                                             *)
(***************************************************************************)

TypeOK ==
    /\ ScopeTypeOK
    /\ step \in {"gate", "handlers", "closing", "done"}
    /\ pc \in [Invocations -> {"idle", "entered", "middleware", "guard", "handler", "result",
                               "after", "error", "on_error", "finally", "closing", "cut", "late",
                               "done"}]
    /\ {answered, gateOpen, armed} \subseteq BOOLEAN
    /\ UNION {failed, told, escaped} \subseteq Invocations

\* No guarded handler runs for a stranger or a banned user, nor is any of its
\* dependencies set up, also after a failure of the gate, also when the principal was
\* resolved by another; and a banned user reaches a handler only if the gate could not
\* tell who it was.
GuardsHold ==
    \A u \in Handlers : pc[u] = "handler" =>
        /\ u \in guarded => caller = "user"
        /\ caller = "banned" => gateOpen

\* The spinner of a button stops, whatever stops, drops, refuses or breaks its handler,
\* unless a step that came too late was all there was to take the press; and each time
\* something raises, the user is told, unless telling fails twice: in the pipeline and
\* again in PTB's error handler.
UserIsAnswered ==
    step = "done" =>
        /\ Press => answered \/ \A h \in Handlers : pc[h] = "late"
        /\ \A h \in failed \cap Handlers : h \in told \/ OnError[h] \in told \cup escaped

\* Each update comes to its end, its scope closed and every cleanup run, unless the
\* bot stopped while a hook was running them.
UpdateEnds ==
    <>(Over /\ closed /\ (cleanups = <<>> \/ \E u \in Hooks : pc[u] = "cut"))
=============================================================================
