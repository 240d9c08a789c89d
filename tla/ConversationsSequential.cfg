\* One update at a time, as PTB feeds a bot; timers and their hooks run beside.
\* Every flow has an exit hook: the refinement of RunLifecycle is stated for those.
\* No symmetry: two of the properties are temporal.
SPECIFICATION Spec
CONSTANTS
    Callers = {ann, bob}
    Flows = {order, survey}
    TimedFlows = {order}
    HookedFlows = {order, survey}
    States = {ask, confirm}
    Runs = {r1, r2, r3}
    Tasks = {t1}
    NoRun = NoRun
CHECK_DEADLOCK FALSE
INVARIANTS
    TypeOK
    RunOutlivesItsStep
    StepRunsInItsState
    EndedRunHadItsHook
    ClosedIsQuiet
PROPERTIES
    IdleRunExpires
    ImplementsLifecycle
