\* Two updates of one caller in flight at once; one flow has no exit hook.
SPECIFICATION Spec
CONSTANTS
    Callers = {ann}
    Flows = {order, survey}
    TimedFlows = {order}
    HookedFlows = {order}
    States = {ask, confirm}
    Runs = {r1, r2, r3}
    Tasks = {t1, t2}
    NoRun = NoRun
SYMMETRY RunSymmetry
CHECK_DEADLOCK FALSE
INVARIANTS
    OneExitPerRun
    IdleRunIsArmed
