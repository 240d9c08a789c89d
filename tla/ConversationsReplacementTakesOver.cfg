SPECIFICATION Spec
CONSTANTS
    Callers = {ann}
    Flows = {order, survey}
    TimedFlows = {order}
    HookedFlows = {order, survey}
    States = {ask}
    Runs = {r1, r2}
    Tasks = {t1}
    NoRun = NoRun
CHECK_DEADLOCK FALSE
PROPERTY ReplacementTakesOver
