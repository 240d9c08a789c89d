\* One worker, a loop whose cleanup fails although its bot stops.
SPECIFICATION Spec
CONSTANTS
    Workers = {watch}
    Periodic = {}
    Delayed = {}
    Stubborn = {watch}
    MaxExponent = 1
    Routers = {root, orders}
    Root = root
    Handlers = {menu, order}
    On <- MCOn
    StartupHooks = 1
    ShutdownHooks = 1
PROPERTY StopEnds
CHECK_DEADLOCK FALSE
