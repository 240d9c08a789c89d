\* As Lifecycle: the comment on what resets the backoff of a loop.
SPECIFICATION Spec
CONSTANTS
    Workers = {poll, watch}
    Periodic = {poll}
    Delayed = {poll}
    Stubborn = {}
    MaxExponent = 1
    Routers = {root, orders}
    Root = root
    Handlers = {menu, order}
    On <- MCOn
    StartupHooks = 1
    ShutdownHooks = 1
INVARIANT HealthyLoopResetsBackoff
CHECK_DEADLOCK FALSE
