\* A periodic worker and a loop; two routers; a float that overflows early.
SPECIFICATION Spec
CONSTANTS
    Workers = {poll, watch}
    Periodic = {poll}
    Delayed = {poll}
    Stubborn = {}
    MaxExponent = 1
    Routers = {root, orders}
    Root = root
    Handlers = {menu, order}
    On <- MCOn
    StartupHooks = 1
    ShutdownHooks = 1
INVARIANTS
    NothingIgnored
    QuietShutdown
    SupervisionLasts
PROPERTIES
    StopEnds
\* The bot is down in the end.
CHECK_DEADLOCK FALSE
