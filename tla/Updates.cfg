\* Two handlers, one after the other, and a timeout hook beside them that may outlive the
\* update; the bot may stop while the hook runs.
SPECIFICATION Spec
CONSTANTS
    Groups <- MCGroups
    Hooks = {"hook"}
    Gate = "gate"
    OnError <- MCOnError
    Steps = {"command"}
    Update = "update"
    Users <- MCUsers
    Names = {"conn", "session"}
    Generators = {"conn", "session"}
    Principal = "principal"
    Handler = "handler"
    ErrorHandler = "error handler"
    Functions = {"handler", "error handler"}
    Deps <- MCDeps
    Press = TRUE
INVARIANTS
    TypeOK
    CleanupsInOrder
    HeldWhileUsed
    HandedIsLive
    GuardsHold
    UserIsAnswered
PROPERTIES
    UpdateEnds
\* An update that is over takes no more steps; UpdateEnds says that it gets there.
CHECK_DEADLOCK FALSE
