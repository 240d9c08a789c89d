\* A store that is gone with the process, and known_scope_chats to make up for
\* it; store calls fail, the process restarts, no answer of Telegram is lost.
SPECIFICATION Spec
CONSTANTS
    Chats = {c1, c2}
    Menus = {m1, m2}
    NoMenu = NoMenu
    Tasks = {t1, t2}
    NoTask = NoTask
    KnownChats = {c1, c2}
    Persistent = FALSE
    MaxAttempts = 1
    Faults = {"store", "restart"}
SYMMETRY MenuTaskSymmetry
INVARIANTS
    StaysInLine
    FinishedSyncConverged
