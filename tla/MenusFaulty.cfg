\* Everything may go wrong at once: what the lock and the attempts still give.
SPECIFICATION Spec
CONSTANTS
    Chats = {c1}
    Menus = {m1}
    NoMenu = NoMenu
    Tasks = {t1, t2, t3}
    NoTask = NoTask
    KnownChats = {}
    Persistent = TRUE
    MaxAttempts = 3
    Faults = {"store", "lost", "cancel", "restart"}
INVARIANTS
    TypeOK
    WritesNewestReading
PROPERTY EverySyncEnds
