\* Telegram does what it was asked and the answer is lost.
SPECIFICATION Spec
CONSTANTS
    Chats = {c1}
    Menus = {m1}
    NoMenu = NoMenu
    Tasks = {t1}
    NoTask = NoTask
    KnownChats = {}
    Persistent = TRUE
    MaxAttempts = 1
    Faults = {"lost"}
INVARIANT StaysInLine
