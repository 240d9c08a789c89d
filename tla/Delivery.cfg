\* Two deliveries in one chat, side by side or one after the other.
SPECIFICATION Spec
CONSTANTS
    Tasks = {t1, t2}
    Old = old
    NoMessage = none
    Screens <- MCScreens
SYMMETRY TaskSymmetry
INVARIANTS
    NeverStranded
    OkIsShown
    StaleIdsHeal
\* Every task delivers once.
CHECK_DEADLOCK FALSE
