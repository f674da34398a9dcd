SPECIFICATION FairSpec
CONSTANTS
    Last = 4
    Window = 2
INVARIANTS
    WithinBounds
    CallbacksInScope
    AcceptedLand
    ListenersHear
PROPERTIES
    Finishes
CHECK_DEADLOCK FALSE
