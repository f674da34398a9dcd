SPECIFICATION Spec
CONSTANTS
    Threads = {a, b, e}
    Emitting = {e}
    Listening = {a, b, e}
    Dropping = {e}
    Nobody = Nobody
    Cells = {c1, c2}
    Clear = Clear
    Depth = 1
    MaxSends = 2
    MaxListens = 2
    MaxBuckets = 2
INVARIANTS CellsCounted RingsCounted  DropReaches WakeNotLost
SYMMETRY Symmetry
CHECK_DEADLOCK FALSE
