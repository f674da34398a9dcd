SPECIFICATION Spec
CONSTANTS
    Owners = {o, p}
    Senders = {a, b}
    Nobody = none
    Depth = 1
    MaxBuckets = 2
    MaxSends = 1
    LivesOn = FALSE
SYMMETRY Symmetry
INVARIANTS LeaseCounts NoUseAfterFree AutoClearedFreed SleepsWhenQuiet
