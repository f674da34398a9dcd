SPECIFICATION Spec
CONSTANTS
    Owners = {o}
    Senders = {a}
    Nobody = none
    Depth = 1
    MaxBuckets = 2
    MaxSends = 1
    LivesOn = FALSE
INVARIANT ClearedFreed
