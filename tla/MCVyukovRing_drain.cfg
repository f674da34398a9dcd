SPECIFICATION Spec
CONSTANTS
    Producers = {p1}
    Capacity = 2
    MaxCalls = 1
INVARIANT DrainedWhenRetired
CHECK_DEADLOCK FALSE
