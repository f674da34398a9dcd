SPECIFICATION Spec
CONSTANTS
    Requesters = {a}
    Blocking = {}
    Timed = {a}
    Capacity = 1
    MaxGen = 1
INVARIANT ReleasedOnce
CHECK_DEADLOCK FALSE
