SPECIFICATION TimeoutSpec
CONSTANTS
    Requesters = {a, b}
    Blocking = {b}
    Timed = {a, b}
    Capacity = 1
    MaxGen = 4
INVARIANTS OneHolder NoLeak OwnResponse CancelSticks
PROPERTY TimedRequestEnds
\* A request that is stuck violates the property: it need not be a deadlock too.
CHECK_DEADLOCK FALSE
