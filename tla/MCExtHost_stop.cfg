SPECIFICATION Spec
CONSTANTS
    Plugins = {t}
    Libs = {l}
    Calls = {}
    Signalers = {}
    Workers = {w}
    BridgeNames = {b}
    WorkerNames = {p}
    Slots = {0, 1}
    RingCap = 1
    MaxGen = 2
    MaxOpens = 2
    NoPort = noport
    Nobody = nobody
INVARIANT StopClosesPorts
\* Once the host has stopped and all is closed nothing is left to do.
CHECK_DEADLOCK FALSE
