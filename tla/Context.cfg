SPECIFICATION Spec
CONSTANTS
    a = a
    b = b
    Threads = {a, b}
    MaxCtx = 2
    MaxObjs = 3
    Setups <- MCSetups
INVARIANTS PointersLive OwnGraphLoaded NoGraphLost
CHECK_DEADLOCK FALSE
