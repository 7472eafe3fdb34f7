SPECIFICATION Spec
CONSTANTS
    p1 = p1
    p2 = p2
    w1 = w1
    w2 = w2
    Sets <- MCSets
    Workers <- MCWorkers
    Target <- MCTarget
    Sigs = {1, 2}
    Uncatchable = {2}
    PipeCap = 1
    MaxHandlers = 2
    MaxEvents = 4
INVARIANTS
    InjectedInOrder
    WakesLive
PROPERTIES
    InjectedRun
    SignalsHandled
CHECK_DEADLOCK FALSE
