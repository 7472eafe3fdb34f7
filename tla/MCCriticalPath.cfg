\* A tiering server with two callers, each a connection with numbers of its own.
SPECIFICATION Spec
CONSTANTS
    Children = {c1, c2}
    Callers = {p1, p2}
    Times = {1, 2}
    MaxRequests = 3
INVARIANTS
    CriticalPathIsSlowest
    DistributedTraceComplete
PROPERTY
    AnsweredTracesStable
CHECK_DEADLOCK FALSE
