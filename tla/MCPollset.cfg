SPECIFICATION Spec
CONSTANTS
    f1 = f1
    f2 = f2
    Fds <- MCFds
    MaxOps = 3
    MaxTime = 1
    MaxThrows = 1
INVARIANTS
    TableConsistent
    ReadyCallbacksRun
    InvalidOnlyUnswept
PROPERTIES
    TimeoutsRun
CHECK_DEADLOCK FALSE
