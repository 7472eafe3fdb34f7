\* A handler that drops its reply_cb or throws has the client told that the call was
\* refused.
SPECIFICATION Safety
CONSTANTS
    Conns = {1, 2}
    Services <- MCServices
    Procs = {1}
    Styles = {"arpc", "srpc"}
    MaxThrows = 1
    Kinds <- MCKinds
    Calls <- MCCalls
    Alien <- MCAlien
    MaxCalls = 2
INVARIANT
    RefusedNotExecuted
CHECK_DEADLOCK FALSE
