SPECIFICATION Spec
CONSTANTS
    Conns = {1, 2}
    Services <- MCServices
    Procs = {1}
    Styles = {"arpc", "srpc"}
    MaxThrows = 1
    Kinds <- MCKinds
    Calls <- MCCalls
    Alien <- MCAlien
    MaxCalls = 2
INVARIANTS
    OneReply
    OnlyServed
    OwnTraceMode
    OwnStatus
PROPERTIES
    CallsSpec
    
CHECK_DEADLOCK FALSE
