\* A little-endian host.
SPECIFICATION Spec
CONSTANTS
    XidMax = 3
    Wire <- MCSwap
    MaxCalls = 4
    MaxQueue = 2
INVARIANTS
    AtMostOnce
    OwnReply
    NoneForgotten
PROPERTY
    EofResolves
CHECK_DEADLOCK FALSE
