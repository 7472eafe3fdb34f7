SPECIFICATION Spec
CONSTANTS
    Children = {c1, c2}
    Keys = {k1}
    Values = {v1, v2}
    NoVal = NoVal
    Empty = Empty
    Torn = Torn
    UintMax = 3
INVARIANTS
    CountdownComplete
    NoUnderflow
    PutAckedByAll
    ReplicasAgree
    GetFreshUnlessRaced
PROPERTIES
    CallsResolve
    AnsweredUnlessOverlap
CHECK_DEADLOCK FALSE
