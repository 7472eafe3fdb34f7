SPECIFICATION Spec
CONSTANTS
    Children = {c1, c2}
    Keys = {k1}
    Values = {v1}
    NoVal = NoVal
    Empty = Empty
    Torn = Torn
    UintMax = 3
PROPERTY RequestsAnswered
CHECK_DEADLOCK FALSE
