SPECIFICATION Spec
CONSTANTS
    Base = 8
    Def <- MCDef
    Objects <- MCObjects
    Valid <- MCValid
    ArgTypes <- MCArgTypes
    StackLimits = {0, 3, 4095}
    ForeignWords = {0, 1, 2, 4, 513, 2056, 4095}
    MaxDamage = 1
INVARIANTS
    MarshalsRfc4506
    UnmarshalsExactly
    ObjectsWhole
    Ordered
CHECK_DEADLOCK FALSE
