SPECIFICATION FairSpec
CONSTANTS
    a = a  b = b
    Items = {a, b}
    Limit = 3
    None = none
    MaxWrites = 6
INVARIANTS
    TypeOK NoLostWakeup NoOverwrite SignalsBounded
PROPERTIES
    Implements Delivered
CHECK_DEADLOCK FALSE
