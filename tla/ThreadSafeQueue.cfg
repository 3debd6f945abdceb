\* Three pushes by two producers, raced by two consumers.
CONSTANTS
    Producers = {p1, p2}
    Consumers = {c1, c2}
    Values = {v1, v2}
    MaxNodes = 4
    Nothing = nothing
SPECIFICATION FairSpec
INVARIANTS
    TypeOK
    HeadNodeIsComplete
PROPERTIES
    ImplementsFifo
    PushReturns
CHECK_DEADLOCK FALSE
