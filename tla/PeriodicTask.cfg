\* Two starts, so that a lambda on its way out meets its successor.
CONSTANTS
    Owner = owner
    Joiners = {j1}
    MaxStarts = 2
    None = none
SPECIFICATION FairSpec
INVARIANTS
    TypeOK
    OneTaskAtATime
    QuietAfterStop
PROPERTIES
    ImplementsLifecycle
    LoopEndsAfterStop
CHECK_DEADLOCK FALSE
