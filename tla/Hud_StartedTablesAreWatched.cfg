\* Two tables are enough.
CONSTANTS
    Tables = {t1, t2}
    Dirs = {d1}
    MaxChanges = 1
    MaxWrites = 1
    None = none
SPECIFICATION Spec
INVARIANTS
    StartedTablesAreWatched
CHECK_DEADLOCK FALSE
