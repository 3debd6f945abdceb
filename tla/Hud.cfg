\* Two tables, and two modifications so that one chain replaces another.
CONSTANTS
    Tables = {t1, t2}
    Dirs = {d1}
    MaxChanges = 2
    MaxWrites = 2
    None = none
SPECIFICATION FairSpec
INVARIANTS
    TypeOK
    StatsIncludeFile
    EntriesFollowWindows
PROPERTIES
    StopReturns
    
CHECK_DEADLOCK FALSE
