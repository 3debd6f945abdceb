\* Two calls of save on one game are enough.
CONSTANTS
    Savers = {s1, s2}
    Games = {g1}
    MaxSaves = 2
SPECIFICATION FairSpec
CHECK_DEADLOCK FALSE
INVARIANT EachSiteIsPersisted
