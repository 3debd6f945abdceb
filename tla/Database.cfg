\* Two savers whose sites may share games; a third call saves a site again.
CONSTANTS
    Savers = {s1, s2}
    Games = {g1, g2}
    MaxSaves = 3
SPECIFICATION FairSpec
INVARIANTS
    TypeOK
    ReferencesHold
    StoredGamesStay
PROPERTIES
    DiskChangesAtCommit
    SaveEnds
CHECK_DEADLOCK FALSE
