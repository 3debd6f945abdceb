\* Three files in batches of two: a full batch and a partial one;
\* the parser may never leave the second and the third file.
CONSTANTS
    NbFiles = 3
    Cut = {2, 3}
    BatchSize = 2
    MaxImports = 2
SPECIFICATION FairSpec
INVARIANTS
    TypeOK
    CacheOutlivesTasks
    BatchesLimitTasks
    StoppedMergeIsPrefix
    UndisturbedLoadIsComplete
PROPERTIES
    ImportEnds
\* The user interface may await an import that awaits an endless parse.
CHECK_DEADLOCK FALSE
