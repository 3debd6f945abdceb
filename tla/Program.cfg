\* Two launches, a crash, a change of the directories or of the configuration, two
\* choices of a directory, two changes of the watched file.  The program stops
\* when the bounds are reached.
CONSTANTS
    None = None
    Blank = Blank
    NoEqual = NoEqual
    Help = Help
    Failed = Failed
    Aborted = Aborted
    NoDir = NoDir
    NotFound = NotFound
    Dirs <- MCDirs
    LongDirs = {"long"}
    Contents <- MCContents
    Disks <- MCDisks
    Arguments <- MCArguments
    ToolArguments <- MCToolArguments
    Configs <- MCConfigs
    Titles <- MCTitles
    Places = {"left"}
    NbQueries = 2
    MaxLaunches = 2
    MaxCrashes = 1
    MaxChanges = 1
    MaxChoices = 2
    MaxEvents = 2
SPECIFICATION Spec
CHECK_DEADLOCK FALSE
INVARIANTS
    TypeOK
    DatabaseOutlivesSaves
PROPERTIES
    FailuresHaveCause
    ChosenDirIsRemembered
