CONSTANTS
    TodoCounts <- MCTodoCounts
    SecretCounts <- MCSecretCounts
    FileCounts <- MCFileCounts
    DayValues <- MCDayValues
    CommitValues <- MCCommitValues
    ChangedValues <- MCChangedValues
    MissingValues <- MCMissingValues
    MonitorPolls = 2
    EvalTiers <- MCEvalTiers
    Models <- MCModels
    ResultsPerTier = 1
    NoTier = NoTier
    OtherTodos = 2
    Slugs <- MCSlugs
    MaxClock = 2
    MaxHandoffs = 3
    UndatedFile = UndatedFile
    NoLink = NoLink
    ArchiveSlugs = {}
    ArchivePath = FALSE
    UnlistedScenario = UnlistedScenario
SPECIFICATION MCSpec
INVARIANT QualityMonotone
INVARIANT StalenessMonotone
INVARIANT NoDuplicateWindows
 
INVARIANT ResultTiersListed
INVARIANT AutoLinkNewest
PROPERTY ImplementsE2ERun
PROPERTY E2EScriptTerminates
CHECK_DEADLOCK FALSE
