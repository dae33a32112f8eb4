SPECIFICATION Spec
CONSTANTS
    FirstMajor = 3
    Malformed = Malformed
    None = None
    Source <- MCSource
    Pulls <- MCPulls
    Arguments <- MCArguments
    MainLists <- MCMainLists
    Normalized <- MCNormalized
    Manifest <- MCManifest
    Cfg <- MCCfg
    MaxRuns = 2
    MaxReleases = 2
INVARIANT TypeOK
PROPERTY WrittenIsComplete
PROPERTY VersionsInOrder
PROPERTY OnlyCompleteRunsWrite
PROPERTY HistoryIsKept
PROPERTY NoMarkerIsLeft
PROPERTY FinishedStays
PROPERTY RunEnds
CHECK_DEADLOCK FALSE
