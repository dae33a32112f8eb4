SPECIFICATION Spec
CONSTANTS
    FirstMajor = 3
    Malformed = Malformed
    None = None
    Source <- MCSource
    Pulls <- MCPulls
    Arguments <- MCArguments
    MainLists <- MCMainLists
    Normalized <- MCNormalized
    Manifest <- MCManifest
    Cfg <- MCCfg
    MaxRuns = 1
    MaxReleases = 1
PROPERTY ManifestIsIncluded
CHECK_DEADLOCK FALSE
