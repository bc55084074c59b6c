CONSTANTS
    Plugins = {p1}
    NoPlugin = noPlugin
    Versions = {1}
    Requests = {r1, r2}
    Bundled <- MCBundled
    AutoEnable = FALSE
    Ticking = TRUE
    MaxAttempts = 2
    MaxCrashes = 1
    Faults = {"start", "slow", "stop", "health", "ctx"}
SPECIFICATION FairSpec
PROPERTY OperationsEnd
PROPERTY EnabledIsHealed
