CONSTANTS
    Plugins = {p1}
    NoPlugin = noPlugin
    Versions = {1, 2}
    Requests = {r1, r2}
    Bundled <- MCBundled
    AutoEnable = TRUE
    Ticking = FALSE
    MaxAttempts = 2
    MaxCrashes = 2
    Faults = {"start", "rm", "install", "migrate"}
SYMMETRY RequestSymmetry
SPECIFICATION Spec
INVARIANT DispatcherMatchesRegistry
PROPERTY RegistrySpec
