CONSTANTS
    Plugins = {p1, p2}
    NoPlugin = noPlugin
    Versions = {1}
    Requests = {r1, r2}
    Bundled <- MCBundled
    AutoEnable = TRUE
    Ticking = FALSE
    MaxAttempts = 2
    MaxCrashes = 0
    Faults = {"start", "rm", "install"}
SYMMETRY RequestSymmetry
SPECIFICATION Spec
INVARIANT NoHalfEnabled
