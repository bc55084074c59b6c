CONSTANTS
    Plugins = {p1}
    NoPlugin = noPlugin
    Versions = {1, 2}
    Requests = {r1, r2}
    Bundled = {}
    AutoEnable = FALSE
    Ticking = FALSE
    MaxAttempts = 2
    MaxCrashes = 0
    Faults = {}
SYMMETRY RequestSymmetry
SPECIFICATION Spec
INVARIANT NoHalfEnabled
