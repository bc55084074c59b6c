CONSTANTS
    Plugins = {p1}
    NoPlugin = noPlugin
    Versions = {1, 2}
    Requests = {r1, r2}
    Bundled = {}
    AutoEnable = FALSE
    Ticking = TRUE
    MaxAttempts = 2
    MaxCrashes = 0
    Faults = {"start", "stop", "rm", "install", "db", "migrate"}
SYMMETRY RequestSymmetry
SPECIFICATION Spec
INVARIANT TypeOK
INVARIANT LockDiscipline
INVARIANT OneEnabled
INVARIANT EnabledHasArtifact
