CONSTANTS
    Conns = {c1}
    Clients = {t1}
    NoConn = noConn
    MaxOutput = 3
    Restored = 0
    DumpMax = 8
    FanCap = 3
    Events = {"disconnect", "replay", "exit"}
SPECIFICATION FairSpec
CHECK_DEADLOCK FALSE
INVARIANT TypeOK
INVARIANT NothingUnsent
PROPERTY AttachedHearExit
