CONSTANTS
    Conns = {c1, c2}
    Clients = {t1, t2}
    NoConn = noConn
    MaxOutput = 2
    Restored = 0
    DumpMax = 8
    FanCap = 3
    Events = {"disconnect"}
SYMMETRY TabSymmetry
SPECIFICATION Spec
CHECK_DEADLOCK FALSE
INVARIANT NoDoublePrint
INVARIANT NoStuckPause
INVARIANT OneWriter
