CONSTANTS
    Crons = {k1}
    MaxRuns = 2
    ApiWorkers = {a1}
    CronWorkers = {w1}
    QueueCap = 1
    Requests = {r1}
    Streams = {s1}
    MaxChunks = 1
    Everys = {"min"}
    Scale <- MCScale
    MaxTime = 2
    MaxGap = 1
    MaxCrashes = 1
    Faults = {"db", "veto", "signal"}
SPECIFICATION FairSpec
INVARIANT TypeOK
INVARIANT HeldOnce
INVARIANT NothingForgotten
INVARIANT StreamFaithful
INVARIANT DueIffCrossed
PROPERTY FinishedIsFinal
PROPERTY EveryRunEnds
