CONSTANTS
    Users = {u1}
    Ids = {a}
    OwnerOf <- MCA
    Insts = {i1, i2}
    NoInst = noInst
    Requests = {r1}
    PerUser = 1
    SweeperKept = TRUE
    MaxRestarts = 1
    Events = {"exit", "early", "kill", "age"}
    a = a
    b = b
    c = c
    u1 = u1
    u2 = u2
SPECIFICATION FairSpec
PROPERTY IdleIsSwept
