CONSTANTS
    Users = {u1}
    Ids = {a, b, c}
    OwnerOf <- MCThreeIds
    Insts = {i1, i2, i3}
    NoInst = noInst
    Requests = {r1, r2}
    PerUser = 1
    SweeperKept = TRUE
    MaxRestarts = 0
    Events = {"exit", "kill", "output"}
    a = a
    b = b
    c = c
    u1 = u1
    u2 = u2
SYMMETRY IdSymmetry
SPECIFICATION Spec
INVARIANT TypeOK
INVARIANT RegistrySound
INVARIANT LostOnlyByReuse
INVARIANT CapOvershoot
