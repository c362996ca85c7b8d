SPECIFICATION PartSpec
CONSTANTS
    x1 = x1
    x2 = x2
    y1 = y1
    y2 = y2
    z1 = z1
    z2 = z2
    z3 = z3
    client = client
    res = res
    AzNone = AzNone
    AzRequests = {z1, z2, z3}
    AzUsers = {x1, x2}
    AzClients = {client}
    AzResources = {res}
    AzScopes = {y1, y2}
    Ceiling <- MCCeiling
    RequireScope = FALSE
    Catalogs = {{y1, y2}, {}}
    MaxRevocations = 1
    None = None
    Requests = {x1, x2}
    Keys = {z1, z2, z3}
    AuthFailMax = 3
    AuthFailWindow = 3
    AuthLockoutTime = 2
    MaxEntries = 2
    SampleSize = 1
SYMMETRY PartSymmetry
INVARIANTS
    CodesSound
    FailureBudget
    TrackedIsBounded
PROPERTIES
    DenialIsFinal
    LockoutHolds
CHECK_DEADLOCK FALSE
