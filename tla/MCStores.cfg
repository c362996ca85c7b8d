SPECIFICATION StoresSpec
CONSTANTS
    p1 = p1
    p2 = p2
    p3 = p3
    i1 = i1
    i2 = i2
    SqRequests = {p1, p2}
    SqVersions = {1, 13, 14, 15}
    SqRebuilds = {14}
    SqNobody = SqNobody
    None = None
    Requests = {p1, p2, p3}
    Instances = {i1, i2}
    Ops = {"disable", "signIn", "delete", "session"}
INVARIANTS
    SqSchemaSound
PROPERTIES
    SqTransactionsEnd
    UserRowIsARegister
    DeletedUserIsForgotten
CHECK_DEADLOCK FALSE
