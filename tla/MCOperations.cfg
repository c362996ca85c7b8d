SPECIFICATION OperationSpec
CONSTANTS
    i1 = i1
    i2 = i2
    t1 = t1
    t2 = t2
    n1 = n1
    n2 = n2
    n3 = n3
    s1 = s1
    s2 = s2
    m1 = m1
    a1 = a1
    r1 = r1
    None = None
    Instances = {i1, i2}
    Signers = {g1}
    Rotators = {t1, t2}
    AdminAt = {i1, None}
    MaxKeys = 3
    MaxDisconnects = 1
    PollAfter = 0
    MaxRetries = 2
    KfNone = KfNone
    KfSigners = {f1}
    KfRotators = {f2}
    KfClis = {f3}
    KfSighup = TRUE
    KfQuiet = TRUE
    KfMaxKeys = 4
    KfMaxCrashes = 1
    VkNone = VkNone
    VkInstances = {i1, i2}
    VkCalls = {n1, n2, n3}
    VkWorkloads <- MCVkWorkloads
    VkMaxVersions = 4
    VkMaxFaults = 1
    VlLeases = {2, 4, 6, 8, 12}
    VlFloor = 2
    VlHttpTimeout = 1
    VlLast = 30
    FeNone = FeNone
    FeInstances = {i1, i2}
    FeOwners = {o1, o2}
    FeMaxKeys = 4
    BtServers = {s1, s2}
    BtMigrators = {m1}
    BtAdmins = {a1}
    BtRotators = {r1}
    BtEmbedded <- MCEmbedded
    BtScenarios <- MCScenarios
    BtNone = BtNone
INVARIANTS
    ListenersKeepUp
    KeyFilesSound
    VaultKeysSound
    VlTokenLives
    FieldsSound
PROPERTIES
    BootSound
CHECK_DEADLOCK FALSE
