SPECIFICATION GrantSpec
CONSTANTS
    p1 = p1
    p2 = p2
    p3 = p3
    c1 = c1
    c2 = c2
    r1 = r1
    r2 = r2
    root = root
    ta = ta
    tb = tb
    tc = tc
    TxNone = TxNone
    TxRequests = {p1, p2, p3}
    TxRoots = {root}
    TxClients = {c1, c2}
    TxResources = {r1, r2}
    TxScopes = {1, 2}
    Catalog <- MCCatalog
    Allowed <- MCAllowed
    Runtime <- MCRuntime
    Daemons = {c2}
    AllowSelf = TRUE
    MaxChainDepth = 2
    Links <- MCLinks
    RootTokens <- MCRootTokens
    Grants <- MCConsents
    TxOps <- MCTxOps
    Asked = {{}, {1}}
    Actors = {TRUE}
    MaxMoves = 1
    TkIds = {ta}
    TkChain = {ta, tb, tc}
    TkMaxTime = 12
    TkChainTime = 4
    TkLife = 3
    TkFallback = 4
    TkSkew = 1
    TkBuffer = 2
    TkNull = TkNull
    DirProcs = {q1, q2}
    DirIds = {i, j}
    DirKeys = {k, l}
    DirMaxVersion = 3
    DirEmpty = DirEmpty
    DirNull = DirNull
SYMMETRY GrantSymmetry
INVARIANTS
    ExchangeSound
    StoredRowsSound
PROPERTIES
    DirectoryEditsSound
CHECK_DEADLOCK FALSE
