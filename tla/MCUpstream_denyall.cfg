SPECIFICATION UpstreamSpec
CONSTANTS
    x1 = x1
    x2 = x2
    y1 = y1
    y2 = y2
    p1 = p1
    p2 = p2
    p3 = p3
    p4 = p4
    r1 = r1
    r2 = r2
    r3 = r3
    cid = cid
    res = res
    j1 = j1
    j2 = j2
    q = q
    key = key
    anchor = anchor
    z1 = z1
    z2 = z2
    w1 = w1
    w2 = w2
    d1 = d1
    back = back
    Browsers = {y1, y2}
    SiUsers = {x1, x2}
    SiRequests = {p1, p2, p3, p4}
    SiNone = SiNone
    SiKeep = SiKeep
    Invented = Invented
    SiWorkloads <- MCSiWorkloads
    StateMaxAge = 1
    SessionMaxAge = 2
    UserCacheTTL = 1
    FailClosed = FALSE
    UpstreamPkce = FALSE
    SiLast = 3
    OkCalls = {x1, x2}
    OkKeys = {key, anchor}
    Ttl <- MCTtl
    StaleFor <- MCStale
    HttpTimeout = 1
    OkLast = 5
    MaxOutages = 1
    OkNone = OkNone
    DpNone = DpNone
    FdNone = FdNone
    DpRequests = {r1, r2, r3}
    Proofs = {q}
    ProofIat <- MCIat
    ProofNonce <- MCProofNonce
    ProofLifetime = 1
    NonceTTL = 1
    RequireNonce = FALSE
    Jtis = {j1, j2}
    MaxClock = 4
    Assertions <- MCAssertions
    Ceiling <- MCCeiling
    Resources = {res}
    AskedResources = {FdNone}
    PolicyEdits <- MCEdits
    Keys = 2
    TTL = 1
    MaxStale = 1
    Skew = 1
    JTIBuffer = 2
    MaxAge = 3
    MaxLag = 1
    RequireResource = FALSE
    Workloads <- MCAdministered
    CnNone = CnNone
    CnRequests = {y1, y2, z1, z2, d1, w1, w2}
    CnUsers = {x1, x2}
    BrokerResources = {res}
    Returns = {back}
    AllowedReturns <- MCAllowedReturns
    GlobalReturns = {}
    SelfReturn = self
    Fine = {1, 2, 3}
    BrokerCatalog = {1, 2, 3}
    WireName <- MCWire
    SubjectScopes = {{1}}
    BrokerAsked = {{}}
    BrokerLinks <- MCBrokerLinks
    UpstreamGrants = {{1, 2}}
    Policies = {"keep", "strict", "grace"}
    CnOps <- MCCnOps
    Glitches = {"lost", "store", "downgrade", "revoke"}
    RlSlots = {x1, x2}
    Burst = 2
    Rate = 1
    RlLast = 3
    MaxMade = 3
SYMMETRY UpstreamSymmetry
PROPERTIES
    EmptyListDeniesAll
CHECK_DEADLOCK FALSE
