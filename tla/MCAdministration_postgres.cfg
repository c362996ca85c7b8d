SPECIFICATION AdministrationSpec
CONSTANTS
    p1 = p1
    p2 = p2
    p3 = p3
    p4 = p4
    u1 = u1
    u2 = u2
    u3 = u3
    u4 = u4
    c1 = c1
    c2 = c2
    c3 = c3
    q1 = q1
    a1 = a1
    a2 = a2
    r1 = r1
    r2 = r2
    r3 = r3
    ia = ia
    ib = ib
    ix = ix
    a = a
    b = b
    c = c
    x = x
    v = v
    kc = kc
    ru = ru
    s1 = s1
    s2 = s2
    pv = pv
    k1 = k1
    k2 = k2
    None = None
    Requests = {p1, p2, p3, p4}
    Ops = {"suspend", "reactivate", "revoke", "rotateSecret", "update", "delete", "forceDelete", "issue"}
    Serial = FALSE
    FtCalls = {c1, c2, c3}
    FtURLs = {u1, u2, u3, u4}
    FtLiterals = {u3}
    FtPlain = {u2}
    FtBare = {u4}
    FtPrivate = {u2, u3}
    FtBodies <- MCBodies
    MaxConcurrentFetches = 1
    MaxCacheEntries = 1
    NegativeCacheTTL = 1
    MinCacheTTL = 2
    CacheTTL = 1
    FtLast = 2
    CrDcr = {q1}
    CrAdmins = {a1, a2}
    CrShapes <- MCShapes
    Approved = {"ok"}
    BadURIs = {"bad"}
    EnabledGrants = {"authorization_code", "refresh_token", "client_credentials"}
    ConfigMode = "open"
    MaxRestarts = 1
    RgRequests = {r1, r2, r3}
    SeedIds = {ia, ib, ix}
    SeedProviders = {pv}
    Slugs = {a, b, c, x}
    ResScopes = {s1, s2}
    RgClients = {kc}
    KnownClients = {kc}
    ReturnURLs = {ru}
    ValidURLs = {ru}
    RgSecrets = {k1, k2}
    SeedTable <- MCSeedTable
    SeedLinks <- MCSeedLinks
    SeedProviderTable <- MCSeedProviderTable
    RgOps <- MCRgOps
    RgNone = RgNone
    LinkInputs <- MCLinkInputs
    HasEncryptor = TRUE
    ProviderInputs <- MCProviderInputs
    ProviderPatches <- MCProviderPatches
    AskedSlugs = {a, b, c, x, v}
    Canonical <- MCCanonical
    NewResources <- MCNewResources
    ResPatches <- MCResPatches
PROPERTIES
    UnforcedDeleteSparesTokens
CHECK_DEADLOCK FALSE
