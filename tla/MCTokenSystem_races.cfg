CONSTANTS
    Requests = {p1, p2, p3, p4}
    Sessions = {s1}
    None = None
    p1 = p1
    p2 = p2
    p3 = p3
    p4 = p4
    s1 = s1
    s2 = s2
    Creds <- OwnerCreds
    Ops = {"exchange", "refresh", "revoke", "revokeConsent", "clock"}
    FaultyStore = FALSE
    Registered = TRUE
SPECIFICATION Spec
SYMMETRY RequestSymmetry
INVARIANTS
    OneFamilyPerCode
    OneLiveTokenPerFamily
    ReuseReportsAreSound
    RevokedFamilyIsDenied
