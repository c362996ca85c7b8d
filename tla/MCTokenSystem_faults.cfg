CONSTANTS
    Requests = {p1, p2, p3}
    Sessions = {s1, s2}
    None = None
    p1 = p1
    p2 = p2
    p3 = p3
    p4 = p4
    s1 = s1
    s2 = s2
    Creds <- CallerCreds
    Ops = {"exchange", "refresh", "revoke", "adminRevoke", "forceLogout", "revokeConsent", "suspendClient", "revokeClient", "disableUser"}
    FaultyStore = TRUE
    Registered = FALSE
SPECIFICATION Spec
SYMMETRY RequestSymmetry
PROPERTY
    NoCredentialFreeLogout
