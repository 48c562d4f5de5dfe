SPECIFICATION Spec

CONSTANTS
    Users = {u1, u2}
    Tenants = {t1, t2}
    Requests = {r1, r2}
    APITokens = {k1}
    Connections = {c1}
    k1 = k1
    c1 = c1
    Writers = {u1, u2}
    u1 = u1
    u2 = u2
    t1 = t1
    t2 = t2
    r1 = r1
    r2 = r2
    MaxInvites = 1

SYMMETRY Interchangeable

PROPERTIES
    InvitesNeverDemote
    InvitationsAdmitOnce
    RemovalEndsCredentials

CHECK_DEADLOCK FALSE
