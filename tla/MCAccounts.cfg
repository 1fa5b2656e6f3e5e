SPECIFICATION Spec
CONSTANTS
    u1 = u1
    u2 = u2
    u3 = u3
    e1 = e1
    e2 = e2
    i1 = i1
    i2 = i2
    r1 = r1
    r2 = r2
    None = None
    Users = {u1, u2, u3}
    Owner = u1
    Emails = {e1, e2}
    OwnersEmail = e1
    Identities = {i1, i2}
    EmailOf <- MCEmailOf
    Reqs = {r1, r2}
    MaxPATsPerUser = 2
    RecoveryCodeCount = 1
    Scenarios <- MCScenarios
    MaxFaults = 1
    MaxLapses = 1
SYMMETRY Symmetry
INVARIANTS
    TypeOK
    SpentOnce
    SessionsFollowPassword
    VerifiedByOwner
    EnrolmentConfirmed
    TokensBounded
    SameAccount
CHECK_DEADLOCK FALSE
