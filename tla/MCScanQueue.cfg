CONSTANTS
    s1 = s1
    s2 = s2
    u1 = u1
    u2 = u2
    k1 = k1
    k2 = k2
    Sids = {s1}
    Users = {u1}
    Owner <- MCOwner
    Tokens = {k1, k2}
    Unreadable = {}
    Steps = 1
    ScanBatch = 1
    ConnectionBatch = 1
    MaxRequests = 2
    NoToken = NoToken
    Nobody = Nobody
SPECIFICATION FairSpec

INVARIANT TypeOK
PROPERTIES
    FoundInTheEnd
    Settled
