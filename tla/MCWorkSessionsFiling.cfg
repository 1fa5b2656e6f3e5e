CONSTANTS
    s1 = s1
    s2 = s2
    w1 = w1
    w2 = w2
    r1 = r1
    c1 = c1
    Sids = {s1, s2}
    Commits = {c1}
    Runs = {}
    Workers = {w1, w2}
    CommittedAt <- MCCommittedAt
    RunStartedAt <- MCRunStartedAt
    Edits <- MCFewEdits
    Windows <- MCOneWindow
    MaxTime = 4
    Now = 2
    MaxInFlight = 2
    Nobody = Nobody
    NoSid = NoSid
    Unknown = Unknown
    Unfiled = Unfiled
SPECIFICATION Spec
SYMMETRY MCSymmetry

PROPERTIES
    CommitsFollowTheClock
