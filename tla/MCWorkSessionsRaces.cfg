CONSTANTS
    s1 = s1
    s2 = s2
    w1 = w1
    w2 = w2
    r1 = r1
    c1 = c1
    Sids = {s1, s2}
    Commits = {}
    Runs = {r1}
    Workers = {w1, w2}
    CommittedAt <- MCCommittedAt
    RunStartedAt <- MCRunStartedAt
    Edits <- MCEdits
    Windows <- MCWindows
    MaxTime = 3
    Now = 3
    MaxInFlight = 2
    Nobody = Nobody
    NoSid = NoSid
    Unknown = Unknown
    Unfiled = Unfiled
SPECIFICATION Spec
SYMMETRY MCSymmetry

INVARIANTS
    TypeOK
    AtMostOneOpen
    FiledRunsCovered
PROPERTIES
    LifecycleSpec
    TombstonesFrozen
    StopNeverMovesEnd
    ReplacementAbuts
    ReconcileComplete
