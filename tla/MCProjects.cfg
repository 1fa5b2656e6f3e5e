SPECIFICATION Spec
CONSTANTS
    p1 = p1
    p2 = p2
    p3 = p3
    n1 = n1
    n2 = n2
    f1 = f1
    k1 = k1
    r1 = r1
    r2 = r2
    r3 = r3
    None = None
    ProjectIds = {p1, p2, p3}
    Default = p1
    Names = {n1, n2}
    DefaultName = n1
    Repos = {f1}
    Keys = {k1}
    Reqs = {r1, r2, r3}
    Scenarios <- MCScenarios
    MaxFaults = 1
    MaxPurges = 1
SYMMETRY Symmetry
INVARIANTS
    TypeOK
    MirrorTrue
    NoSessionStranded
    RunsOnce
CHECK_DEADLOCK FALSE
