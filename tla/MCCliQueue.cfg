CONSTANTS
    t1 = t1
    t2 = t2
    p1 = p1
    p2 = p2
    f1 = f1
    f2 = f2
    f3 = f3
    f4 = f4
    Turns = {t1, t2}
    Syncers = {p1, p2}
    Files = {f1, f2, f3, f4}
    BatchSize = 1
    MaxKills = 1
    GivenFirst <- MCAnyFile
    NoFile = NoFile
SPECIFICATION Spec
SYMMETRY MCSymmetry

INVARIANTS
    TypeOK
    LossesExplained
