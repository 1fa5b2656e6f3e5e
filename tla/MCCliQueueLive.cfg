CONSTANTS
    t1 = t1
    p1 = p1
    p2 = p2
    Turns = {t1}
    Syncers = {p1, p2}
    Files = {1, 2, 3, 4}
    BatchSize = 1
    MaxKills = 1
    GivenFirst <- MCLowestFile
    NoFile = NoFile
SPECIFICATION FairSpec

PROPERTIES
    Delivered
