SPECIFICATION Spec
CONSTANTS
    m1 = m1
    m2 = m2
    m3 = m3
    s1 = s1
    s2 = s2
    Txs = {m1, m2}
    Own = {m1, m2}
    Streams = {s1, s2}
    Wants <- MCWants
    Grace = 1
    Lim = 1
    MaxConn = 1
    LongestTx = 2
    Retention = 4
    LastStart = 2
    MaxNow = 5
    MaxDrops = 2
INVARIANTS TypeOK InOrder SkipsExplained
PROPERTY EventuallyRead
CHECK_DEADLOCK FALSE
