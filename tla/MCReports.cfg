SPECIFICATION Spec
CONSTANTS
    ax = ax
    bx = bx
    cy = cy
    cY = cY
    x = x
    kx = kx
    ky = ky
    kz = kz
    kw = kw
    s1 = s1
    s2 = s2
    s3 = s3
    None = None
    Projects = {1, 2, 3}
    Repos = {ax, bx, cy, cY}
    Dirs = {x}
    Keys = {kx, ky, kz, kw}
    Lower <- MCLower
    KeyOf <- MCKeyOf
    Second = 4
    LeadIn = 2
    Gap = 4
    Sids = {s1, s2, s3}
    Worlds <- MCWorlds
    Ranges <- MCRanges
    Scopes <- MCScopes
    Edits <- MCEdits
    Relinks <- MCRelinks
    Renames <- MCRenames
    MaxChanges = 1
    Whole = 12
INVARIANTS
    SharesExact
    TotalsAgree
    ClustersAreStretches
PROPERTY LinksSettle
CHECK_DEADLOCK FALSE
