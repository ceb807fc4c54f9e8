SPECIFICATION Spec
CONSTANTS
    p = p
    q = q
    s1 = s1
    s2 = s2
    s3 = s3
    t1 = t1
    None = None
    Packages = {p, q}
    Subjects = {s1, s2, s3, t1}
    PackageOf <- MCPackageOf
    Order <- MCOrder
    Requests <- MCRequests
    Keyings = {{q}, {p, q}}
    Width = 2
    Worlds <- MCWorlds
    MaxPasses = 2
    MaxFaults = 1
INVARIANTS
    RowsAreOwn
    FailingLoadOnce
    WorkIsKept
PROPERTIES
    PassEnds
CHECK_DEADLOCK FALSE
