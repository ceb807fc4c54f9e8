SPECIFICATION Spec
CONSTANTS
    p1 = p1
    k1 = k1
    k2 = k2
    k3 = k3
    f1 = f1
    f2 = f2
    c1 = c1
    c2 = c2
    c3 = c3
    i1 = i1
    i2 = i2
    Processes = {p1}
    Calls = {c1, c2, c3}
    Home <- OneHome
    Keys = {k1, k2, k3}
    Items = {i1, i2}
    Files = {f1, f2}
    Path <- MixedPath
    Unremovable = {f2}
    Limit = 2
    MaxHarm = 1
    NoOne = NoOne
    NoEntry = NoEntry
    Unknown = Unknown
    Unseen = Unseen
SYMMETRY Symmetry
INVARIANTS
    StoreIsBounded
    ServesWhatWasStored
CHECK_DEADLOCK FALSE
