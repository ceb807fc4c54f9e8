SPECIFICATION Spec
CONSTANTS
    r1 = r1
    r2 = r2
    c1 = c1
    pure = pure
    open = open
    Registrars = {r1, r2}
    Closers = {c1}
    Subjects = {pure, open}
    Pure = {pure}
    Source = {}
    MaxTree = 1
    MaxInput = 1
    NoOne = NoOne
    NoFiles = NoFiles
INVARIANTS
    EvidenceOnlyIfClosed
    EvidenceWasCoherent
    ObservedValidIsSupported
    ViewIsExclusive
PROPERTIES
    ImplementsContract
CHECK_DEADLOCK FALSE
