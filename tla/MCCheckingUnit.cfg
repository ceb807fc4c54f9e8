SPECIFICATION Spec
CONSTANTS
    r1 = r1
    r2 = r2
    c1 = c1
    Rounds = {r1, r2}
    Closers = {c1}
    Candidates <- MCCandidates
    MaxInput = 1
    MaxMoves = 2
    NoOne = NoOne
    NoInputs = NoInputs
INVARIANTS
    OneWorker
    DemonstratedMotionIsStale
    FinalValidStood
PROPERTIES
    WorkReturns
CHECK_DEADLOCK FALSE
