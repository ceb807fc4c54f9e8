CONSTANTS
    Subjects = {s1, s2}
    Threads = {t1, t2}
    v0 = v0
    v1 = v1
    Initial = v0
    Versions <- MCVersions
    Marks <- MCMarks
    Reached <- MCReached
    Scopes <- MCScopes
    MaxMoves = 1
    MaxOps = 2
SPECIFICATION Spec
INVARIANTS FactsHeldAtOneInstant ProofIsOfTheFacts ValidationHeld MotionIsReal
CHECK_DEADLOCK FALSE
SYMMETRY MCSymmetry
