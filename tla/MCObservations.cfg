SPECIFICATION Spec
CONSTANTS
    f = f
    l = l
    d = d
    e = e
    s1 = s1
    p1 = p1
    p2 = p2
    Processes = {p1, p2}
    Names = {e}
    Files = {f}
    Dirs = {}
    Links = {l}
    Stamps <- MCStamps
    Initial <- MCInitial
    Turns <- MCTurns
    Subjects = {s1}
    Readings <- MCReadings
    MaxRuns = 2
    MaxPool = 3
    MaxMerge = 2
    MaxMoves = 1
SYMMETRY MCSymmetry
INVARIANTS
    NothingIsLost
    ChangeIsSeen
    MergeAlgebra
CHECK_DEADLOCK FALSE
