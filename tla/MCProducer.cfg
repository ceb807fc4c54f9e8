SPECIFICATION Spec
CONSTANTS
    Paths <- MCPaths
    Package = "pkg"
    Place <- MCPlace
    Dropped = {"vol"}
    Silenced = {"vol"}
    Start <- MCStart
    Turns <- MCTurns
    MaxReads = 2
    MaxMoves = 1
INVARIANTS
    BoundToTheRun
    MovementIsExact
CHECK_DEADLOCK FALSE
