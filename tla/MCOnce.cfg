CONSTANTS
    Asks = {a1, a2, a3}
    Values = {v1, v2}
    Failures = {f1}
    NoAsk = NoAsk
    NoAnswer = NoAnswer
SPECIFICATION TakesEnd
INVARIANTS
    OneSpawn
    CancellationIsOwn
PROPERTY AsksReturn
\* The holder stops when every ask has returned.
CHECK_DEADLOCK FALSE
