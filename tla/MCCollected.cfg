SPECIFICATION CommandSpec
INVARIANTS
    NoStrangerIsStruck
    NobodyIsLeft
    AnswersAreEarned
PROPERTY RunReturns
\* The system stops when the run has returned and its processes are gone.
CHECK_DEADLOCK FALSE
