\* A graph with more threads than the one before.
CONSTANTS
    N = 2
    NNodes = 1
    ThreadChoices = {1, 2}
    Growing = TRUE
    CanAbort = FALSE
    MaxGraphs = 2
    MaxPauses = 0
SPECIFICATION Spec
INVARIANTS
    NoWorkerAccess
