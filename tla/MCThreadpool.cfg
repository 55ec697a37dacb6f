\* Three threads; plans may ask for more threads than there are.
CONSTANTS
    N = 3
    NNodes = 2
    ThreadChoices = {1, 2, 4}
    Growing = FALSE
    CanAbort = TRUE
    MaxGraphs = 2
    MaxPauses = 1
SPECIFICATION Spec
INVARIANTS
    TypeOK
    NoWorkerAccess
    BarrierClear
    SameNth
    StatusTold
PROPERTIES
    Implements
    CallsReturn
