CONSTANTS
    NThreads = 4
    MaxRounds = 3
    Wrap = 2
SPECIFICATION Spec
INVARIANTS
    IndInv
    NobodyLeavesEarly
    NoLapping
PROPERTIES
    Implements
    BarrierReturns
