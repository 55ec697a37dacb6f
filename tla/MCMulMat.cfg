CONSTANTS
    NThreads = 3
    NNodes = 2
    Shapes <- MCShapes
    NBlocks = 4
    ChunkSize = 2
    ThinChunk = 2
    PerThread = 2
SPECIFICATION Spec
INVARIANTS
    TypeOK
    NoOverlap
    WdataIsMine
    ResultComplete
