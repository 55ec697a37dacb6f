\* Tensors are sent to connected agents, or refused.
\* The program may end, its engine freed and its messages sent.
CONSTANTS
    Blocks = {m1, m2, m3}
    Agents = {1, 2}
    MaxQueue = 2
    MaxConns = 2
    Anywhere = FALSE
SPECIFICATION Spec
INVARIANTS
    TypeOK
    QueueOwns
    HeldAlive
    NothingLost
CHECK_DEADLOCK FALSE
