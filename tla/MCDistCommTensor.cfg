\* A program that sends a tensor to an agent it is not connected to.
CONSTANTS
    Blocks = {m1, m2}
    Agents = {1}
    MaxQueue = 2
    MaxConns = 1
    Anywhere = TRUE
SPECIFICATION Spec
INVARIANTS
    QueueOwns
