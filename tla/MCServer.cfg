\* Two slots, two clients; when all requests are done the server sleeps.
CONSTANTS
    NoTask = NoTask
    Alice = Alice
    Bob = Bob
    Carol = Carol
    Base = Base
    Tuned = Tuned
    Clients = {Alice, Bob}
    NSlots = 2
    Adapters = {Base, Tuned}
    Loads <- MCLoads
    PromptLens = {2}
    NBatch = 3
    ContBatching = TRUE
    MaxTokens = 2
    MaxFailures = 1
    MaxRefusals = 1
SPECIFICATION Spec
INVARIANTS
    TypeOK
    OneCustodian
    StreamContinuous
    ResultsAwaited
    BatchAgrees
    SleepsIdle
PROPERTIES
    Settled
CHECK_DEADLOCK FALSE
