\* One slot and three clients, one of which saves the slot.
CONSTANTS
    NoTask = NoTask
    Alice = Alice
    Bob = Bob
    Carol = Carol
    Base = Base
    Tuned = Tuned
    Clients = {Alice, Bob, Carol}
    NSlots = 1
    Adapters = {Base, Tuned}
    Loads <- MCDeferredLoads
    PromptLens = {1}
    NBatch = 2
    ContBatching = TRUE
    MaxTokens = 1
    MaxFailures = 0
    MaxRefusals = 0
SPECIFICATION Spec
PROPERTIES
    DeferredIsProcessedLater
CHECK_DEADLOCK FALSE
