CONSTANTS
    Levels <- MCLevels
    MaxModules = 2
    Names = {m1, m2}
    Window = 5
    MaxBehaviors = 2
    MinPattern = 3
    SplitSamples = 5
    TrendSamples = 4
    RecentSamples = 3
    Streak = 2
    Cooldown <- MCCooldown
    MaxObservations = 7
    MaxSwitches = 2
SYMMETRY NameSymmetry
SPECIFICATION Spec
INVARIANTS
    SpontaneousIsUnprompted
CHECK_DEADLOCK FALSE
