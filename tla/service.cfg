SPECIFICATION Spec
CONSTANTS
    Rules = {r1, r2, r3}
    Extra = {r3}
    MaxDriverRules = 2
    MaxOps = 2
    MaxStops = 2
    Troubles = {{"crash", "gap"}, {"crash", "driver"}, {"database"}, {"source"}, {"many"}}
INVARIANTS
    TypeOK
    AppliesWhilePaused
    PauseIsRecoverable
    CacheFollowsRules
PROPERTIES
    DoneIsRestored
    PausedIsResumed
