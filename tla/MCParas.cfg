SPECIFICATION MCSpec
CONSTANTS
    ParaIds = {1, 2}
    Codes = {old, new}
    GenesisCode = old
    Validators = {v1}
    PvfCheckingEnabled = TRUE
    VotingTtl = 2
    UpgradeDelay = 1
    MinimumUpgradeDelay = 1
    UpgradeCooldown = 2
    CodeRetention = 1
    MaxBlock = 8
    MaxSession = 2
    None = None
    Producers = {1}
INVARIANT TransitionsTakeEffect
INVARIANT RefsMatchUnlessOrphaned
INVARIANT PastCodePruned
PROPERTY PromisesKeptUnlessOrphaned
PROPERTY PastCodeNotForgotten
CHECK_DEADLOCK FALSE
