SPECIFICATION MCSpec
CONSTANTS
    ParaIds = {1}
    Codes = {old, new}
    GenesisCode = old
    Validators = {v1}
    PvfCheckingEnabled = TRUE
    VotingTtl = 2
    UpgradeDelay = 1
    MinimumUpgradeDelay = 1
    UpgradeCooldown = 2
    CodeRetention = 1
    MaxBlock = 9
    MaxSession = 3
    None = None
    Producers = {1}
INVARIANT RefsMatchUsers
CHECK_DEADLOCK FALSE
