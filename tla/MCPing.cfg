SPECIFICATION MCFairSpec
CONSTANTS
    None = None
    Paras = {2000, 3000, 4000}
    UnpaidParas = {2000, 3000}
    CountMod = 2
    MaxBlocks = 3
    MaxTargets = 1
    Hub = 2000
INVARIANT PongFindsItsPing
PROPERTY PingsAnswered
