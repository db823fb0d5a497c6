SPECIFICATION Spec
CONSTANTS
    ParaIds = {1, 2, 3}
    DownwardMessages = {d1}
    UpwardMessages <- MCUpwardMessages
    Bundles <- MCBundles
    MaxPerCandidate = 2
    MaxMessageSize = 2
    MaxQueueCount = 2
    MaxQueueSize = 3
    ServiceWeight = 3
    FirstFactorPercent = 100
    MaxIndividualWeight = 2
    Recipients = {2}
    MaxDownward = 2
    MaxOverweight = 1
    MaxOffboarded = 1
INVARIANT StartNeedsDispatch
