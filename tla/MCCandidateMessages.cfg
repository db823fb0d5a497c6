SPECIFICATION FairSpec
CONSTANTS
    ParaIds = {1, 2, 3}
    DownwardMessages = {d1}
    UpwardMessages <- MCUpwardMessages
    Bundles <- MCBundles
    MaxPerCandidate = 2
    MaxMessageSize = 2
    MaxQueueCount = 3
    MaxQueueSize = 4
    ServiceWeight = 3
    FirstFactorPercent = 100
    MaxIndividualWeight = 2
    Recipients = {2}
    MaxDownward = 2
    MaxOverweight = 1
    MaxOffboarded = 2
INVARIANT CachesMatchQueues
INVARIANT QueuesWithinLimits
INVARIANT RoundRobin
INVARIANT PruneWithinQueue
INVARIANT ChainContinuesAtPara
PROPERTY UpwardDispatched
PROPERTY DownwardProcessed
