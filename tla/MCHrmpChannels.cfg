SPECIFICATION Spec
CONSTANTS
    Paras = {1, 2, 3}
    Limit = 1
    Funds = 2
    MaxForced = 1
    Channels <- MCChannels
    OutboundLimit <- MCLimits
    InboundLimit <- MCLimits
    Configs <- MCConfigs
INVARIANT ListsMatchMaps
INVARIANT DepositsCovered
INVARIANT WithinLimits
INVARIANT NoneOutlivesItsParties
INVARIANT CloseRequestsAreCurrent
