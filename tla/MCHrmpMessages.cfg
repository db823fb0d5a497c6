\* Two paras that send to a third one.
SPECIFICATION Spec
CONSTANTS
    Paras = {1, 2, 3}
    Channels <- MCChannels
    MaxCapacity = 2
    MaxTotalSize = 2
    MaxMessageSize = 2
    MaxPerCandidate = 1
    MaxBlock = 5
    MaxSessions = 1
INVARIANT ContentsWithinLimits
INVARIANT DigestsMatchContents
INVARIANT NothingBehindWatermark
PROPERTY NoUnreadMessageLost
\* The bound on the block number stops the chain.
CHECK_DEADLOCK FALSE
