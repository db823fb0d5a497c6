SPECIFICATION FairSpec
CONSTANTS
    Runs = {r1, r2}
    FetchTimeout = 3
    LockTimeout = 4
    LockBlocks = 3
    MaxAge = 1
    MaxCrashes = 1
    NoLock = NoLock
INVARIANT OneFetch
INVARIANT LockOutlivesRequest
PROPERTY EventuallyCached
