\* Two callers and a server that ends idle sessions, with every failure.
SPECIFICATION FairSpec
CONSTANTS
    Clients = {c1, c2}
    MaxSessions = 2
    MaxCount = 2
    KeepAliveInterval = 1
    WaitTimeout = 2
    MaxKinds = 1
INVARIANTS HolderOwnsLock LockNotPooled
PROPERTIES ReleaseEnds
