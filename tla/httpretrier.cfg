\* Two Dos of at most three attempts of a write, every kind of body.
\* The model stops after MaxDos Dos, or blocked in a Do that found a stale delay.
SPECIFICATION FairSpec
CONSTANTS
    Attempts = 3
    Delay = 2
    DelayFactor = 2
    Jitter = 2
    MaxInt64 = 100
    MaxDos = 2
    Statuses <- MCStatuses
    Bodies <- AllBodies
    RetryOn <- RetryIfForWriteRequests
INVARIANTS NoBlockedSend BodiesAccountedFor ReplayedInFull
PROPERTIES AttemptAfterItsDelay ContractSpec DoReturns
CHECK_DEADLOCK FALSE
