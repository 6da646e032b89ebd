\* Three Runs of at most three attempts, with every cancellation and timeout.
\* The model stops after MaxRuns Runs, or blocked in a Run that found a stale delay.
SPECIFICATION FairSpec
CONSTANTS
    Attempts = 3
    Delay = 2
    DelayFactor = 2
    Jitter = 2
    MaxInt64 = 100
    MaxRuns = 3
    Errors <- MCErrors
    RetryOn <- RetryTransient
INVARIANTS NoBlockedSend LeftoverOnlyAfterCancel
PROPERTIES AttemptAfterItsDelay ContractSpec RunReturns
CHECK_DEADLOCK FALSE
