\* Two Runs: a cancelled one, then one that blocks on the delay it left.
SPECIFICATION FairSpec
CONSTANTS
    Attempts = 2
    Delay = 1
    DelayFactor = 1
    Jitter = 1
    MaxInt64 = 100
    MaxRuns = 2
    Errors <- MCErrors
    RetryOn <- DefaultRetryIf
PROPERTIES EveryRunReturns
CHECK_DEADLOCK FALSE
