\* Two Starts, with Stop and the cancellation of the caller's context at any
\* time, between them or not.
SPECIFICATION FairSpec
CONSTANTS
    Interval = 5
    Jitter = 2
    MaxStarts = 2
INVARIANTS NoBlockedSend
PROPERTIES CallsAreSpaced KeepsCalling StopEndsLoop
CHECK_DEADLOCK FALSE
