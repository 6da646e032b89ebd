\* One Do whose request has a body and no GetBody.
SPECIFICATION Spec
CONSTANTS
    Attempts = 2
    Delay = 2
    DelayFactor = 2
    Jitter = 2
    MaxInt64 = 100
    MaxDos = 1
    Statuses <- MCStatuses
    Bodies <- AllBodies
    RetryOn <- DefaultRetryIf
INVARIANTS OriginalBodySent
CHECK_DEADLOCK FALSE
