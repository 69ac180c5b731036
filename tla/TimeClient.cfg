CONSTANTS
    MaxServed = 2
    SndQueue = 1
    CloseMayFail = FALSE
SPECIFICATION PoliteSpec
INVARIANT OneClient
PROPERTIES SuccessKept RetryGoesOn ClientLeaves
CHECK_DEADLOCK FALSE
