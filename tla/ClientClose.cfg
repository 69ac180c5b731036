CONSTANTS
    MaxServed = 1
    SndQueue = 1
    CloseMayFail = TRUE
SPECIFICATION PoliteSpec
PROPERTY RetryGoesOn
