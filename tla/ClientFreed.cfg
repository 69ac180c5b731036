CONSTANTS
    MaxServed = 1
    SndQueue = 1
    CloseMayFail = FALSE
SPECIFICATION Spec
INVARIANT FreedOnce
