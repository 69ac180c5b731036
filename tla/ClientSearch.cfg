CONSTANTS
    MaxServed = 2
    SndQueue = 1
    CloseMayFail = FALSE
SPECIFICATION Spec
INVARIANT SearchEnds
