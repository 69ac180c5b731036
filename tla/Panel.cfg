SPECIFICATION FairSpec
CONSTANTS
    KEY1 = KEY1
    KEY2 = KEY2
    KEY5 = KEY5
    KeySet = {KEY1, KEY5}
    Pairs = {}
    SlowKeys = {KEY5}
    HoldScans = 2
    Nothing = Nothing
    Tasks <- MCTasks
    MaxDelay = 4
    QueueSize = 2
    Messages <- Codes
    NoMessage = Nothing
    KeyTimeout = 2
    ScreenTimeout <- MCScreen
    Retry <- MCRetry
INVARIANTS KernelConsistent SemConserved
PROPERTIES ShortOncePerPress ImplementsChannel RefreshGoesOn KeyTaken
