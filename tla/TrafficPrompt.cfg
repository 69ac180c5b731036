CONSTANTS
    a = a
    b = b
    c = c
    NoLamps = NoLamps
    AllRed = AllRed
    Rows <- MCRows
    MaxPeriods = 2
    MaxPhases = 2
    CutMax = 18
    NewPhaseTime = 7
    Tables <- MCLegalTables
    InitSchedule <- MCLegalPeriods
    Uses = {"adjust", "edit", "CutDown"}
    RtcMayFail = FALSE
    Prompt = TRUE
SPECIFICATION FairSpec
PROPERTIES GreenThenYellow EditEnds CycleGoesOn
