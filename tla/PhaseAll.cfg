CONSTANTS
    Uses = {"set", "add", "del"}
    MaxPeriods = 2
    MaxPhases = 3
    Crossways = 1
    Movements <- MCMoves
    CutMin = 1
    CutMax = 2
    ByteSize = 8
    InitNumber = 2
    InitTables <- MCShort
SPECIFICATION Spec
CONSTRAINT MCScope
INVARIANTS TypeOK SelectionInUse OwnOneColour
PROPERTIES TimesStayInRange SecondColourFromLeft AddInsertsPhase DeleteRemovesPhase
