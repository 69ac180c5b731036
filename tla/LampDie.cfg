SPECIFICATION Spec
CONSTANTS
    Groups = 3
    TestGroups = 2
    Lamps = 6
    Rows <- MCRows
PROPERTY AllLedDieDarkens
