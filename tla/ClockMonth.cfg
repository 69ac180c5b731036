SPECIFICATION Spec
CONSTANTS
    MinYear = 2011
    MaxYear = 2012
    Cursor = {2, 3, 4, 5, 6, 7}
    Messages <- MCMessages
    Nightfall <- MCNightfall
PROPERTY CalibrationAgrees
