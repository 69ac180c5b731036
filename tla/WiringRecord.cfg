SPECIFICATION WiringSpec
CONSTANTS
    CROSSWAY_MAX = 2
    Colours = 2
    Outputs = 2
    Factory <- MCFactory
INVARIANT RecordExact
