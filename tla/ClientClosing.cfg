SPECIFICATION FairSpec
CONSTANTS
    MaxJoins = 1
    MaxAttempts = 1
    Capacity = 2
    MaxWire = 1
PROPERTIES
    ClosingEnds
