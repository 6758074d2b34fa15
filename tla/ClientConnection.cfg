SPECIFICATION FairSpec
CONSTANTS
    MaxJoins = 3
    MaxAttempts = 1
    Capacity = 1
    MaxWire = 1
INVARIANTS
    
    PhasesMatch
    SaysWhatFits
PROPERTIES
    UserDisconnectEnds
    JoinsSettle
