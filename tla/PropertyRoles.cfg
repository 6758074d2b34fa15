SPECIFICATION Spec
CONSTANTS
    Players = {p1, p2, p3}
    Properties = {1, 2}
    Parent <- RoomInHouse
    NoProperty = 0
    Marked = {1, 2}
    MaxAssignments = 3
    MaxTime = 2
    MaxWire = 1
SYMMETRY Symmetry
INVARIANTS
    LedgerIsLoadable
    OneTitle
    MarkersAreClaims
PROPERTIES
    GrantsTakeNothing
