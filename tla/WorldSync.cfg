SPECIFICATION Spec
CONSTANTS
    Players = {p1, p2}
    Contents = {closed, open}
    Plain = closed
    Worlds <- KnownWorlds
    MaxRevision = 3
    MaxWire = 2
SYMMETRY Symmetry
INVARIANTS
    SteadyClientsAgree
    UncrossedClientsStay
    QuietRevisionsAgree
PROPERTY
    ViewsMoveForward
