SPECIFICATION Spec
CONSTANTS
    Instances = {i1, i2, i3}
    Definitions = {d1}
    Qualities = {q1}
    MaxItemCount = 2
    Players = {p1, p2}
    Containers = {c1}
    World = World
    NoItem = NoItem
    Unregistered = Unregistered
    NoTransaction = NoTransaction
    MaxRevision = 2
    MaxWorldItems = 2
    CrashInHandler = TRUE
SYMMETRY Symmetry
INVARIANTS
    TypeOK
    LedgerAgrees
    StagedAgrees
    StoreIsLoadable
    WholeTakesSurviveCrash
PROPERTIES
    OwnershipIsKept
