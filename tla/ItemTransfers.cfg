SPECIFICATION Spec
CONSTANTS
    Instances = {i1, i2}
    Definitions = {d1}
    Qualities = {q1}
    MaxItemCount = 3
    Players = {p1, p2}
    Containers = {c1}
    World = World
    NoItem = NoItem
    Unregistered = Unregistered
    NoTransaction = NoTransaction
    MaxRevision = 3
    MaxWorldItems = 2
    CrashInHandler = FALSE
SYMMETRY Symmetry
PROPERTIES
    RestartRestoresOwners
    TransfersConserve
    OthersKeepTheirs
