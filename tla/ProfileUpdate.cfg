SPECIFICATION LoopSpec
CONSTANTS
    Instances = {i1, i2, i3}
    Definitions = {d1}
    Qualities = {q1}
    MaxItemCount = 2
    Players = {p1, p2}
    Containers = {c1}
    World = World
    NoItem = NoItem
    Unregistered = Unregistered
    Sender = p1
SYMMETRY Symmetry
INVARIANTS
    LoopsSettle
    LoopsRespectOwners
CHECK_DEADLOCK FALSE
