SPECIFICATION Spec
CONSTANTS
    Players = {1, 2}
    Npcs = {1}
    Catalogued = {1}
    Kinds = {human}
    KindOf <- KindOfAll
    Places = {0, 2}
    EnterRadius = 0
    LeaveRadius = 1
    DiscoveryRadius = 1
    Leases = {l1, l2}
    NoLease = NoLease
    NpcPlaces = {0, 1}
    LeaseTicks = 2
    MaxSpeed = 1
    MaxRevision = 2
    MaxStream = 2
    MaxInFlight = 1
SYMMETRY Symmetry
INVARIANTS
    HoldersWatch
    LeaseNamesHolder
    QuietClientsAgree
