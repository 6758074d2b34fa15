SPECIFICATION Spec
CONSTANTS
    Connections = {c1, c2}
    Identities = {p1, p2}
    Tokens = {t1, t2}
    Names = {n1, n2}
    Starters = {s1, s2}
    MaxPlayers = 2
    MaxDummies = 1
    None = None
SYMMETRY Symmetry
INVARIANTS
    TypeOK
    OneInitializer
    WaitersHaveInitializer
    IdentityHeldOnce
    SlotsRespected
PROPERTIES
    NoTakeover
