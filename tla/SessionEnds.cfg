SPECIFICATION FairSpec
CONSTANTS
    Connections = {c1, c2}
    Identities = {p1}
    Tokens = {t1, t2}
    Names = {n1, n2}
    Starters = {s1, s2}
    MaxPlayers = 1
    MaxDummies = 1
    None = None
PROPERTIES
    AbandonedSessionsEnd
