SPECIFICATION FairSpec
CONSTANTS
    Players = {p1, p2}
    Stations = {s1}
    SessionIds = {a1, a2}
    Required = 2
    MaxInFlight = 2
    None = None
INVARIANTS
    StationsMatchActivities
    NoSurprise
    QuietPlayersAgree
PROPERTIES
    RespawnsAreAnswered
