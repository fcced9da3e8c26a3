CONSTANTS
    Call = {c1, c2}
    None = None
    Empty = Empty
    Torn = Torn
    MacHost = "lan"
    AllowPrivate = TRUE
    MaxDeath = 0
SPECIFICATION RelaySpec
INVARIANTS LatestSongServed
CHECK_DEADLOCK FALSE
