CONSTANTS
    Call = {c1, c2}
    Song = {s1, s2}
    None = None
    Empty = Empty
    Torn = Torn
    MacHost = "lan"
    AllowPrivate = TRUE
    MaxDeath = 1
    Steps = {200, 700}
    TurnTime = 200
    MaxTime = 900
SPECIFICATION MFairSpec
INVARIANTS RelayUp
PROPERTIES EveryAskEnds
CHECK_DEADLOCK FALSE
