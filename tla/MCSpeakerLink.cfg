CONSTANTS
    Conn = {c1, c2}
    Call = {k1}
    Announcing = {c1}
    None = None
    Channel = 1
SPECIFICATION LFairSpec
INVARIANTS NewerLinkKept NobodyInTheWay PendingAccounted
PROPERTIES NewConnectionServes EveryCallReturns
