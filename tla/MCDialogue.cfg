CONSTANTS
    Url = {tune}
    NoUrl = NoUrl
    MaxTask = 10
    MaxEpoch = 0
    Msg = {1, 2}
    Push = {p1}
    Song = {s1}
    MsgKind = {"ask", "silentStop", "musicStop", "wakeWord"}
    NoMsg = NoMsg
    MaxChunk = 1
    PauseWorks = FALSE
    Absent = {{s1}, {p1}, {2}}
SPECIFICATION MCFairSpec
INVARIANTS BarrierHasOwner NoForgottenAwait
PROPERTIES EveryHandlerReturns BarrierKeepsOutsideOut
