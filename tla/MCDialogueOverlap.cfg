CONSTANTS
    Url = {tune}
    NoUrl = NoUrl
    MaxTask = 4
    MaxEpoch = 0
    Msg = {1, 2}
    Push = {}
    Song = {}
    MsgKind = {"ask"}
    NoMsg = NoMsg
    MaxChunk = 1
    PauseWorks = FALSE
    Absent = {{}}
SPECIFICATION MCSpec
PROPERTIES InterjectionSparesNewAnswer
