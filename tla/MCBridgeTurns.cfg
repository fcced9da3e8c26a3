CONSTANTS
    Req = {r1, r2}
    Question = {q1}
    NoReq = NoReq
    None = None
    DeepSlots = 1
    MaxRound = 2
    DeepSong = TRUE
SPECIFICATION BFairSpec
INVARIANTS SlotsConserved OneTurn ReplyUsedOnce SongOfTurnSent
PROPERTIES EveryTurnEnds
