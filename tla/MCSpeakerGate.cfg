CONSTANTS
    Url = {song}
    NoUrl = NoUrl
    MaxTask = 3
    MaxEpoch = 1
SPECIFICATION FairSpec
INVARIANTS NothingStranded EachTaskOnce AbandonedExpired OutsideInOrder
PROPERTIES FlushIsFinal ChainsDrain
