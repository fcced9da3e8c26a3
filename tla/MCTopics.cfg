CONSTANTS
    Task = {t1, t2, t3}
    Nobody = Nobody
    MaxRounds = 2
    MaxAge = 1
    MaxDay = 2
    MaxRestart = 1
SPECIFICATION TFairSpec
INVARIANTS RoundWhereChosen LatestFirst
PROPERTIES RoundsKept ArchiveIsBook EveryTaskEnds
CHECK_DEADLOCK FALSE
