CONSTANTS
    Ids = {s1, s2}
    Workers = {w1}
    Tools = {t1}
    Reaper = reaper
    Archiver = archiver
    StopDelay = 1
    Retention = 1
    MaxKeep = 1
    Batch = 1
    MaxFaults = 1
    NoId = NoId
    NoCaller = NoCaller
SPECIFICATION FairSpec
INVARIANTS KeptAliveIsLeft LeaksAreExplained
PROPERTIES RecordsAreNotOverwritten ReapedInTheEnd
CHECK_DEADLOCK FALSE
ACTION_CONSTRAINT TwoAtWork
