CONSTANTS
    FollowUps = {f1}
    Schedulers = {w1, w2}
    Editors = {e1}
    Schedules <- AllSchedules
    Resources = {"environment", "thread"}
    Horizon = 3
    MaxTime = 3
    MaxRevision = 1
    MaxFaults = 1
    ActiveLimit = 1
    Nobody = Nobody
SPECIFICATION FairSpec
INVARIANTS DueIsAhead DueIsRecorded
PROPERTIES ArchivedIsSilent DueIsDecided
CHECK_DEADLOCK FALSE
