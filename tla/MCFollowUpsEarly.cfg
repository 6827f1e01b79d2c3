CONSTANTS
    FollowUps = {f1}
    Schedulers = {w1}
    Editors = {e1}
    Schedules <- AllSchedules
    Resources = {"environment"}
    Horizon = 3
    MaxTime = 3
    MaxRevision = 1
    MaxFaults = 1
    ActiveLimit = 1
    Nobody = Nobody
SPECIFICATION Spec
INVARIANT NothingBeforeItsTime
CHECK_DEADLOCK FALSE
