CONSTANTS
    Schedulers = {p1, p2}
    Manual = {u1}
    Crons = {1, 2}
    FirstCron = 1
    MaxTime = 2
    MaxInputs = 1
    MaxFaults = 2
    MaxAtWork = 2
    Nobody = Nobody
SPECIFICATION FairSpec
INVARIANTS StatusTellsTheWork
  
ACTION_CONSTRAINT TwoMishaps
CHECK_DEADLOCK FALSE
