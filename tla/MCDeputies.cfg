CONSTANTS
    Root = root
    c1 = c1
    c2 = c2
    Children = {c1, c2}
    Requests = {u1}
    Kinds = {"plain", "choice", "retry", "tool"}
    Calls = {k1, k2}
    Workers = 2
    MaxRuns = 4
    MaxChildren = 1
    MaxSpawns = 1
    MaxFaults = 1
    None = None
SPECIFICATION FairSpec
INVARIANTS SpawnsWithinBudget NotifiedOnceUnlessStale
PROPERTIES ParentIsTold CallsEnd
CHECK_DEADLOCK FALSE
ACTION_CONSTRAINT SecondIsIdle
