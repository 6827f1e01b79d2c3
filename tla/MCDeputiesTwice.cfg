CONSTANTS
    Root = root
    c1 = c1
    c2 = c2
    Children = {c1, c2}
    Requests = {u1}
    Kinds = {"plain"}
    Calls = {k1, k2}
    Workers = 1
    MaxRuns = 4
    MaxChildren = 1
    MaxSpawns = 1
    MaxFaults = 0
    None = None
SPECIFICATION Spec
INVARIANT NotifiedOnce
CHECK_DEADLOCK FALSE
ACTION_CONSTRAINT SecondIsIdle
