CONSTANTS
    Handlers = {h1, h2}
    Keys = {k1, k2, k3}
    Recovery = {k2, k3}
    PhraseOnly = {k3}
    Sessions = {s1, s2}
    Chat = TRUE
    PoolSize = 3
    MaxSent = 2
    MaxFaults = 1
    None = None
SPECIFICATION FairSpec
INVARIANTS OneMessagePerDelivery OneSessionPerThread
PROPERTIES ImplementsThreadInbox RequestsEnd
CHECK_DEADLOCK FALSE
