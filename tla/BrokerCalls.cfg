SPECIFICATION FairSpec
CONSTANTS
    s1 = s1  s2 = s2  c1 = c1  c2 = c2  b = b  None = None
    Shims = {s1, s2}
    Calls = {c1, c2, b}
    CallsOf <- MCCallsOf
    BadCalls = {b}
    MaxCalls = 2
    MaxConnections = 2
    MaxCallsAfterClose = 1
    MaxPendingSockets = 1
    MaxQueuedCalls = 1
    MaxFrames = 2
INVARIANTS OneHandler CallBudget ClosingIsAnnounced NotExecutedMeansNotRun
PROPERTIES NothingStartsAfterClose EveryCallIsAnswered
CHECK_DEADLOCK FALSE
