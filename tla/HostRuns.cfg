CONSTANTS
    Runs = {r1, r2}
    Workers = {w1, w2}
    None = None
    Talkative = {r1}
    MaxSeq = 1
    MaxQueue = 1
    Groups = {g1}
SPECIFICATION FairSpec
INVARIANTS NoOrphanRun
PROPERTIES ExitKillsOwnGroups StopEndsRun ReportedGroupsDie KeepsPromise
CHECK_DEADLOCK FALSE
