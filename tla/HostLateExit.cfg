CONSTANTS
    Runs = {r1, r2}
    Workers = {w1, w2}
    None = None
    Talkative = {}
    MaxSeq = 0
    MaxQueue = 1
    Groups = {}
SPECIFICATION FairSpec
PROPERTIES ExitEndsOwnRun
CHECK_DEADLOCK FALSE
