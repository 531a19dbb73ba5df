SPECIFICATION Spec
CONSTANTS
    m1 = m1  m2 = m2  g1 = g1  g2 = g2  None = None
    Units = {m1, m2, g1, g2}
    High = {}
    Low = {}
    Keys = {}
    NoKey = None
    HistoryLimit = 2
    Models = {m1, m2}
    Geometries = {g1, g2}
    SolutionOf <- MCSolutionOf
    Loads <- MCLoads
    AutoWriteBack = TRUE
    MaxRevision = 4
    MaxQueue = 1
    MaxCalls = 2
    MaxSwitches = 1
INVARIANTS ParamsAreCurrent
PROPERTIES CommitsAreWhole CapturesAreStored KeepsUndoLog
CHECK_DEADLOCK FALSE
