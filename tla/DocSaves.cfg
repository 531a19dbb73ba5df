SPECIFICATION Spec
CONSTANTS
    x = x  h1 = h1  h2 = h2  l1 = l1  l2 = l2  i1 = i1  i3 = i3  None = None
    Units = {x, h1, h2, l1, l2}
    High = {h1, h2}
    Low = {l1, l2}
    Keys = {editor}
    NoKey = None
    HistoryLimit = 2
    Sources <- MCPairs
    Starter <- MCStarter
    Irs = {i1, i3}
    IrOf <- MCPairIrs
    Engines = {web}
    Paths = {p1}
    JsonPaths = {p1}
    MaxRevision = 5
    MaxRuns = 1
    MaxSaves = 2
    Recomputes = FALSE
    ServiceFails = TRUE
INVARIANTS CleanIsOnDisk PairsAreWhole
PROPERTIES KeepsUndoLog
CHECK_DEADLOCK FALSE
